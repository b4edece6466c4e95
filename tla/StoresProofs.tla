---------------------------- MODULE StoresProofs ----------------------------
(***************************************************************************)
(* For any machines, groups, artifacts and clients, and any number of      *)
(* requests and faults: the types, the rows of answered calls, the limit   *)
(* of a token, deleted machines, revisions and memberships.                *)
(*                                                                         *)
(* A property of what the store answers from is not inductive: a restart   *)
(* puts the file in its place, and a statement given up on changes it      *)
(* later.  Each invariant therefore speaks of the tables in memory, of     *)
(* those on disk and of what is still to be executed:                      *)
(*   Agreed    both agree with the answered calls wherever no other call   *)
(*             has written, and late statements write nothing else (Typed);*)
(*   Granted   both have counted the enrollments that were answered;       *)
(*   Gone      both are without the deleted machines, and nobody is about  *)
(*             to save one, for which no two clients may be busy with the  *)
(*             same machine;                                               *)
(*   Newer     a recompute is about to save no older revision;             *)
(*   Attached  both have members of what exists only, and the second half  *)
(*             of a delete, under way or late, finds none left.            *)
(* The lemmas before them say once what a statement, and the statements    *)
(* that take effect together, do to a table.                               *)
(***************************************************************************)
EXTENDS Stores, TLAPS

------------------------------------------------------------------------------
(* The invariants                                                           *)

\* A statement that some call consists of.
Sound(s) ==
    /\ s.do \in Kinds
    /\ s.do \in {"saveMachine", "touch", "setStatus", "leaveGroups", "dropMachine"} =>
          s.key \in Machines
    /\ s.do = "saveMachine" => s.row \in Rows /\ s.row.desired > 0
    /\ s.do \in {"touch", "setStatus"} => s.value \in Nat /\ s.value > 0
    /\ s.do \in {"empty", "dropGroup", "saveGroup"} => s.key \in Groups
    /\ s.do \in {"add", "remove"} => s.key \in Groups \X Machines
    /\ s.do \in {"saveModule", "dropModule"} => s.key \in Artifacts
    /\ s.do = "consume" => s.key = TokenKey

\* The statement request r ends with.
Ends(r, s) ==
    /\ Sound(s)
    /\ <<r, s.do>> \in {<<"recompute", "saveMachine">>, <<"heartbeat", "touch">>,
                        <<"status", "setStatus">>, <<"enroll", "saveMachine">>,
                        <<"deleteMachine", "dropMachine">>, <<"deleteGroup", "dropGroup">>,
                        <<"saveGroup", "saveGroup">>, <<"add", "add">>, <<"remove", "remove">>,
                        <<"module", "saveModule">>, <<"module", "dropModule">>}
    /\ r = "enroll" => s = SaveMachine(s.key, NewRecord)
    /\ r = "deleteMachine" => s = DropMachine(s.key)

\* The one before it, if request r makes two.
Begins(r, s, u) ==
    /\ Sound(s)
    /\ \/ r = "enroll" /\ s.do = "consume"
       \/ r = "deleteMachine" /\ s.do = "leaveGroups" /\ s.key = u.key
       \/ r = "deleteGroup" /\ s.do = "empty" /\ s.key = u.key

Deletes == {"deleteMachine", "deleteGroup"}

\* What request r has left to do.
Shape(r, cs) ==
    \/ r = "none" /\ cs = <<>>
    \/ /\ cs = <<cs[1]>> /\ Ends(r, cs[1])
       /\ r \in Deletes => backend = "turso"
    \/ cs = <<cs[1], cs[2]>> /\ Ends(r, cs[2]) /\ Begins(r, cs[1], cs[2])

\* What request c is for: the last of its statements.
Final(c) == calls[c][Len(calls[c])]

Typed ==
    /\ tables \in Tables /\ disk \in Tables /\ promised \in Tables
    /\ backend \in {"file", "turso"}
    /\ backend = "turso" => disk = tables
    /\ boot \in {"columns", "count", "ready"}
    /\ backend = "file" => boot = "ready" /\ late = {}
    /\ DOMAIN request = Clients /\ DOMAIN calls = Clients
    /\ \A c \in Clients : Shape(request[c], calls[c])
    /\ boot # "ready" => \A c \in Clients : request[c] = "none"
    /\ \A s \in late : Sound(s) /\ Writes(s) \subseteq doubtful
    /\ doubtful \subseteq Keys /\ deleted \subseteq Machines
    /\ requests \in Nat

\* What no unanswered call has written is the same in memory, on disk and as promised.
Agreed ==
    \A k \in Keys \ doubtful :
        SameRow(tables, promised, k) /\ SameRow(disk, promised, k)

\* The uses of the token, those from before uses were counted among them.
Counted(t) == IF t.token.used /\ t.token.uses = 0 THEN 1 ELSE t.token.uses

Granted ==
    /\ granted \in Nat
    /\ granted <= Counted(tables) /\ granted <= Counted(disk)
    /\ Counted(tables) <= tables.token.max /\ Counted(disk) <= disk.token.max
    /\ disk.token.max = tables.token.max
    /\ backend = "turso" /\ boot = "ready" => ~(tables.token.used /\ tables.token.uses = 0)

\* Nothing is under way that would bring a deleted machine back, and nobody enrolls
\* a machine that somebody else is busy with.
Gone ==
    ~staleSave =>
        /\ \A m \in deleted : tables.machines[m] = None /\ disk.machines[m] = None
        /\ \A s \in late : s.do # "saveMachine"
        /\ \A c \in Clients : request[c] \in {"recompute", "enroll"} => Final(c).key \notin deleted
        /\ \A c \in Clients : request[c] \in {"recompute", "deleteMachine"} =>
              Exists(Final(c).key) \/ Final(c).key \in deleted \cup doubtful
        /\ \A c \in Clients : request[c] = "enroll" => ~Exists(Final(c).key)
        /\ \A c, d \in Clients : c # d =>
              /\ request[c] = "recompute" => request[d] \notin {"recompute", "deleteMachine"}
              /\ request[c] = "enroll" /\ request[d] \in {"enroll", "recompute", "deleteMachine"} =>
                    Final(c).key # Final(d).key

\* A recompute that nothing races writes no older revision.
Newer ==
    ~staleSave =>
        \A c \in Clients : request[c] = "recompute" /\ Exists(Final(c).key) =>
            Final(c).row.desired >= tables.machines[Final(c).key].desired

\* Members are of machines and groups there are, in memory and on disk.
Sane(t) == \A p \in t.members : p[1] \in t.groups /\ t.machines[p[2]] # None

\* No member is added beside a delete, and a delete that is half done has left no
\* member to its second half.
Attached ==
    ~staleAdd =>
        /\ Sane(tables) /\ Sane(disk)
        /\ \A c \in Clients : request[c] = "add" =>
              Final(c).key[1] \in tables.groups /\ Exists(Final(c).key[2])
        /\ \A s \in late : s.do # "add"
        /\ \A c \in Clients : request[c] = "add" =>
              /\ ~Overdue({"dropMachine", "dropGroup"})
              /\ \A d \in Clients : request[d] \notin Deletes
        /\ \A c \in Clients : Len(calls[c]) = 1 =>
              /\ request[c] = "deleteMachine" => \A p \in tables.members : p[2] # Final(c).key
              /\ request[c] = "deleteGroup" => \A p \in tables.members : p[1] # Final(c).key
        /\ \A s \in late : \A p \in tables.members :
              /\ s.do = "dropMachine" => p[2] # s.key
              /\ s.do = "dropGroup" => p[1] # s.key

------------------------------------------------------------------------------
(* Statements and tables                                                    *)

RowKinds == {"saveMachine", "touch", "setStatus", "dropMachine"}

LEMMA RowsAreRows ==
    ASSUME NEW row \in Rows, NEW s, Sound(s), s.do \in RowKinds
    PROVE  MachineRow(s, row) \in Rows
<1>1. None \in Rows
  BY DEF None, Rows
<1>2. CASE s.do = "saveMachine"
  BY <1>2 DEF MachineRow, Sound
<1>3. CASE s.do = "touch"
  BY <1>3 DEF MachineRow, Sound, Rows
<1>4. CASE s.do = "setStatus"
  BY <1>4 DEF MachineRow, Sound, Rows
<1>5. CASE s.do = "dropMachine"
  BY <1>1, <1>5 DEF MachineRow
<1> QED
  BY <1>2, <1>3, <1>4, <1>5 DEF RowKinds

LEMMA TokensAreTokens ==
    ASSUME NEW t \in Tables
    PROVE  ConsumeToken(t) \in [used : BOOLEAN, uses : Nat, max : Nat]
<1>1. t.token \in [used : BOOLEAN, uses : Nat, max : Nat]
  BY DEF Tables
<1>2. Uses(t) \in Nat
  BY <1>1 DEF Uses
<1>3. \A n \in Nat, u \in BOOLEAN : [t.token EXCEPT !.uses = n, !.used = u]
          \in [used : BOOLEAN, uses : Nat, max : Nat]
  BY <1>1
<1>4. Uses(t) + 1 \in Nat /\ (Uses(t) + 1 >= t.token.max) \in BOOLEAN
  BY <1>1, <1>2
<1> QED
  BY <1>1, <1>3, <1>4 DEF ConsumeToken

\* What a statement does to each table.
LEMMA MachinesAfter ==
    ASSUME NEW t \in Tables, NEW s, Sound(s)
    PROVE  /\ Execute(t, s).machines \in [Machines -> Rows]
           /\ \A m \in Machines : Execute(t, s).machines[m] =
                 IF s.do \in RowKinds /\ m = s.key THEN MachineRow(s, t.machines[m])
                 ELSE t.machines[m]
<1>0. t.machines \in [Machines -> Rows]
  BY DEF Tables
<1>1. CASE s.do \in RowKinds
  <2> DEFINE new == [t.machines EXCEPT ![s.key] = MachineRow(s, @)]
  <2>1. Execute(t, s) = [t EXCEPT !.machines = new]
    BY <1>1 DEF Execute, RowKinds
  <2>2. s.key \in Machines
    BY <1>1 DEF Sound, RowKinds
  <2>3. MachineRow(s, t.machines[s.key]) \in Rows
    BY <1>0, <1>1, <2>2, RowsAreRows
  <2>4. new \in [Machines -> Rows]
    BY <1>0, <2>2, <2>3
  <2>5. \A m \in Machines : new[m] =
            IF m = s.key THEN MachineRow(s, t.machines[m]) ELSE t.machines[m]
    BY <1>0, <2>2
  <2> HIDE DEF new
  <2>6. Execute(t, s).machines = new
    BY <2>1 DEF Tables
  <2> QED
    BY <1>1, <2>4, <2>5, <2>6
<1>2. CASE s.do \notin RowKinds
  <2>1. Execute(t, s).machines = t.machines
    <3>1. s.do \in {"leaveGroups", "empty", "add", "remove"} \/ s.do = "consume"
             \/ s.do \in {"saveGroup", "dropGroup", "saveModule", "dropModule"}
      BY <1>2 DEF Sound, Kinds, RowKinds
    <3> QED
      BY <3>1 DEF Execute, Tables
  <2> QED
    BY <1>0, <1>2, <2>1
<1> QED
  BY <1>1, <1>2

LEMMA MembersAfter ==
    ASSUME NEW t \in Tables, NEW s, Sound(s)
    PROVE  /\ Execute(t, s).members \subseteq Groups \X Machines
           /\ \A p : p \in Execute(t, s).members <=>
                 \/ /\ p \in t.members
                    /\ s.do = "leaveGroups" => p[2] # s.key
                    /\ s.do = "empty" => p[1] # s.key
                    /\ s.do = "remove" => p # s.key
                 \/ s.do = "add" /\ p = s.key
<1>1. CASE s.do \in {"leaveGroups", "empty", "add", "remove"}
  BY <1>1 DEF Execute, Tables, Sound, RowKinds
<1>2. CASE s.do \notin {"leaveGroups", "empty", "add", "remove"}
  BY <1>2 DEF Execute, Tables, Sound, Kinds, RowKinds
<1> QED
  BY <1>1, <1>2

LEMMA GroupsAfter ==
    ASSUME NEW t \in Tables, NEW s, Sound(s)
    PROVE  /\ Execute(t, s).groups \subseteq Groups
           /\ \A g : g \in Execute(t, s).groups <=>
                 \/ g \in t.groups /\ (s.do = "dropGroup" => g # s.key)
                 \/ s.do = "saveGroup" /\ g = s.key
<1>1. CASE s.do \in {"saveGroup", "dropGroup"}
  BY <1>1 DEF Execute, Tables, Sound
<1>2. CASE s.do \notin {"saveGroup", "dropGroup"}
  BY <1>2 DEF Execute, Tables, Sound, Kinds
<1> QED
  BY <1>1, <1>2

LEMMA ModulesAfter ==
    ASSUME NEW t \in Tables, NEW s, Sound(s)
    PROVE  /\ Execute(t, s).modules \subseteq Artifacts
           /\ \A a : a \in Execute(t, s).modules <=>
                 \/ a \in t.modules /\ (s.do = "dropModule" => a # s.key)
                 \/ s.do = "saveModule" /\ a = s.key
<1>1. CASE s.do \in {"saveModule", "dropModule"}
  BY <1>1 DEF Execute, Tables, Sound
<1>2. CASE s.do \notin {"saveModule", "dropModule"}
  BY <1>2 DEF Execute, Tables, Sound, Kinds
<1> QED
  BY <1>1, <1>2

LEMMA TokenAfter ==
    ASSUME NEW t \in Tables, NEW s, Sound(s)
    PROVE  /\ Execute(t, s).token \in [used : BOOLEAN, uses : Nat, max : Nat]
           /\ Execute(t, s).token = IF s.do = "consume" THEN ConsumeToken(t) ELSE t.token
<1>1. CASE s.do = "consume"
  BY <1>1, TokensAreTokens DEF Execute, Tables
<1>2. CASE s.do # "consume"
  BY <1>2 DEF Execute, Tables, Sound, Kinds
<1> QED
  BY <1>1, <1>2

LEMMA TablesAfter ==
    ASSUME NEW t \in Tables, NEW s, Sound(s)
    PROVE  Execute(t, s) \in Tables
<1>1. Execute(t, s) = [machines |-> Execute(t, s).machines, groups |-> Execute(t, s).groups,
                       members |-> Execute(t, s).members, modules |-> Execute(t, s).modules,
                       token |-> Execute(t, s).token]
  BY DEF Execute, Tables, Sound, Kinds
<1> QED
  BY <1>1, MachinesAfter, MembersAfter, GroupsAfter, ModulesAfter, TokenAfter DEF Tables

------------------------------------------------------------------------------
(* What a statement changes is among the rows it writes                     *)

LEMMA WritesOthers ==
    ASSUME NEW t \in Tables, NEW s, Sound(s), NEW k \in Keys, k \notin Writes(s)
    PROVE  SameRow(Execute(t, s), t, k)
<1>0. /\ s.do \notin {"leaveGroups", "empty"} => k # s.key
      /\ s.do = "leaveGroups" => \A g \in Groups : k # <<g, s.key>>
      /\ s.do = "empty" => \A m \in Machines : k # <<s.key, m>>
  BY DEF Writes
<1>1. k \in Machines => Execute(t, s).machines[k] = t.machines[k]
  BY <1>0, MachinesAfter DEF RowKinds
<1>2. k \in Execute(t, s).groups <=> k \in t.groups
  BY <1>0, GroupsAfter
<1>3. k \in Execute(t, s).modules <=> k \in t.modules
  BY <1>0, ModulesAfter
<1>4. k \in Execute(t, s).members <=> k \in t.members
  <2>1. k \in t.members => \E g \in Groups, m \in Machines : k = <<g, m>>
    BY DEF Tables
  <2>2. k \in t.members => /\ s.do = "leaveGroups" => k[2] # s.key
                           /\ s.do = "empty" => k[1] # s.key
    BY <1>0, <2>1
  <2> QED
    BY <1>0, <2>2, MembersAfter
<1>5. k = TokenKey => Execute(t, s).token = t.token
  <2>1. s.do = "consume" => s.key = TokenKey
    BY DEF Sound
  <2> QED
    BY <1>0, <2>1, TokenAfter
<1> QED
  BY <1>1, <1>2, <1>3, <1>4, <1>5 DEF SameRow

LEMMA WritesAlike ==
    ASSUME NEW t \in Tables, NEW u \in Tables, NEW s, Sound(s), NEW k \in Keys,
           SameRow(t, u, k)
    PROVE  SameRow(Execute(t, s), Execute(u, s), k)
<1>1. k \in Machines => Execute(t, s).machines[k] = Execute(u, s).machines[k]
  BY MachinesAfter DEF SameRow
<1>2. k \in Execute(t, s).groups <=> k \in Execute(u, s).groups
  BY GroupsAfter DEF SameRow
<1>3. k \in Execute(t, s).modules <=> k \in Execute(u, s).modules
  BY ModulesAfter DEF SameRow
<1>4. k \in Execute(t, s).members <=> k \in Execute(u, s).members
  BY MembersAfter DEF SameRow
<1>5. k = TokenKey => Execute(t, s).token = Execute(u, s).token
  <2>1. t.token = u.token => ConsumeToken(t) = ConsumeToken(u)
    BY DEF ConsumeToken, Consumable, Uses
  <2> QED
    BY <2>1, TokenAfter DEF SameRow
<1> QED
  BY <1>1, <1>2, <1>3, <1>4, <1>5 DEF SameRow

LEMMA WritesKeys ==
    ASSUME NEW s, Sound(s)
    PROVE  Writes(s) \subseteq Keys
BY DEF Sound, Writes, Keys, Kinds, TokenKey

------------------------------------------------------------------------------
(* The statements that take effect together                                 *)

LEMMA Lists ==
    ASSUME NEW a, NEW b
    PROVE  /\ <<a>> # <<>> /\ <<a, b>> # <<>> /\ <<a>> # <<a, b>>
           /\ Len(<<>>) = 0 /\ Len(<<a>>) = 1 /\ Len(<<a, b>>) = 2
           /\ Tail(<<a>>) = <<>> /\ Tail(<<a, b>>) = <<b>>
OBVIOUS

LEMMA PartIs ==
    ASSUME Typed, NEW c \in Clients, calls[c] # <<>>
    PROVE  /\ Sound(calls[c][1])
           /\ Whole(c) => Sound(calls[c][2])
           /\ calls[c] = <<calls[c][1], calls[c][2]>> => Sound(calls[c][2])
BY DEF Typed, Shape, Ends, Begins, Whole, Deletes

LEMMA PartTyped ==
    ASSUME Typed, NEW c \in Clients, calls[c] # <<>>, NEW t \in Tables
    PROVE  ExecutePart(c, t) \in Tables
BY PartIs, TablesAfter DEF ExecutePart

LEMMA PartOthers ==
    ASSUME Typed, NEW c \in Clients, calls[c] # <<>>, NEW t \in Tables,
           NEW k \in Keys, k \notin AllWrites(Part(c))
    PROVE  SameRow(ExecutePart(c, t), t, k)
<1>1. /\ k \notin Writes(calls[c][1])
      /\ Whole(c) => k \notin Writes(calls[c][2])
  BY DEF AllWrites, Part
<1>2. SameRow(Execute(t, calls[c][1]), t, k)
  BY <1>1, PartIs, WritesOthers
<1>3. CASE Whole(c)
  <2>1. SameRow(Execute(Execute(t, calls[c][1]), calls[c][2]), Execute(t, calls[c][1]), k)
    BY <1>1, <1>3, PartIs, WritesOthers, TablesAfter
  <2> QED
    BY <1>2, <1>3, <2>1 DEF ExecutePart, SameRow
<1>4. CASE ~Whole(c)
  BY <1>2, <1>4 DEF ExecutePart
<1> QED
  BY <1>3, <1>4

LEMMA PartAlike ==
    ASSUME Typed, NEW c \in Clients, calls[c] # <<>>, NEW t \in Tables, NEW u \in Tables,
           NEW k \in Keys, SameRow(t, u, k)
    PROVE  SameRow(ExecutePart(c, t), ExecutePart(c, u), k)
<1>1. SameRow(Execute(t, calls[c][1]), Execute(u, calls[c][1]), k)
  BY PartIs, WritesAlike
<1>2. CASE Whole(c)
  BY <1>1, <1>2, PartIs, WritesAlike, TablesAfter DEF ExecutePart
<1>3. CASE ~Whole(c)
  BY <1>1, <1>3 DEF ExecutePart
<1> QED
  BY <1>2, <1>3

LEMMA PartKeys ==
    ASSUME Typed, NEW c \in Clients, calls[c] # <<>>
    PROVE  /\ AllWrites(Part(c)) \subseteq Keys
           /\ \A s \in Part(c) : Sound(s) /\ Writes(s) \subseteq AllWrites(Part(c))
<1>1. \A s \in Part(c) : Sound(s)
  BY PartIs DEF Part
<1> QED
  BY <1>1, WritesKeys DEF AllWrites

\* What is left of a request when its part has been answered.
LEMMA PassShape ==
    ASSUME Typed, NEW c \in Clients, calls[c] # <<>>, Pass(c)
    PROVE  /\ DOMAIN request' = Clients /\ DOMAIN calls' = Clients
           /\ \A d \in Clients \ {c} : request'[d] = request[d] /\ calls'[d] = calls[d]
           /\ \/ request'[c] = "none" /\ calls'[c] = <<>>
              \/ /\ request'[c] = request[c] /\ ~Whole(c)
                 /\ calls[c] = <<calls[c][1], calls[c][2]>> /\ calls'[c] = <<calls[c][2]>>
                 /\ Ends(request[c], calls[c][2])
                 /\ Begins(request[c], calls[c][1], calls[c][2])
<1>1. /\ DOMAIN request' = Clients /\ DOMAIN calls' = Clients
      /\ \A d \in Clients \ {c} : request'[d] = request[d] /\ calls'[d] = calls[d]
      /\ calls'[c] = Rest(c)
      /\ request'[c] = IF Rest(c) = <<>> THEN "none" ELSE request[c]
  BY DEF Pass, Typed
<1>2. Rest(c) = <<>> \/ (~Whole(c) /\ Rest(c) = Tail(calls[c]))
  BY DEF Rest
<1>3. \/ calls[c] = <<calls[c][1]>>
      \/ /\ calls[c] = <<calls[c][1], calls[c][2]>> /\ Ends(request[c], calls[c][2])
         /\ Begins(request[c], calls[c][1], calls[c][2])
  BY DEF Typed, Shape
<1>4. CASE calls[c] = <<calls[c][1]>>
  <2>1. Tail(calls[c]) = <<>>
    BY <1>4, Lists
  <2> QED
    BY <1>1, <1>2, <2>1
<1>5. CASE /\ calls[c] = <<calls[c][1], calls[c][2]>> /\ Ends(request[c], calls[c][2])
           /\ Begins(request[c], calls[c][1], calls[c][2])
  <2>1. Tail(calls[c]) = <<calls[c][2]>>
    BY <1>5, Lists
  <2> QED
    BY <1>1, <1>2, <1>5, <2>1, Lists
<1> QED
  BY <1>3, <1>4, <1>5

\* What an arriving request changes.
LEMMA ArriveShape ==
    ASSUME Typed, NEW c \in Clients, Arrive(c)
    PROVE  /\ boot = "ready" /\ request[c] = "none"
           /\ request'[c] # "none" /\ Shape(request'[c], calls'[c])
           /\ DOMAIN request' = Clients /\ DOMAIN calls' = Clients
           /\ \A d \in Clients \ {c} : request'[d] = request[d] /\ calls'[d] = calls[d]
           /\ requests' \in Nat
           /\ UNCHANGED <<backend, tables, disk, boot, late, promised, doubtful,
                          granted, deleted, faults>>
<1>0. /\ DOMAIN request = Clients /\ DOMAIN calls = Clients /\ requests \in Nat
      /\ tables.machines \in [Machines -> Rows]
  BY DEF Typed, Tables
<1> DEFINE Fits == \E kind, cs : Start(c, kind, cs) /\ kind # "none" /\ Shape(kind, cs)
<1>1. Fits
  <2>1. ASSUME NEW m \in Machines, Recompute(c, m) PROVE Fits
    <3> DEFINE row == [tables.machines[m] EXCEPT !.desired = @ + 1]
    <3>1. row \in Rows /\ row.desired > 0
      BY <1>0 DEF Rows
    <3> HIDE DEF row
    <3>2. Ends("recompute", SaveMachine(m, row))
      BY <3>1 DEF Ends, Sound, SaveMachine, Kinds
    <3>3. Shape("recompute", <<SaveMachine(m, row)>>)
      BY <3>2 DEF Shape, Deletes
    <3> QED
      BY <2>1, <3>3 DEF Recompute, row
  <2>2. ASSUME NEW m \in Machines, Heartbeat(c, m) PROVE Fits
    <3>1. Shape("heartbeat", <<TouchHeartbeat(m, requests + 1)>>)
      BY <1>0 DEF Shape, Ends, Sound, TouchHeartbeat, Kinds, Deletes
    <3> QED
      BY <2>2, <3>1 DEF Heartbeat
  <2>3. ASSUME NEW m \in Machines, Status(c, m) PROVE Fits
    <3>1. Shape("status", <<SetStatus(m, requests + 1)>>)
      BY <1>0 DEF Shape, Ends, Sound, SetStatus, Kinds, Deletes
    <3> QED
      BY <2>3, <3>1 DEF Status
  <2>4. ASSUME NEW m \in Machines, Enroll(c, m) PROVE Fits
    <3>1. /\ Ends("enroll", SaveMachine(m, NewRecord))
          /\ Begins("enroll", Consume, SaveMachine(m, NewRecord))
      BY DEF Ends, Begins, Sound, SaveMachine, NewRecord, Consume, Kinds, Rows
    <3>2. Shape("enroll", <<Consume, SaveMachine(m, NewRecord)>>)
      BY <3>1 DEF Shape
    <3> QED
      BY <2>4, <3>2 DEF Enroll
  <2>5. ASSUME NEW m \in Machines, RemoveMachine(c, m) PROVE Fits
    <3>1. Shape("deleteMachine", DeleteMachine(m))
      BY DEF Shape, DeleteMachine, LeaveGroups, DropMachine, Ends, Begins, Sound, Kinds
    <3> QED
      BY <2>5, <3>1 DEF RemoveMachine
  <2>6. ASSUME NEW g \in Groups, RemoveGroup(c, g) PROVE Fits
    <3>1. Shape("deleteGroup", DeleteGroup(g))
      BY DEF Shape, DeleteGroup, Empty, DropGroup, Ends, Begins, Sound, Kinds
    <3> QED
      BY <2>6, <3>1 DEF RemoveGroup
  <2>7. ASSUME NEW g \in Groups, UpdateGroup(c, g) PROVE Fits
    <3>1. Shape("saveGroup", <<SaveGroup(g)>>)
      BY DEF Shape, Ends, Sound, SaveGroup, Kinds, Deletes
    <3> QED
      BY <2>7, <3>1 DEF UpdateGroup
  <2>8. ASSUME NEW g \in Groups, NEW m \in Machines, Join(c, g, m) PROVE Fits
    <3>1. Shape("add", <<AddGroupMember(g, m)>>)
      BY DEF Shape, Ends, Sound, AddGroupMember, Kinds, Deletes
    <3> QED
      BY <2>8, <3>1 DEF Join
  <2>9. ASSUME NEW g \in Groups, NEW m \in Machines, Leave(c, g, m) PROVE Fits
    <3>1. Shape("remove", <<RemoveGroupMember(g, m)>>)
      BY DEF Shape, Ends, Sound, RemoveGroupMember, Kinds, Deletes
    <3> QED
      BY <2>9, <3>1 DEF Leave
  <2>10. ASSUME NEW a \in Artifacts, Upload(c, a) PROVE Fits
    <3>1. Shape("module", <<SaveModule(a)>>)
      BY DEF Shape, Ends, Sound, SaveModule, Kinds, Deletes
    <3> QED
      BY <2>10, <3>1 DEF Upload
  <2>11. ASSUME NEW a \in Artifacts, Forget(c, a) PROVE Fits
    <3>1. Shape("module", <<DeleteModule(a)>>)
      BY DEF Shape, Ends, Sound, DeleteModule, Kinds, Deletes
    <3> QED
      BY <2>11, <3>1 DEF Forget
  <2> QED
    BY <2>1, <2>2, <2>3, <2>4, <2>5, <2>6, <2>7, <2>8, <2>9, <2>10, <2>11 DEF Arrive
<1>2. PICK kind, cs : Start(c, kind, cs) /\ kind # "none" /\ Shape(kind, cs)
  BY <1>1
<1>3. request'[c] = kind /\ calls'[c] = cs /\ backend' = backend
  BY <1>0, <1>2 DEF Start
<1>4. Shape(request'[c], calls'[c])
  BY <1>2, <1>3
<1> QED
  BY <1>0, <1>2, <1>3, <1>4 DEF Start

------------------------------------------------------------------------------
(* The tables, the requests and the statements given up on                  *)

LEMMA FirstTokens ==
    ASSUME NEW token \in {NewToken} \cup OldTokens
    PROVE  /\ token \in [used : BOOLEAN, uses : Nat, max : Nat]
           /\ token.uses = 0 /\ token.used \in BOOLEAN /\ token.max \in Nat \ {0}
<1>1. CASE token = NewToken
  BY <1>1, StoresAssumption DEF NewToken
<1>2. CASE token \in OldTokens
  <2>1. PICK u \in BOOLEAN : token = [used |-> u, uses |-> 0, max |-> 1]
    BY <1>2 DEF OldTokens
  <2> QED
    BY <2>1
<1> QED
  BY <1>1, <1>2

LEMMA Founding ==
    Init => /\ tables \in Tables /\ disk = tables /\ promised = tables
            /\ \A p \in tables.members : p \in Groups \X Founders
            /\ tables.groups = Groups
            /\ \A m \in Founders : tables.machines[m] = NewRecord
<1> SUFFICES ASSUME Init PROVE Founding!2
  OBVIOUS
<1>1. PICK token \in {NewToken} \cup OldTokens, members \in SUBSET (Groups \X Founders) :
          tables = [machines |-> [m \in Machines |-> IF m \in Founders THEN NewRecord ELSE None],
                    groups |-> Groups, members |-> members, modules |-> {}, token |-> token]
  BY DEF Init
<1>2. token \in [used : BOOLEAN, uses : Nat, max : Nat]
  BY FirstTokens
<1>3. members \in SUBSET (Groups \X Machines) /\ Founders \subseteq Machines
  BY StoresAssumption
<1>4. [m \in Machines |-> IF m \in Founders THEN NewRecord ELSE None] \in [Machines -> Rows]
  BY DEF NewRecord, None, Rows
<1>5. tables \in Tables
  BY <1>1, <1>2, <1>3, <1>4 DEF Tables
<1> QED
  BY <1>1, <1>3, <1>5 DEF Init

LEMMA InitTyped == Init => Typed
<1> SUFFICES ASSUME Init PROVE Typed
  OBVIOUS
<1> QED
  BY Founding DEF Init, Typed, Shape

\* The request of c ends, and those of the others go on.
LEMMA EndShape ==
    ASSUME Typed, NEW c \in Clients, End(c)
    PROVE  /\ DOMAIN request' = Clients /\ DOMAIN calls' = Clients
           /\ \A d \in Clients \ {c} : request'[d] = request[d] /\ calls'[d] = calls[d]
           /\ request'[c] = "none" /\ calls'[c] = <<>>
BY DEF Typed, End

LEMMA ReadyWhenBusy ==
    ASSUME Typed, NEW c \in Clients, calls[c] # <<>>
    PROVE  boot = "ready" /\ request[c] # "none"
BY DEF Typed, Shape, Ends

\* The new requests have the shape of requests, if those of the others are as before.
LEMMA ShapesKept ==
    ASSUME Typed, backend' = backend, NEW c \in Clients, boot' = boot, boot = "ready",
           DOMAIN request' = Clients, DOMAIN calls' = Clients,
           \A d \in Clients \ {c} : request'[d] = request[d] /\ calls'[d] = calls[d],
           Shape(request'[c], calls'[c])
    PROVE  /\ \A d \in Clients : Shape(request[d], calls[d])'
           /\ boot' # "ready" => \A d \in Clients : request'[d] = "none"
<1> SUFFICES ASSUME NEW d \in Clients PROVE Shape(request[d], calls[d])'
  OBVIOUS
<1>1. CASE d = c
  BY <1>1 DEF Shape
<1>2. CASE d # c
  BY <1>2 DEF Typed, Shape
<1> QED
  BY <1>1, <1>2

\* The one that is to be made next, or both of them, given up on.
LEMMA LateTyped ==
    ASSUME Typed, NEW c \in Clients, calls[c] # <<>>,
           late' = late \cup Part(c), doubtful' = doubtful \cup AllWrites(Part(c))
    PROVE  /\ \A s \in late' : Sound(s) /\ Writes(s) \subseteq doubtful'
           /\ doubtful' \subseteq Keys
BY PartKeys DEF Typed

LEMMA RebootShape ==
    ASSUME Typed, Reboot, backend' = backend
    PROVE  /\ DOMAIN request' = Clients /\ DOMAIN calls' = Clients
           /\ \A c \in Clients : request'[c] = "none" /\ calls'[c] = <<>>
           /\ \A c \in Clients : Shape(request[c], calls[c])'
           /\ boot' \in {"columns", "count", "ready"}
           /\ backend = "file" => boot' = "ready"
BY DEF Typed, Reboot, Shape

\* ErrNotFound leaves the tables alone.
LEMMA MissingKept ==
    ASSUME Typed, NEW c \in Clients, calls[c] # <<>>, NotFound(c)
    PROVE  ~Whole(c) /\ ExecutePart(c, tables) = tables
<1> DEFINE s == calls[c][1]
<1>1. s.do \in {"touch", "setStatus"} /\ s.key \in Machines /\ tables.machines[s.key] = None
  BY PartIs DEF NotFound, Exists, Sound
<1>2. ~Whole(c)
  BY <1>1 DEF Whole, Typed, Shape, Ends, Begins, Deletes
<1> HIDE DEF s
<1>3. MachineRow(s, tables.machines[s.key]) = tables.machines[s.key]
  BY <1>1 DEF MachineRow
<1>4. tables.machines \in [Machines -> Rows] /\ tables \in Tables
  BY DEF Typed, Tables
<1> DEFINE new == [tables.machines EXCEPT ![s.key] = MachineRow(s, @)]
<1>5. new = tables.machines
  BY <1>1, <1>3, <1>4
<1>6. Execute(tables, s) = [tables EXCEPT !.machines = new]
  BY <1>1 DEF Execute
<1> HIDE DEF new
<1>7. Execute(tables, s) = tables
  BY <1>4, <1>5, <1>6 DEF Tables
<1> QED
  BY <1>2, <1>7 DEF ExecutePart, s

LEMMA NextTyped ==
    ASSUME Typed, [Next]_vars
    PROVE  Typed'
<1>1. ASSUME NEW c \in Clients, Arrive(c) PROVE Typed'
  <2>1. Arrive(c)
    BY <1>1
  <2>2. /\ \A d \in Clients : Shape(request[d], calls[d])'
        /\ boot' # "ready" => \A d \in Clients : request'[d] = "none"
    BY <2>1, ArriveShape, ShapesKept
  <2> QED
    BY <2>1, <2>2, ArriveShape DEF Typed, Sound, Writes
<1>2. ASSUME NEW c \in Clients, Perform(c) PROVE Typed'
  <2>0. Perform(c)
    BY <1>2
  <2>1. calls[c] # <<>> /\ Pass(c) /\ boot = "ready"
        /\ UNCHANGED <<backend, boot, late, doubtful, requests>>
    BY <2>0, ReadyWhenBusy DEF Perform
  <2>2. tables' \in Tables /\ promised' \in Tables
    BY <2>0, <2>1, PartTyped DEF Perform, Typed
  <2>3. disk' \in Tables /\ (backend' = "turso" => disk' = tables')
    <3>1. NotFound(c) => tables' = tables
      BY <2>0, <2>1, MissingKept DEF Perform
    <3> QED
      BY <2>0, <2>1, <2>2, <3>1 DEF Perform, Typed
  <2>4. Shape(request'[c], calls'[c])
    BY <2>1, PassShape, Lists DEF Shape, Whole, Deletes, Typed
  <2>5. /\ \A d \in Clients : Shape(request[d], calls[d])'
        /\ boot' # "ready" => \A d \in Clients : request'[d] = "none"
    BY <2>1, <2>4, PassShape, ShapesKept
  <2>6. deleted' \subseteq Machines
    BY <2>0 DEF Perform, Typed
  <2> QED
    BY <2>1, <2>2, <2>3, <2>5, <2>6, PassShape DEF Typed, Sound, Writes
<1>3. ASSUME NEW c \in Clients, Refuse(c) PROVE Typed'
  <2>0. Refuse(c)
    BY <1>3
  <2>1. /\ calls[c] # <<>> /\ End(c) /\ boot = "ready"
        /\ UNCHANGED <<backend, tables, disk, boot, late, promised, doubtful, deleted, requests>>
    BY <2>0, ReadyWhenBusy DEF Refuse, obsVars
  <2>2. /\ \A d \in Clients : Shape(request[d], calls[d])'
        /\ boot' # "ready" => \A d \in Clients : request'[d] = "none"
    BY <2>1, EndShape, ShapesKept DEF Shape
  <2> QED
    BY <2>1, <2>2, EndShape DEF Typed, Sound, Writes
<1>4. ASSUME NEW c \in Clients, FlushFails(c) PROVE Typed'
  <2>0. FlushFails(c)
    BY <1>4
  <2>1. /\ calls[c] # <<>> /\ End(c) /\ boot = "ready" /\ backend = "file"
        /\ UNCHANGED <<backend, disk, boot, late, promised, deleted, requests>>
    BY <2>0, ReadyWhenBusy DEF FlushFails
  <2>2. tables' \in Tables
    BY <2>0, <2>1, PartTyped DEF FlushFails, Typed
  <2>3. doubtful \subseteq doubtful' /\ doubtful' \subseteq Keys
    BY <2>0, <2>1, PartKeys DEF FlushFails, Typed
  <2>4. /\ \A d \in Clients : Shape(request[d], calls[d])'
        /\ boot' # "ready" => \A d \in Clients : request'[d] = "none"
    BY <2>1, EndShape, ShapesKept DEF Shape
  <2> QED
    BY <2>1, <2>2, <2>3, <2>4, EndShape DEF Typed, Sound, Writes
<1>5. ASSUME NEW c \in Clients, TimesOut(c) PROVE Typed'
  <2>0. TimesOut(c)
    BY <1>5
  <2>1. /\ calls[c] # <<>> /\ End(c) /\ boot = "ready" /\ backend = "turso"
        /\ UNCHANGED <<backend, tables, disk, boot, promised, deleted, requests>>
        /\ late' = late \cup Part(c) /\ doubtful' = doubtful \cup AllWrites(Part(c))
    BY <2>0, ReadyWhenBusy DEF TimesOut
  <2>2. /\ \A d \in Clients : Shape(request[d], calls[d])'
        /\ boot' # "ready" => \A d \in Clients : request'[d] = "none"
    BY <2>1, EndShape, ShapesKept DEF Shape
  <2>3. /\ \A s \in late' : Sound(s) /\ Writes(s) \subseteq doubtful'
        /\ doubtful' \subseteq Keys
    BY <2>1, LateTyped
  <2> QED
    BY <2>1, <2>2, <2>3, EndShape DEF Typed, Sound, Writes
<1>6. ASSUME NEW c \in Clients, DieWriting(c) PROVE Typed'
  <2>0. DieWriting(c)
    BY <1>6
  <2>1. /\ calls[c] # <<>> /\ Reboot
        /\ UNCHANGED <<backend, promised, deleted, requests>>
        /\ tables' = disk' /\ doubtful' = doubtful \cup AllWrites(Part(c))
        /\ IF backend = "file" THEN disk' = ExecutePart(c, tables) /\ late' = late
           ELSE disk' = disk /\ late' = late \cup Part(c)
    BY <2>0 DEF DieWriting
  <2>2. disk' \in Tables
    BY <2>1, PartTyped DEF Typed
  <2>3. \A s \in late' : Sound(s) /\ Writes(s) \subseteq doubtful'
    BY <2>1, LateTyped DEF Typed
  <2>4. doubtful' \subseteq Keys
    BY <2>1, PartKeys DEF Typed
  <2>5. backend' = "file" => late' = {}
    BY <2>1 DEF Typed
  <2>6. boot' # "ready" => \A d \in Clients : request'[d] = "none"
    BY <2>1, RebootShape
  <2> QED
    BY <2>1, <2>2, <2>3, <2>4, <2>5, <2>6, RebootShape DEF Typed, Sound, Writes
<1>7. ASSUME NEW s \in late, ExecuteLate(s) PROVE Typed'
  <2>1. Execute(tables, s) \in Tables
    BY <1>7, TablesAfter DEF Typed
  <2>2. /\ late' \subseteq late /\ (backend = "file" => late' = {})
        /\ tables' \in Tables /\ disk' = tables'
        /\ UNCHANGED <<backend, boot, request, calls, promised, doubtful, deleted, requests>>
    BY <1>7, <2>1 DEF ExecuteLate, serverVars, obsVars, Typed
  <2> QED
    BY <2>2 DEF Typed, Shape, Ends, Begins, Sound, Writes
<1>8. ASSUME Restart PROVE Typed'
  <2>1. /\ Reboot /\ tables' = disk
        /\ UNCHANGED <<backend, disk, late, promised, doubtful, deleted, requests>>
    BY <1>8 DEF Restart, obsVars
  <2> QED
    BY <2>1, RebootShape DEF Typed, Sound, Writes
<1>9. ASSUME AddColumns PROVE Typed'
  BY <1>9 DEF AddColumns, obsVars, Typed, Shape, Ends, Begins, Sound, Writes
<1>10. ASSUME CountUsed PROVE Typed'
  <2>1. PICK n \in Nat, k \in Nat :
            /\ tables' = [tables EXCEPT !.token.uses = n]
            /\ promised' = [promised EXCEPT !.token.uses = k]
    <3>1. \A t : [t EXCEPT !.token.uses = IF t.token.used /\ @ = 0 THEN 1 ELSE @]
                  = [t EXCEPT !.token.uses = Counted(t)]
      BY DEF Counted
    <3>2. Counted(tables) \in Nat /\ Counted(promised) \in Nat
      BY DEF Counted, Typed, Tables
    <3> QED
      BY <1>10, <3>1, <3>2 DEF CountUsed
  <2>2. tables' \in Tables /\ promised' \in Tables
    BY <2>1 DEF Typed, Tables
  <2>3. /\ disk' = tables' /\ boot = "count" /\ boot' = "ready"
        /\ UNCHANGED <<backend, request, calls, late, doubtful, deleted, requests>>
    BY <1>10 DEF CountUsed
  <2> QED
    BY <2>2, <2>3 DEF Typed, Shape, Ends, Begins, Sound, Writes
<1>11. ASSUME UNCHANGED vars PROVE Typed'
  BY <1>11 DEF vars, Typed, Shape, Ends, Begins, Sound, Writes
<1> QED
  BY <1>1, <1>2, <1>3, <1>4, <1>5, <1>6, <1>7, <1>8, <1>9, <1>10, <1>11 DEF Next

LEMMA TypedIsTypeOK == Typed => TypeOK
BY DEF Typed, TypeOK, Shape, Ends, Sound

\* The state stays typed: the tables hold rows, and what is left of a request is
\* what its handler has yet to do (the statements of the calls in store.go and
\* turso.go).
THEOREM TypeCorrect == Spec => []TypeOK
<1>1. Spec => []Typed
  BY InitTyped, NextTyped, PTL DEF Spec
<1> QED
  BY <1>1, TypedIsTypeOK, PTL

------------------------------------------------------------------------------
(* What was answered is kept                                                *)

LEMMA SameRowIsEquivalence ==
    ASSUME NEW k
    PROVE  /\ \A t : SameRow(t, t, k)
           /\ \A t, u : SameRow(t, u, k) => SameRow(u, t, k)
           /\ \A t, u, v : SameRow(t, u, k) /\ SameRow(u, v, k) => SameRow(t, v, k)
BY DEF SameRow

LEMMA InitAgreed == Init => Agreed
BY DEF Init, Agreed, SameRow

LEMMA NextAgreed ==
    ASSUME Typed, Agreed, [Next]_vars
    PROVE  Agreed'
<1> USE DEF Agreed
<1>0. tables \in Tables /\ disk \in Tables /\ promised \in Tables
  BY DEF Typed
<1>1. ASSUME UNCHANGED <<tables, disk, promised>>, doubtful \subseteq doubtful' PROVE Agreed'
  BY <1>1 DEF SameRow
<1>2. ASSUME NEW c \in Clients, Perform(c) PROVE Agreed'
  <2>0. Perform(c)
    BY <1>2
  <2>1. /\ calls[c] # <<>> /\ doubtful' = doubtful
        /\ tables' = ExecutePart(c, tables) /\ promised' = ExecutePart(c, promised)
        /\ disk' = IF NotFound(c) THEN disk ELSE tables'
    BY <2>0 DEF Perform
  <2> SUFFICES ASSUME NEW k \in Keys \ doubtful
               PROVE  SameRow(tables', promised', k) /\ SameRow(disk', promised', k)
    BY <2>1 DEF SameRow
  <2>2. SameRow(tables', promised', k)
    BY <1>0, <2>1, PartAlike
  <2>3. CASE NotFound(c)
    <3>1. tables' = tables /\ disk' = disk
      BY <2>1, <2>3, MissingKept
    <3>2. SameRow(disk, tables, k)
      BY SameRowIsEquivalence
    <3> QED
      BY <2>2, <3>1, <3>2, SameRowIsEquivalence
  <2> QED
    BY <2>1, <2>2, <2>3
<1>3. ASSUME NEW c \in Clients, FlushFails(c) PROVE Agreed'
  <2>1. /\ calls[c] # <<>> /\ doubtful' = doubtful \cup AllWrites(Part(c))
        /\ tables' = ExecutePart(c, tables) /\ UNCHANGED <<promised, disk>>
    BY <1>3 DEF FlushFails
  <2> SUFFICES ASSUME NEW k \in Keys \ doubtful'
               PROVE  SameRow(tables', promised, k)
    BY <2>1 DEF SameRow
  <2>2. SameRow(tables', tables, k)
    BY <1>0, <2>1, PartOthers
  <2> QED
    BY <2>1, <2>2, SameRowIsEquivalence
<1>4. ASSUME NEW c \in Clients, DieWriting(c) PROVE Agreed'
  <2>0. DieWriting(c)
    BY <1>4
  <2>1. /\ calls[c] # <<>> /\ doubtful' = doubtful \cup AllWrites(Part(c))
        /\ disk' = (IF backend = "file" THEN ExecutePart(c, tables) ELSE disk)
        /\ tables' = disk' /\ promised' = promised
    BY <2>0 DEF DieWriting
  <2> SUFFICES ASSUME NEW k \in Keys \ doubtful'
               PROVE  SameRow(disk', promised, k)
    BY <2>1 DEF SameRow
  <2>2. SameRow(ExecutePart(c, tables), tables, k)
    BY <1>0, <2>1, PartOthers
  <2> QED
    BY <2>1, <2>2, SameRowIsEquivalence
<1>5. ASSUME NEW s \in late, ExecuteLate(s) PROVE Agreed'
  <2>1. /\ tables' = Execute(tables, s) /\ disk' = tables' /\ Sound(s)
        /\ Writes(s) \subseteq doubtful /\ UNCHANGED <<promised, doubtful>>
    BY <1>5 DEF ExecuteLate, obsVars, Typed
  <2> SUFFICES ASSUME NEW k \in Keys \ doubtful
               PROVE  SameRow(tables', promised, k)
    BY <2>1 DEF SameRow
  <2>2. SameRow(tables', tables, k)
    BY <1>0, <2>1, WritesOthers
  <2> QED
    BY <2>2, SameRowIsEquivalence
<1>6. ASSUME Restart PROVE Agreed'
  BY <1>6 DEF Restart, obsVars, SameRow
<1>7. ASSUME CountUsed PROVE Agreed'
  <2>1. \A t \in Tables : [t EXCEPT !.token.uses = IF t.token.used /\ @ = 0 THEN 1 ELSE @]
            = [t EXCEPT !.token = [@ EXCEPT !.uses = Counted(t)]]
    BY DEF Counted
  <2>2. /\ tables' = [tables EXCEPT !.token = [@ EXCEPT !.uses = Counted(tables)]]
        /\ promised' = [promised EXCEPT !.token = [@ EXCEPT !.uses = Counted(promised)]]
        /\ disk' = tables' /\ doubtful' = doubtful
    BY <1>0, <1>7, <2>1 DEF CountUsed
  <2>3. tables.token = promised.token => Counted(tables) = Counted(promised)
    BY DEF Counted
  <2> QED
    BY <1>0, <2>2, <2>3 DEF SameRow, Tables
<1>8. \A c \in Clients : Arrive(c) \/ Refuse(c) \/ TimesOut(c) =>
          UNCHANGED <<tables, disk, promised>> /\ doubtful \subseteq doubtful'
  BY ArriveShape DEF Refuse, TimesOut, obsVars
<1>9. AddColumns \/ UNCHANGED vars =>
          UNCHANGED <<tables, disk, promised>> /\ doubtful \subseteq doubtful'
  BY DEF AddColumns, obsVars, vars
<1> QED
  BY <1>1, <1>2, <1>3, <1>4, <1>5, <1>6, <1>7, <1>8, <1>9 DEF Next

\* What a call was answered is still in the tables, after failures of other calls
\* and restarts (AnsweredIsKept): flush of store.go, the statements of turso.go.
THEOREM AnsweredRowsAreKept == Spec => []AnsweredIsKept
<1>1. Init => Typed /\ Agreed
  BY InitTyped, InitAgreed
<1>2. Typed /\ Agreed /\ [Next]_vars => (Typed /\ Agreed)'
  BY NextTyped, NextAgreed
<1>3. Agreed => AnsweredIsKept
  BY DEF Agreed, AnsweredIsKept
<1> QED
  BY <1>1, <1>2, <1>3, PTL DEF Spec

------------------------------------------------------------------------------
(* The uses of the token                                                    *)

\* The uses never fall and stay within the maximum.
CountsOn(t, u) ==
    /\ Counted(t) \in Nat /\ Counted(u) \in Nat
    /\ u.token.max = t.token.max
    /\ Counted(t) <= Counted(u) /\ Counted(u) <= u.token.max
    /\ u.token.used /\ u.token.uses = 0 => t.token.used /\ t.token.uses = 0

LEMMA CountAfter ==
    ASSUME NEW t \in Tables, NEW s, Sound(s), Counted(t) <= t.token.max
    PROVE  /\ CountsOn(t, Execute(t, s))
           /\ (/\ s.do = "consume" /\ Consumable(t)
               /\ backend = "file" \/ ~(t.token.used /\ t.token.uses = 0))
                => Counted(Execute(t, s)) = Counted(t) + 1
<1> DEFINE u == Execute(t, s)
<1>0. t.token \in [used : BOOLEAN, uses : Nat, max : Nat]
  BY DEF Tables
<1>1. Counted(t) \in Nat /\ Uses(t) \in Nat /\ (Uses(t) = Counted(t) \/ t.token.uses = 0)
  BY <1>0 DEF Counted, Uses
<1>2. CASE s.do # "consume" \/ ~Consumable(t)
  <2>1. u.token = t.token
    BY <1>2, TokenAfter DEF ConsumeToken
  <2> HIDE DEF u
  <2> QED
    BY <1>1, <1>2, <2>1 DEF CountsOn, Counted, u
<1>3. CASE s.do = "consume" /\ Consumable(t)
  <2>1. u.token = [t.token EXCEPT !.uses = Uses(t) + 1, !.used = Uses(t) + 1 >= t.token.max]
    BY <1>3, TokenAfter DEF ConsumeToken
  <2> HIDE DEF u
  <2>2. u.token.uses = Uses(t) + 1 /\ u.token.max = t.token.max
    BY <1>0, <2>1
  <2>3. Counted(u) = Uses(t) + 1
    BY <1>1, <2>2 DEF Counted
  <2>4. Uses(t) < t.token.max /\ t.token.max \in Nat
    BY <1>0, <1>3 DEF Consumable
  <2>5. Counted(t) <= Uses(t) + 1
    BY <1>0, <1>1 DEF Counted, Uses
  <2>6. backend = "file" \/ ~(t.token.used /\ t.token.uses = 0) => Uses(t) = Counted(t)
    BY DEF Uses, Counted
  <2> QED
    BY <1>1, <2>2, <2>3, <2>4, <2>5, <2>6 DEF CountsOn, u
<1> QED
  BY <1>2, <1>3

LEMMA CountAfterPart ==
    ASSUME Typed, NEW c \in Clients, calls[c] # <<>>, NEW t \in Tables,
           Counted(t) <= t.token.max
    PROVE  CountsOn(t, ExecutePart(c, t))
<1>1. CountsOn(t, Execute(t, calls[c][1])) /\ Execute(t, calls[c][1]) \in Tables
  BY PartIs, CountAfter, TablesAfter
<1>2. CASE Whole(c)
  <2>1. CountsOn(Execute(t, calls[c][1]), Execute(Execute(t, calls[c][1]), calls[c][2]))
    BY <1>1, <1>2, PartIs, CountAfter DEF CountsOn
  <2> QED
    BY <1>1, <1>2, <2>1 DEF CountsOn, ExecutePart
<1>3. CASE ~Whole(c)
  BY <1>1, <1>3 DEF ExecutePart
<1> QED
  BY <1>2, <1>3

LEMMA CountedIsNat ==
    ASSUME NEW t \in Tables
    PROVE  Counted(t) \in Nat /\ t.token.max \in Nat
BY DEF Counted, Tables

LEMMA InitGranted == Init => Granted
<1> SUFFICES ASSUME Init PROVE Granted
  OBVIOUS
<1>1. PICK token \in {NewToken} \cup OldTokens : tables.token = token
  BY DEF Init
<1>2. token.uses = 0 /\ token.used \in BOOLEAN /\ token.max \in Nat \ {0}
  BY <1>1, FirstTokens
<1>3. /\ disk = tables /\ granted = IF tables.token.used THEN 1 ELSE 0
      /\ boot = IF backend = "file" THEN "ready" ELSE "columns"
  BY DEF Init
<1> QED
  BY <1>1, <1>2, <1>3 DEF Granted, Counted

LEMMA NextGranted ==
    ASSUME Typed, Granted, [Next]_vars
    PROVE  Granted'
<1>0. /\ tables \in Tables /\ disk \in Tables
      /\ Counted(tables) \in Nat /\ Counted(disk) \in Nat
      /\ tables.token.max \in Nat /\ disk.token.max \in Nat
  BY CountedIsNat DEF Typed
<1>1. ASSUME UNCHANGED <<backend, tables, disk, boot, granted>> PROVE Granted'
  BY <1>1 DEF Granted, Counted
<1>2. ASSUME NEW c \in Clients, Perform(c) PROVE Granted'
  <2>0. Perform(c)
    BY <1>2
  <2>1. /\ calls[c] # <<>> /\ ~Refused(c) /\ boot = "ready"
        /\ tables' = ExecutePart(c, tables)
        /\ disk' = IF NotFound(c) THEN disk ELSE tables'
        /\ granted' = IF calls[c][1] = Consume THEN granted + 1 ELSE granted
        /\ UNCHANGED <<backend, boot>>
    BY <2>0, ReadyWhenBusy DEF Perform
  <2>2. CountsOn(tables, tables')
    BY <1>0, <2>1, CountAfterPart DEF Granted
  <2>3. Counted(tables') = Counted(tables)' /\ Counted(disk') = Counted(disk)'
    BY DEF Counted
  <2>4. CASE calls[c][1] = Consume
    <3>1. ~Whole(c) /\ calls[c][1].do = "consume" /\ Sound(calls[c][1]) /\ ~NotFound(c)
      BY <2>1, <2>4, PartIs
         DEF Consume, Whole, NotFound, Typed, Shape, Ends, Begins, Deletes
    <3>2. Consumable(tables)
      BY <2>1, <2>4 DEF Refused
    <3>3. backend = "file" \/ ~(tables.token.used /\ tables.token.uses = 0)
      BY <2>1 DEF Granted, Typed
    <3>4. Counted(tables') = Counted(tables) + 1
      BY <1>0, <2>1, <3>1, <3>2, <3>3, CountAfter DEF Granted, ExecutePart
    <3> QED
      BY <1>0, <2>1, <2>2, <2>3, <2>4, <3>1, <3>4 DEF Granted, CountsOn
  <2>5. CASE calls[c][1] # Consume /\ NotFound(c)
    <3>1. tables' = tables /\ disk' = disk /\ granted' = granted
      BY <2>1, <2>5, MissingKept
    <3> QED
      BY <1>1, <2>1, <3>1
  <2>6. CASE calls[c][1] # Consume /\ ~NotFound(c)
    BY <1>0, <2>1, <2>2, <2>3, <2>6 DEF Granted, CountsOn
  <2> QED
    BY <2>4, <2>5, <2>6
<1>3. ASSUME NEW c \in Clients, FlushFails(c) PROVE Granted'
  <2>1. /\ calls[c] # <<>> /\ backend = "file" /\ tables' = ExecutePart(c, tables)
        /\ UNCHANGED <<backend, disk, boot, granted>>
    BY <1>3 DEF FlushFails
  <2>2. CountsOn(tables, tables')
    BY <1>0, <2>1, CountAfterPart DEF Granted
  <2>3. Counted(tables') = Counted(tables)' /\ Counted(disk') = Counted(disk)'
    BY DEF Counted
  <2> QED
    BY <1>0, <2>1, <2>2, <2>3 DEF Granted, CountsOn
<1>4. ASSUME NEW c \in Clients, DieWriting(c) PROVE Granted'
  <2>0. DieWriting(c)
    BY <1>4
  <2>1. /\ calls[c] # <<>> /\ tables' = disk'
        /\ disk' = (IF backend = "file" THEN ExecutePart(c, tables) ELSE disk)
        /\ boot' = (IF backend = "file" THEN "ready" ELSE "columns")
        /\ UNCHANGED <<backend, granted>>
    BY <2>0 DEF DieWriting, Reboot
  <2>2. CountsOn(tables, ExecutePart(c, tables))
    BY <1>0, <2>1, CountAfterPart DEF Granted
  <2>3. Counted(tables') = Counted(tables)' /\ Counted(disk') = Counted(disk)'
    BY DEF Counted
  <2> QED
    BY <1>0, <2>1, <2>2, <2>3 DEF Granted, CountsOn
<1>5. ASSUME NEW s \in late, ExecuteLate(s) PROVE Granted'
  <2>1. /\ tables' = Execute(tables, s) /\ disk' = tables' /\ Sound(s)
        /\ UNCHANGED <<backend, boot, granted>>
    BY <1>5 DEF ExecuteLate, serverVars, obsVars, Typed
  <2>2. CountsOn(tables, tables')
    BY <1>0, <2>1, CountAfter DEF Granted
  <2>3. Counted(tables') = Counted(tables)' /\ Counted(disk') = Counted(disk)'
    BY DEF Counted
  <2> QED
    BY <1>0, <2>1, <2>2, <2>3 DEF Granted, CountsOn
<1>6. ASSUME Restart PROVE Granted'
  <2>1. /\ tables' = disk /\ UNCHANGED <<backend, disk, granted>>
        /\ boot' = IF backend = "file" THEN "ready" ELSE "columns"
    BY <1>6 DEF Restart, Reboot, obsVars
  <2>2. Counted(tables)' = Counted(disk) /\ Counted(disk)' = Counted(disk)
    BY <2>1 DEF Counted
  <2>3. backend = "turso" => boot' # "ready"
    BY <2>1
  <2> QED
    BY <1>0, <2>1, <2>2, <2>3 DEF Granted
<1>7. ASSUME CountUsed PROVE Granted'
  <2>1. \A t : [t EXCEPT !.token.uses = IF t.token.used /\ @ = 0 THEN 1 ELSE @]
            = [t EXCEPT !.token = [@ EXCEPT !.uses = Counted(t)]]
    BY DEF Counted
  <2>2. /\ tables' = [tables EXCEPT !.token = [@ EXCEPT !.uses = Counted(tables)]]
        /\ disk' = tables' /\ boot' = "ready" /\ UNCHANGED <<backend, granted>>
    BY <1>7, <2>1 DEF CountUsed
  <2>3. /\ tables'.token.used = tables.token.used /\ tables'.token.uses = Counted(tables)
        /\ tables'.token.max = tables.token.max
    BY <1>0, <2>2 DEF Tables
  <2>4. /\ Counted(tables)' = Counted(tables) /\ Counted(disk)' = Counted(tables)
        /\ ~(tables'.token.used /\ tables'.token.uses = 0)
    BY <2>2, <2>3 DEF Counted
  <2> QED
    BY <2>2, <2>3, <2>4 DEF Granted
<1>8. ASSUME AddColumns PROVE Granted'
  BY <1>8 DEF AddColumns, obsVars, Granted, Counted
<1>9. \A c \in Clients : Arrive(c) \/ Refuse(c) \/ TimesOut(c) =>
          UNCHANGED <<backend, tables, disk, boot, granted>>
  BY ArriveShape DEF Refuse, TimesOut, obsVars
<1>10. UNCHANGED vars => UNCHANGED <<backend, tables, disk, boot, granted>>
  BY DEF vars
<1> QED
  BY <1>1, <1>2, <1>3, <1>4, <1>5, <1>6, <1>7, <1>8, <1>9, <1>10 DEF Next

\* Enrollments are told of no more uses than the token has (GrantsWithinLimit):
\* ConsumeToken of store.go and turso.go, and migrate, which counts old tokens.
THEOREM NoTokenIsOverused == Spec => []GrantsWithinLimit
<1>1. Init => Typed /\ Granted
  BY InitTyped, InitGranted
<1>2. Typed /\ Granted /\ [Next]_vars => (Typed /\ Granted)'
  BY NextTyped, NextGranted
<1>3. Typed /\ Granted => GrantsWithinLimit
  <2>1. Typed => Counted(tables) \in Nat /\ tables.token.max \in Nat
    BY CountedIsNat DEF Typed
  <2> QED
    BY <2>1 DEF Granted, GrantsWithinLimit
<1> QED
  BY <1>1, <1>2, <1>3, PTL DEF Spec

------------------------------------------------------------------------------
(* What is deleted stays deleted, and no revision goes back                 *)

\* A row appears when it is saved, goes when it is dropped, and has another
\* desired state when it is saved.
LEMMA ExistsAfter ==
    ASSUME NEW t \in Tables, NEW s, Sound(s), NEW m \in Machines
    PROVE  LET old == t.machines[m]
               new == Execute(t, s).machines[m] IN
           /\ new # None => old # None \/ (s.do = "saveMachine" /\ s.key = m)
           /\ old # None => new # None \/ (s.do = "dropMachine" /\ s.key = m)
           /\ s.do = "dropMachine" /\ s.key = m => new = None
           /\ old # None /\ new # None => \/ new.desired = old.desired
                                          \/ s.do = "saveMachine" /\ s.key = m /\ new = s.row
<1> DEFINE old == t.machines[m]
           new == Execute(t, s).machines[m]
<1>1. old \in Rows
  BY DEF Tables
<1>2. new = IF s.do \in RowKinds /\ m = s.key THEN MachineRow(s, old) ELSE old
  BY MachinesAfter
<1>3. \A v \in Nat : v > 0 => /\ [old EXCEPT !.beat = v] # None
                            /\ [old EXCEPT !.status = v] # None
                            /\ [old EXCEPT !.beat = v].desired = old.desired
                            /\ [old EXCEPT !.status = v].desired = old.desired
  BY <1>1 DEF Rows, None
<1>4. s.do = "saveMachine" => s.row # None
  BY DEF Sound, None, Rows
<1>5. s.do \in {"touch", "setStatus"} => s.value \in Nat /\ s.value > 0
  BY DEF Sound
<1> HIDE DEF old, new
<1>6. CASE s.do \in RowKinds /\ m = s.key
  <2>1. CASE s.do = "saveMachine"
    BY <1>2, <1>4, <1>6, <2>1 DEF MachineRow, old, new
  <2>2. CASE s.do = "touch"
    BY <1>2, <1>3, <1>5, <1>6, <2>2 DEF MachineRow, old, new
  <2>3. CASE s.do = "setStatus"
    BY <1>2, <1>3, <1>5, <1>6, <2>3 DEF MachineRow, old, new
  <2>4. CASE s.do = "dropMachine"
    BY <1>2, <1>6, <2>4 DEF MachineRow, old, new
  <2> QED
    BY <1>6, <2>1, <2>2, <2>3, <2>4 DEF RowKinds
<1>7. CASE ~(s.do \in RowKinds /\ m = s.key)
  BY <1>2, <1>7 DEF RowKinds, old, new
<1> QED
  BY <1>6, <1>7

\* The two forms of what a busy client has left to do.
LEMMA Left ==
    ASSUME Typed, NEW c \in Clients, calls[c] # <<>>
    PROVE  /\ Sound(Final(c)) /\ Ends(request[c], Final(c))
           /\ \/ /\ calls[c] = <<Final(c)>> /\ calls[c][1] = Final(c) /\ ~Whole(c)
                 /\ Part(c) = {Final(c)} /\ \A t : ExecutePart(c, t) = Execute(t, Final(c))
              \/ /\ calls[c] = <<calls[c][1], Final(c)>> /\ ~Whole(c)
                 /\ Sound(calls[c][1]) /\ Begins(request[c], calls[c][1], Final(c))
                 /\ Part(c) = {calls[c][1]} /\ \A t : ExecutePart(c, t) = Execute(t, calls[c][1])
              \/ /\ calls[c] = <<calls[c][1], Final(c)>> /\ Whole(c)
                 /\ Sound(calls[c][1]) /\ Begins(request[c], calls[c][1], Final(c))
                 /\ Part(c) = {calls[c][1], Final(c)}
                 /\ \A t : ExecutePart(c, t) = Execute(Execute(t, calls[c][1]), Final(c))
<1>1. CASE calls[c] = <<calls[c][1]>> /\ Ends(request[c], calls[c][1])
           /\ (request[c] \in Deletes => backend = "turso")
  <2>1. Final(c) = calls[c][1]
    BY <1>1, Lists DEF Final
  <2>2. ~Whole(c)
    BY <1>1 DEF Whole, Deletes
  <2> QED
    BY <1>1, <2>1, <2>2 DEF Part, ExecutePart, Ends
<1>2. CASE calls[c] = <<calls[c][1], calls[c][2]>> /\ Ends(request[c], calls[c][2])
           /\ Begins(request[c], calls[c][1], calls[c][2])
  <2>1. Final(c) = calls[c][2]
    BY <1>2, Lists DEF Final
  <2> QED
    BY <1>2, <2>1 DEF Part, ExecutePart, Ends, Begins
<1> QED
  BY <1>1, <1>2 DEF Typed, Shape

LEMMA PartMachines ==
    ASSUME Typed, NEW c \in Clients, calls[c] # <<>>, NEW t \in Tables, NEW m \in Machines
    PROVE  LET old == t.machines[m]
               new == ExecutePart(c, t).machines[m]
               saved == /\ request[c] \in {"recompute", "enroll"} /\ Final(c) \in Part(c)
                        /\ Final(c).key = m IN
           /\ new # None => old # None \/ saved
           /\ old # None =>
                 new # None \/ (request[c] = "deleteMachine" /\ DropMachine(m) \in Part(c))
           /\ DropMachine(m) \in Part(c) =>
                 new = None /\ request[c] = "deleteMachine" /\ Final(c).key = m
           /\ old # None /\ new # None => \/ new.desired = old.desired
                                          \/ saved /\ new = Final(c).row
<1> DEFINE old == t.machines[m]
           new == ExecutePart(c, t).machines[m]
           saved == /\ request[c] \in {"recompute", "enroll"} /\ Final(c) \in Part(c)
                    /\ Final(c).key = m
<1>1. /\ Final(c).do = "saveMachine" => request[c] \in {"recompute", "enroll"}
      /\ Final(c).do = "dropMachine" => /\ request[c] = "deleteMachine"
                                        /\ Final(c) = DropMachine(Final(c).key)
  BY Left DEF Ends
<1>2. DropMachine(m).do = "dropMachine" /\ DropMachine(m).key = m
  BY DEF DropMachine
<1>3. CASE /\ calls[c][1] = Final(c) /\ Part(c) = {Final(c)}
           /\ \A u : ExecutePart(c, u) = Execute(u, Final(c))
  <2>1. new = Execute(t, Final(c)).machines[m] /\ Sound(Final(c))
    BY <1>3, Left
  <2> HIDE DEF new
  <2>2. /\ new # None => old # None \/ (Final(c).do = "saveMachine" /\ Final(c).key = m)
        /\ old # None => new # None \/ (Final(c).do = "dropMachine" /\ Final(c).key = m)
        /\ Final(c).do = "dropMachine" /\ Final(c).key = m => new = None
        /\ old # None /\ new # None =>
              \/ new.desired = old.desired
              \/ Final(c).do = "saveMachine" /\ Final(c).key = m /\ new = Final(c).row
    BY <2>1, ExistsAfter
  <2>3. Final(c) \in Part(c) /\ (DropMachine(m) \in Part(c) <=> DropMachine(m) = Final(c))
    BY <1>3
  <2> HIDE DEF old
  <2> QED
    BY <1>1, <1>2, <2>2, <2>3 DEF old, new
<1>4. CASE /\ Begins(request[c], calls[c][1], Final(c)) /\ Sound(calls[c][1])
           /\ Part(c) = {calls[c][1]} /\ \A u : ExecutePart(c, u) = Execute(u, calls[c][1])
  <2>1. new = Execute(t, calls[c][1]).machines[m]
    BY <1>4
  <2>2. calls[c][1].do \notin {"saveMachine", "dropMachine"}
    BY <1>4 DEF Begins
  <2> HIDE DEF new
  <2>3. (new # None <=> old # None) /\ (old # None /\ new # None => new.desired = old.desired)
    BY <1>4, <2>1, <2>2, ExistsAfter
  <2>4. DropMachine(m) \notin Part(c)
    BY <1>2, <1>4, <2>2
  <2> HIDE DEF old
  <2> QED
    BY <2>3, <2>4 DEF old, new
<1>5. CASE /\ Begins(request[c], calls[c][1], Final(c)) /\ Sound(calls[c][1])
           /\ Whole(c) /\ Part(c) = {calls[c][1], Final(c)}
           /\ \A u : ExecutePart(c, u) = Execute(Execute(u, calls[c][1]), Final(c))
  <2> DEFINE mid == Execute(t, calls[c][1])
  <2>1. new = Execute(mid, Final(c)).machines[m] /\ Sound(Final(c)) /\ mid \in Tables
    BY <1>5, Left, TablesAfter
  <2>2. calls[c][1].do \notin {"saveMachine", "dropMachine"}
    BY <1>5 DEF Begins
  <2> HIDE DEF new
  <2>3. /\ mid.machines[m] # None <=> old # None
        /\ old # None /\ mid.machines[m] # None => mid.machines[m].desired = old.desired
    BY <1>5, <2>2, ExistsAfter
  <2> HIDE DEF mid
  <2>4. Final(c).do # "saveMachine"
    BY <1>1, <1>5 DEF Whole
  <2>5. /\ new # None => mid.machines[m] # None
        /\ mid.machines[m] # None => new # None \/ (Final(c).do = "dropMachine" /\ Final(c).key = m)
        /\ Final(c).do = "dropMachine" /\ Final(c).key = m => new = None
        /\ mid.machines[m] # None /\ new # None => new.desired = mid.machines[m].desired
    BY <2>1, <2>4, ExistsAfter
  <2>6. Final(c) \in Part(c) /\ (DropMachine(m) \in Part(c) <=> DropMachine(m) = Final(c))
    BY <1>2, <1>5, <2>2
  <2> HIDE DEF old
  <2> QED
    BY <1>1, <1>2, <2>3, <2>5, <2>6 DEF old, new
<1> QED
  BY <1>3, <1>4, <1>5, Left

\* Whoever still has something to do is there for what he was there for.
Kept == \A d \in Clients : request'[d] # "none" =>
            request'[d] = request[d] /\ Final(d)' = Final(d)

LEMMA PassKeeps ==
    ASSUME Typed, NEW c \in Clients, calls[c] # <<>>, Pass(c)
    PROVE  Kept /\ (request'[c] # "none" => Final(c) \notin Part(c))
<1>1. \A d \in Clients \ {c} : request'[d] = request[d] /\ calls'[d] = calls[d]
  BY PassShape
<1>2. CASE request'[c] = "none"
  BY <1>1, <1>2 DEF Kept, Final
<1>3. CASE request'[c] # "none"
  <2>1. /\ request'[c] = request[c] /\ ~Whole(c)
        /\ calls[c] = <<calls[c][1], calls[c][2]>> /\ calls'[c] = <<calls[c][2]>>
        /\ Ends(request[c], calls[c][2]) /\ Begins(request[c], calls[c][1], calls[c][2])
    BY <1>3, PassShape
  <2>2. Final(c) = calls[c][2] /\ Final(c)' = calls[c][2]
    BY <2>1, Lists DEF Final
  <2>3. calls[c][1] # calls[c][2]
    BY <2>1 DEF Ends, Begins
  <2> QED
    BY <1>1, <2>1, <2>2, <2>3 DEF Kept, Final, Part
<1> QED
  BY <1>2, <1>3

LEMMA EndKeeps ==
    ASSUME Typed, NEW c \in Clients, End(c)
    PROVE  Kept /\ request'[c] = "none"
BY EndShape DEF Kept, Final

LEMMA RebootKeeps ==
    ASSUME Typed, Reboot, backend' = backend
    PROVE  Kept /\ \A d \in Clients : request'[d] = "none"
BY RebootShape DEF Kept

LEMMA BusyIsTyped ==
    ASSUME Typed, NEW c \in Clients, request[c] # "none"
    PROVE  /\ calls[c] # <<>> /\ Ends(request[c], Final(c))
           /\ request[c] \in {"recompute", "enroll", "deleteMachine"} => Final(c).key \in Machines
           /\ request[c] \in {"recompute", "enroll"} =>
                 Final(c).do = "saveMachine" /\ Final(c).row \in Rows
<1>1. calls[c] # <<>>
  BY DEF Typed, Shape
<1>2. Ends(request[c], Final(c))
  BY <1>1, Left
<1> QED
  BY <1>1, <1>2 DEF Ends, Sound

LEMMA GoneKept ==
    ASSUME Typed, Gone, ~staleSave, Kept,
           deleted \subseteq deleted', doubtful \subseteq doubtful',
           \A m \in deleted' : tables'.machines[m] = None /\ disk'.machines[m] = None,
           \A s \in late' : s.do # "saveMachine",
           \A d \in Clients : request'[d] \in {"recompute", "enroll"} =>
               Final(d).key \notin deleted' \ deleted,
           \A d \in Clients :
               request'[d] \in {"recompute", "deleteMachine"} /\ Exists(Final(d).key) =>
               \/ tables'.machines[Final(d).key] # None
               \/ Final(d).key \in deleted' \cup doubtful',
           \A d \in Clients : request'[d] = "enroll" /\ ~Exists(Final(d).key) =>
               tables'.machines[Final(d).key] = None
    PROVE  Gone'
<1>1. \A d \in Clients : request'[d] # "none" =>
          /\ request'[d] = request[d] /\ Final(d)' = Final(d)
          /\ Exists(Final(d).key)' <=> tables'.machines[Final(d).key] # None
  BY DEF Kept, Exists
<1>2. \A m \in deleted' : tables'.machines[m] = None /\ disk'.machines[m] = None
  OBVIOUS
<1>3. \A d \in Clients : request'[d] \in {"recompute", "enroll"} => Final(d)'.key \notin deleted'
  BY <1>1 DEF Gone
<1>4. \A d \in Clients : request'[d] \in {"recompute", "deleteMachine"} =>
          Exists(Final(d).key)' \/ Final(d)'.key \in deleted' \cup doubtful'
  BY <1>1 DEF Gone
<1>5. \A d \in Clients : request'[d] = "enroll" => ~Exists(Final(d).key)'
  BY <1>1 DEF Gone
<1>6. \A c, d \in Clients : c # d =>
          /\ request'[c] = "recompute" => request'[d] \notin {"recompute", "deleteMachine"}
          /\ request'[c] = "enroll" /\ request'[d] \in {"enroll", "recompute", "deleteMachine"} =>
                Final(c)'.key # Final(d)'.key
  BY <1>1 DEF Gone
<1> QED
  BY <1>2, <1>3, <1>4, <1>5, <1>6 DEF Gone

LEMMA GoneArrives ==
    ASSUME Typed, Gone, ~staleSave, NEW c \in Clients, Arrive(c), NEW k,
           request'[c] \in {"recompute", "enroll", "deleteMachine"} => Final(c)'.key = k,
           request'[c] \in {"recompute", "deleteMachine"} => Exists(k),
           request'[c] = "enroll" => ~Exists(k) /\ k \notin deleted \cup doubtful,
           \A d \in Clients \ {c} :
               /\ request'[c] = "recompute" => request[d] \notin {"recompute", "deleteMachine"}
               /\ request'[c] = "deleteMachine" => request[d] # "recompute"
               /\ request'[c] = "enroll" /\ request[d] = "enroll" => Final(d).key # k
    PROVE  Gone'
<1>1. /\ \A d \in Clients \ {c} : request'[d] = request[d] /\ Final(d)' = Final(d)
      /\ UNCHANGED <<tables, disk, late, deleted, doubtful>>
  BY ArriveShape DEF Final
<1>2. \A x : Exists(x)' <=> Exists(x)
  BY <1>1 DEF Exists
<1>3. \A m \in deleted : ~Exists(m)
  BY DEF Gone, Exists
<1>4. \A d \in Clients : request'[d] \in {"recompute", "enroll"} => Final(d)'.key \notin deleted'
  BY <1>1, <1>3 DEF Gone
<1>5. \A d \in Clients : request'[d] \in {"recompute", "deleteMachine"} =>
          Exists(Final(d).key)' \/ Final(d)'.key \in deleted' \cup doubtful'
  BY <1>1 DEF Gone, Exists
<1>6. \A d \in Clients : request'[d] = "enroll" => ~Exists(Final(d).key)'
  BY <1>1 DEF Gone, Exists
<1>7. \A d \in Clients \ {c} :
          /\ request'[c] = "enroll" /\ request[d] \in {"enroll", "recompute", "deleteMachine"} =>
                Final(d).key # k
          /\ request[d] = "enroll" /\ request'[c] \in {"recompute", "deleteMachine"} =>
                Final(d).key # k
  BY DEF Gone
<1>8. \A b, d \in Clients : b # d =>
          /\ request'[b] = "recompute" => request'[d] \notin {"recompute", "deleteMachine"}
          /\ request'[b] = "enroll" /\ request'[d] \in {"enroll", "recompute", "deleteMachine"} =>
                Final(b)'.key # Final(d)'.key
  <2> SUFFICES ASSUME NEW b \in Clients, NEW d \in Clients, b # d
               PROVE  <1>8!(b, d)!2
    OBVIOUS
  <2>1. CASE b # c /\ d # c
    BY <1>1, <2>1 DEF Gone
  <2>2. CASE b = c
    BY <1>1, <1>7, <2>2
  <2>3. CASE d = c
    BY <1>1, <1>7, <2>3
  <2> QED
    BY <2>1, <2>2, <2>3
<1> QED
  BY <1>1, <1>4, <1>5, <1>6, <1>8 DEF Gone

LEMMA ArriveGone ==
    ASSUME Typed, Gone, NEW c \in Clients, Arrive(c)
    PROVE  Gone'
<1> SUFFICES ASSUME ~staleSave' PROVE Gone'
  BY DEF Gone
<1>0. /\ DOMAIN request = Clients /\ DOMAIN calls = Clients
      /\ \A kind, cs : Start(c, kind, cs) => request'[c] = kind /\ calls'[c] = cs
  BY DEF Typed, Start
<1>1. ASSUME NEW m \in Machines, Recompute(c, m) PROVE Gone'
  <2>1. request'[c] = "recompute" /\ Exists(m)
        /\ staleSave' = (\/ staleSave
                         \/ Busy({"recompute", "deleteMachine"}) \/ Overdue({"dropMachine"}))
    BY <1>0, <1>1 DEF Recompute
  <2>2. Final(c)'.key = m
    BY <1>0, <1>1, Lists DEF Recompute, Final, SaveMachine
  <2>3. ~staleSave /\ \A d \in Clients : request[d] \notin {"recompute", "deleteMachine"}
    BY <2>1 DEF Busy
  <2> QED
    BY <2>1, <2>2, <2>3, GoneArrives
<1>2. ASSUME NEW m \in Machines, Enroll(c, m) PROVE Gone'
  <2>1. /\ request'[c] = "enroll" /\ ~Exists(m) /\ m \notin deleted \cup doubtful /\ ~staleSave
        /\ \A d \in Clients : \A i \in DOMAIN calls[d] : calls[d][i] # SaveMachine(m, NewRecord)
    BY <1>0, <1>2 DEF Enroll
  <2>2. Final(c)'.key = m
    BY <1>0, <1>2, Lists DEF Enroll, Final, SaveMachine
  <2>3. ASSUME NEW d \in Clients, request[d] = "enroll" PROVE Final(d).key # m
    <3>1. Final(d) = SaveMachine(Final(d).key, NewRecord)
      BY <2>3, BusyIsTyped DEF Ends
    <3>2. \/ calls[d] = <<Final(d)>> \/ calls[d] = <<calls[d][1], Final(d)>>
      BY <2>3, BusyIsTyped, Left
    <3>3. \E i \in DOMAIN calls[d] : calls[d][i] = Final(d)
      BY <3>2
    <3> QED
      BY <2>1, <3>1, <3>3
  <2> QED
    BY <2>1, <2>2, <2>3, GoneArrives
<1>3. ASSUME NEW m \in Machines, RemoveMachine(c, m) PROVE Gone'
  <2>1. request'[c] = "deleteMachine" /\ Exists(m)
        /\ staleSave' = (staleSave \/ Busy({"recompute"}))
    BY <1>0, <1>3 DEF RemoveMachine
  <2>2. Final(c)'.key = m
    BY <1>0, <1>3, Lists DEF RemoveMachine, DeleteMachine, Final, DropMachine
  <2>3. ~staleSave /\ \A d \in Clients : request[d] # "recompute"
    BY <2>1 DEF Busy
  <2> QED
    BY <2>1, <2>2, <2>3, GoneArrives
<1>4. ASSUME request'[c] \notin {"recompute", "enroll", "deleteMachine"}, ~staleSave PROVE Gone'
  BY <1>4, GoneArrives
<1>5. ASSUME NEW m \in Machines, Heartbeat(c, m) \/ Status(c, m) PROVE Gone'
  BY <1>0, <1>4, <1>5 DEF Heartbeat, Status
<1>6. ASSUME NEW g \in Groups, RemoveGroup(c, g) \/ UpdateGroup(c, g) PROVE Gone'
  BY <1>0, <1>4, <1>6 DEF RemoveGroup, UpdateGroup
<1>7. ASSUME NEW g \in Groups, NEW m \in Machines, Join(c, g, m) \/ Leave(c, g, m) PROVE Gone'
  BY <1>0, <1>4, <1>7 DEF Join, Leave
<1>8. ASSUME NEW a \in Artifacts, Upload(c, a) \/ Forget(c, a) PROVE Gone'
  BY <1>0, <1>4, <1>8 DEF Upload, Forget
<1> QED
  BY <1>1, <1>2, <1>3, <1>5, <1>6, <1>7, <1>8 DEF Arrive

LEMMA InitGone == Init => Gone /\ Newer
BY DEF Init, Gone, Newer

\* The statements of a part leave a machine out that nobody saves.
LEMMA PartGone ==
    ASSUME Typed, Gone, ~staleSave, NEW c \in Clients, calls[c] # <<>>, NEW t \in Tables,
           NEW m \in deleted, t.machines[m] = None
    PROVE  ExecutePart(c, t).machines[m] = None
<1>1. m \in Machines
  BY DEF Typed
<1>2. request[c] \in {"recompute", "enroll"} => Final(c).key # m
  BY DEF Gone
<1> QED
  BY <1>1, <1>2, PartMachines

LEMMA NextGone ==
    ASSUME Typed, Gone, [Next]_vars
    PROVE  Gone'
<1> SUFFICES ASSUME ~staleSave' PROVE Gone'
  BY DEF Gone
<1>0. tables \in Tables /\ disk \in Tables /\ deleted \subseteq Machines
  BY DEF Typed
<1>1. ASSUME ~staleSave
      PROVE  /\ \A m \in deleted : tables.machines[m] = None /\ disk.machines[m] = None
             /\ \A s \in late : s.do # "saveMachine"
  BY <1>1 DEF Gone
<1>2. ASSUME NEW c \in Clients, Arrive(c) PROVE Gone'
  BY <1>2, ArriveGone
<1>3. ASSUME NEW c \in Clients, Perform(c) PROVE Gone'
  <2>0. Perform(c)
    BY <1>3
  <2>1. /\ calls[c] # <<>> /\ tables' = ExecutePart(c, tables)
        /\ disk' = IF NotFound(c) THEN disk ELSE tables'
        /\ deleted' = deleted \cup {m \in Machines : DropMachine(m) \in Part(c)}
        /\ Pass(c) /\ late' = late /\ doubtful' = doubtful /\ ~staleSave
    BY <2>0 DEF Perform
  <2>2. \A m \in deleted' : tables'.machines[m] = None
    BY <1>0, <1>1, <2>1, PartGone, PartMachines
  <2>3. \A m \in deleted' : disk'.machines[m] = None
    <3>1. CASE NotFound(c)
      <4>1. disk' = disk /\ tables' = tables
        BY <2>1, <3>1, MissingKept
      <4>2. \A m \in Machines : DropMachine(m) \notin Part(c)
        <5>1. ~Whole(c) /\ calls[c][1].do # "dropMachine"
          BY <2>1, <3>1, MissingKept DEF NotFound
        <5> QED
          BY <5>1 DEF Part, DropMachine
      <4> QED
        BY <1>1, <2>1, <4>1, <4>2
    <3>2. CASE ~NotFound(c)
      BY <2>1, <2>2, <3>2
    <3> QED
      BY <3>1, <3>2
  <2>4. Kept /\ (request'[c] # "none" => Final(c) \notin Part(c))
    BY <2>1, PassKeeps
  <2>5. ASSUME NEW d \in Clients, request'[d] \in {"recompute", "enroll"}
        PROVE  Final(d).key \notin deleted' \ deleted
    <3>1. request[d] = request'[d]
      BY <2>4, <2>5 DEF Kept
    <3>2. ASSUME NEW m \in Machines, DropMachine(m) \in Part(c) PROVE m # Final(d).key
      <4>1. request[c] = "deleteMachine" /\ Final(c).key = m
        BY <1>0, <2>1, <3>2, PartMachines
      <4> QED
        BY <2>1, <2>5, <3>1, <4>1 DEF Gone
    <3> QED
      BY <2>1, <3>2
  <2>6. ASSUME NEW d \in Clients, request'[d] \in {"recompute", "deleteMachine"},
               Exists(Final(d).key)
        PROVE  \/ tables'.machines[Final(d).key] # None
               \/ Final(d).key \in deleted' \cup doubtful'
    <3>1. Final(d).key \in Machines
      BY <2>4, <2>6, BusyIsTyped DEF Kept
    <3> QED
      BY <1>0, <2>1, <2>6, <3>1, PartMachines DEF Exists
  <2>7. ASSUME NEW d \in Clients, request'[d] = "enroll", ~Exists(Final(d).key)
        PROVE  tables'.machines[Final(d).key] = None
    <3>1. Final(d).key \in Machines /\ request[d] = "enroll"
      BY <2>4, <2>7, BusyIsTyped DEF Kept
    <3>2. ~(/\ request[c] \in {"recompute", "enroll"} /\ Final(c) \in Part(c)
            /\ Final(c).key = Final(d).key)
      BY <2>1, <2>4, <2>7, <3>1 DEF Gone
    <3> QED
      BY <1>0, <2>1, <2>7, <3>1, <3>2, PartMachines DEF Exists
  <2> QED
    BY <1>1, <2>1, <2>2, <2>3, <2>4, <2>5, <2>6, <2>7, GoneKept
<1>4. ASSUME NEW c \in Clients, FlushFails(c) PROVE Gone'
  <2>0. FlushFails(c)
    BY <1>4
  <2>1. /\ calls[c] # <<>> /\ tables' = ExecutePart(c, tables) /\ End(c) /\ ~staleSave
        /\ doubtful' = doubtful \cup AllWrites(Part(c))
        /\ UNCHANGED <<disk, late, deleted>>
    BY <2>0 DEF FlushFails
  <2>2. \A m \in deleted' : tables'.machines[m] = None /\ disk'.machines[m] = None
    BY <1>0, <1>1, <2>1, PartGone
  <2>3. Kept /\ request'[c] = "none"
    BY <2>1, EndKeeps
  <2>4. ASSUME NEW d \in Clients, request'[d] \in {"recompute", "deleteMachine"},
               Exists(Final(d).key)
        PROVE  \/ tables'.machines[Final(d).key] # None
               \/ Final(d).key \in deleted' \cup doubtful'
    <3>1. Final(d).key \in Machines
      BY <2>3, <2>4, BusyIsTyped DEF Kept
    <3>2. \A m : DropMachine(m) \in Part(c) => m \in doubtful'
      BY <2>1, PartKeys DEF DropMachine, Writes
    <3> QED
      BY <1>0, <2>1, <2>4, <3>1, <3>2, PartMachines DEF Exists
  <2>5. ASSUME NEW d \in Clients, request'[d] = "enroll", ~Exists(Final(d).key)
        PROVE  tables'.machines[Final(d).key] = None
    <3>1. Final(d).key \in Machines /\ request[d] = "enroll"
      BY <2>3, <2>5, BusyIsTyped DEF Kept
    <3>2. ~(request[c] \in {"recompute", "enroll"} /\ Final(c).key = Final(d).key)
      BY <2>1, <2>3, <2>5, <3>1 DEF Gone
    <3> QED
      BY <1>0, <2>1, <2>5, <3>1, <3>2, PartMachines DEF Exists
  <2> QED
    BY <1>1, <2>1, <2>2, <2>3, <2>4, <2>5, GoneKept
<1>5. ASSUME NEW c \in Clients, TimesOut(c) PROVE Gone'
  <2>0. TimesOut(c)
    BY <1>5
  <2>1. /\ calls[c] # <<>> /\ End(c) /\ ~staleSave /\ calls[c][1].do # "saveMachine"
        /\ backend = "turso" /\ late' = late \cup Part(c)
        /\ doubtful' = doubtful \cup AllWrites(Part(c))
        /\ UNCHANGED <<tables, disk, deleted>>
    BY <2>0 DEF TimesOut
  <2>2. \A s \in late' : s.do # "saveMachine"
    BY <1>1, <2>1 DEF Part, Whole
  <2>3. Kept
    BY <2>1, EndKeeps
  <2> QED
    BY <1>1, <2>1, <2>2, <2>3, GoneKept DEF Exists
<1>6. ASSUME NEW c \in Clients, Refuse(c) PROVE Gone'
  <2>0. Refuse(c)
    BY <1>6
  <2>1. /\ End(c) /\ ~staleSave /\ UNCHANGED <<tables, disk, deleted, late, doubtful>>
    BY <2>0 DEF Refuse, obsVars
  <2>2. Kept
    BY <2>1, EndKeeps
  <2> QED
    BY <1>1, <2>1, <2>2, GoneKept DEF Exists
<1>7. ASSUME NEW c \in Clients, DieWriting(c) PROVE Gone'
  <2>0. DieWriting(c)
    BY <1>7
  <2>1. /\ calls[c] # <<>> /\ Reboot /\ backend' = backend /\ ~staleSave
        /\ doubtful' = doubtful \cup AllWrites(Part(c)) /\ deleted' = deleted
        /\ disk' = (IF backend = "file" THEN ExecutePart(c, tables) ELSE disk)
        /\ late' = (IF backend = "file" THEN late ELSE late \cup Part(c))
        /\ backend # "file" => calls[c][1].do # "saveMachine"
        /\ tables' = disk'
    BY <2>0 DEF DieWriting
  <2>2. \A m \in deleted' : tables'.machines[m] = None /\ disk'.machines[m] = None
    BY <1>0, <1>1, <2>1, PartGone
  <2>3. \A s \in late' : s.do # "saveMachine"
    BY <1>1, <2>1 DEF Part, Whole
  <2>4. Kept /\ \A d \in Clients : request'[d] = "none"
    BY <2>1, RebootKeeps
  <2> QED
    BY <2>1, <2>2, <2>3, <2>4, GoneKept
<1>8. ASSUME NEW s \in late, ExecuteLate(s) PROVE Gone'
  <2>1. /\ tables' = Execute(tables, s) /\ disk' = tables' /\ Sound(s)
        /\ Writes(s) \subseteq doubtful /\ s.do # "saveMachine" /\ late' \subseteq late
        /\ ~staleSave /\ UNCHANGED <<request, calls, deleted, doubtful>>
    BY <1>1, <1>8 DEF ExecuteLate, serverVars, obsVars, Typed
  <2>2. Kept
    BY <2>1 DEF Kept, Final
  <2>3. \A m \in Machines : tables.machines[m] = None => tables'.machines[m] = None
    BY <1>0, <2>1, ExistsAfter
  <2>4. \A m \in Machines : tables.machines[m] # None =>
            tables'.machines[m] # None \/ m \in doubtful
    BY <1>0, <2>1, ExistsAfter DEF Writes
  <2>5. \A d \in Clients : request'[d] \in {"recompute", "enroll", "deleteMachine"} =>
            Final(d).key \in Machines
    BY <2>1, BusyIsTyped
  <2> QED
    BY <1>0, <1>1, <2>1, <2>2, <2>3, <2>4, <2>5, GoneKept DEF Exists
<1>9. ASSUME Restart PROVE Gone'
  <2>1. /\ Reboot /\ backend' = backend /\ tables' = disk /\ ~staleSave
        /\ UNCHANGED <<disk, late, deleted, doubtful>>
    BY <1>9 DEF Restart, obsVars
  <2>2. Kept /\ \A d \in Clients : request'[d] = "none"
    BY <2>1, RebootKeeps
  <2> QED
    BY <1>1, <2>1, <2>2, GoneKept
<1>10. ASSUME CountUsed \/ AddColumns \/ UNCHANGED vars PROVE Gone'
  <2>1. /\ tables'.machines = tables.machines /\ disk'.machines \in {disk.machines, tables.machines}
        /\ ~staleSave /\ UNCHANGED <<request, calls, late, deleted, doubtful>>
    BY <1>0, <1>10 DEF CountUsed, AddColumns, vars, obsVars, Tables
  <2>2. Kept
    BY <2>1 DEF Kept, Final
  <2> QED
    BY <1>1, <2>1, <2>2, GoneKept DEF Exists
<1> QED
  BY <1>2, <1>3, <1>4, <1>5, <1>6, <1>7, <1>8, <1>9, <1>10 DEF Next

LEMMA NewerKept ==
    ASSUME Typed, Newer, ~staleSave, Kept,
           \A d \in Clients : request'[d] = "recompute" =>
               LET k == Final(d).key IN
               tables'.machines[k] # None =>
                   Exists(k) /\ tables'.machines[k].desired = tables.machines[k].desired
    PROVE  Newer'
<1>1. \A d \in Clients : request'[d] # "none" =>
          /\ request'[d] = request[d] /\ Final(d)' = Final(d)
          /\ Exists(Final(d).key)' <=> tables'.machines[Final(d).key] # None
  BY DEF Kept, Exists
<1> QED
  BY <1>1 DEF Newer

\* Of the others, nobody saves the machine of a recompute.
LEMMA NobodySaves ==
    ASSUME Typed, Gone, ~staleSave, NEW c \in Clients, calls[c] # <<>>, Kept,
           request'[c] # "none" => Final(c) \notin Part(c),
           NEW d \in Clients, request'[d] = "recompute",
           ExecutePart(c, tables).machines[Final(d).key] # None
    PROVE  LET k == Final(d).key IN
           Exists(k) /\ ExecutePart(c, tables).machines[k].desired = tables.machines[k].desired
<1>1. request[d] = "recompute" /\ Final(d).key \in Machines
  BY BusyIsTyped DEF Kept
<1>2. ~(/\ request[c] \in {"recompute", "enroll"} /\ Final(c) \in Part(c)
        /\ Final(c).key = Final(d).key)
  <2>1. CASE c = d
    BY <2>1
  <2>2. CASE c # d
    BY <1>1, <2>2 DEF Gone
  <2> QED
    BY <2>1, <2>2
<1> QED
  BY <1>1, <1>2, PartMachines DEF Exists, Typed

LEMMA ArriveNewer ==
    ASSUME Typed, Newer, ~staleSave, NEW c \in Clients, Arrive(c)
    PROVE  Newer'
<1>1. /\ \A d \in Clients \ {c} : request'[d] = request[d] /\ Final(d)' = Final(d)
      /\ UNCHANGED tables /\ DOMAIN request = Clients /\ DOMAIN calls = Clients
      /\ tables.machines \in [Machines -> Rows]
  BY ArriveShape DEF Final, Typed, Tables
<1>2. \A kind, cs : Start(c, kind, cs) => request'[c] = kind /\ calls'[c] = cs
  BY <1>1 DEF Start
<1>3. ASSUME request'[c] = "recompute", Exists(Final(c).key)'
      PROVE  Final(c)'.row.desired >= tables.machines[Final(c)'.key].desired
  <2>1. PICK m \in Machines : Recompute(c, m)
    <3>1. \A m \in Machines : ~Heartbeat(c, m) /\ ~Status(c, m)
      BY <1>2, <1>3 DEF Heartbeat, Status
    <3>2. \A m \in Machines : ~Enroll(c, m) /\ ~RemoveMachine(c, m)
      BY <1>2, <1>3 DEF Enroll, RemoveMachine
    <3>3. \A g \in Groups : ~RemoveGroup(c, g) /\ ~UpdateGroup(c, g)
      BY <1>2, <1>3 DEF RemoveGroup, UpdateGroup
    <3>4. \A g \in Groups, m \in Machines : ~Join(c, g, m) /\ ~Leave(c, g, m)
      BY <1>2, <1>3 DEF Join, Leave
    <3>5. \A a \in Artifacts : ~Upload(c, a) /\ ~Forget(c, a)
      BY <1>2, <1>3 DEF Upload, Forget
    <3> QED
      BY <3>1, <3>2, <3>3, <3>4, <3>5 DEF Arrive
  <2> DEFINE row == [tables.machines[m] EXCEPT !.desired = @ + 1]
  <2>2. calls'[c] = <<SaveMachine(m, row)>>
    BY <1>2, <2>1 DEF Recompute
  <2>3. tables.machines[m] \in Rows /\ row.desired = tables.machines[m].desired + 1
    BY <1>1 DEF Rows
  <2> HIDE DEF row
  <2>4. Final(c)' = SaveMachine(m, row)
    BY <2>2, Lists DEF Final
  <2>5. Final(c)'.key = m /\ Final(c)'.row = row
    BY <2>4 DEF SaveMachine
  <2>6. tables.machines[m].desired \in Nat
    BY <2>3 DEF Rows
  <2> QED
    BY <2>3, <2>5, <2>6
<1>4. \A k : Exists(k)' <=> Exists(k)
  BY <1>1 DEF Exists
<1>5. ASSUME NEW d \in Clients \ {c}, request'[d] = "recompute", Exists(Final(d).key)'
      PROVE  Final(d)'.row.desired >= tables.machines[Final(d)'.key].desired
  BY <1>1, <1>5 DEF Newer, Exists
<1> QED
  BY <1>1, <1>3, <1>5 DEF Newer

LEMMA NextNewer ==
    ASSUME Typed, Gone, Newer, [Next]_vars
    PROVE  Newer'
<1> SUFFICES ASSUME ~staleSave' PROVE Newer'
  BY DEF Newer
<1>0. ~staleSave => \A s \in late : s.do # "saveMachine"
  BY DEF Gone
<1>1. ASSUME NEW c \in Clients, Arrive(c) PROVE Newer'
  <2>1. ~staleSave
    BY <1>1 DEF Arrive, Recompute, Heartbeat, Status, Enroll, RemoveMachine, RemoveGroup,
                UpdateGroup, Join, Leave, Upload, Forget
  <2> QED
    BY <1>1, <2>1, ArriveNewer
<1>2. ASSUME NEW c \in Clients, Perform(c) PROVE Newer'
  <2>0. Perform(c)
    BY <1>2
  <2>1. calls[c] # <<>> /\ tables' = ExecutePart(c, tables) /\ Pass(c) /\ ~staleSave
    BY <2>0 DEF Perform
  <2>2. Kept /\ (request'[c] # "none" => Final(c) \notin Part(c))
    BY <2>1, PassKeeps
  <2> QED
    BY <2>1, <2>2, NobodySaves, NewerKept
<1>3. ASSUME NEW c \in Clients, FlushFails(c) PROVE Newer'
  <2>0. FlushFails(c)
    BY <1>3
  <2>1. calls[c] # <<>> /\ tables' = ExecutePart(c, tables) /\ End(c) /\ ~staleSave
    BY <2>0 DEF FlushFails
  <2>2. Kept /\ (request'[c] # "none" => Final(c) \notin Part(c))
    BY <2>1, EndKeeps
  <2> QED
    BY <2>1, <2>2, NobodySaves, NewerKept
<1>4. ASSUME NEW c \in Clients, TimesOut(c) \/ Refuse(c) PROVE Newer'
  <2>0. TimesOut(c) \/ Refuse(c)
    BY <1>4
  <2>1. End(c) /\ ~staleSave /\ tables' = tables
    <3>1. CASE TimesOut(c)
      BY <3>1 DEF TimesOut
    <3>2. CASE Refuse(c)
      BY <3>2 DEF Refuse, obsVars
    <3> QED
      BY <2>0, <3>1, <3>2
  <2>2. Kept
    BY <2>1, EndKeeps
  <2> QED
    BY <2>1, <2>2, NewerKept DEF Exists
<1>5. ASSUME NEW c \in Clients, DieWriting(c) PROVE Newer'
  <2>1. Reboot /\ backend' = backend
    BY <1>5 DEF DieWriting
  <2> QED
    BY <2>1, RebootKeeps DEF Newer
<1>6. ASSUME NEW s \in late, ExecuteLate(s) PROVE Newer'
  <2>1. /\ tables' = Execute(tables, s) /\ Sound(s) /\ ~staleSave /\ s.do # "saveMachine"
        /\ UNCHANGED <<request, calls>> /\ tables \in Tables
    BY <1>0, <1>6 DEF ExecuteLate, serverVars, obsVars, Typed
  <2>2. Kept
    BY <2>1 DEF Kept, Final
  <2>3. ASSUME NEW d \in Clients, request'[d] = "recompute", tables'.machines[Final(d).key] # None
        PROVE  /\ Exists(Final(d).key)
               /\ tables'.machines[Final(d).key].desired = tables.machines[Final(d).key].desired
    <3>1. Final(d).key \in Machines
      BY <2>1, <2>3, BusyIsTyped
    <3> QED
      BY <2>1, <2>3, <3>1, ExistsAfter DEF Exists
  <2> QED
    BY <2>1, <2>2, <2>3, NewerKept
<1>7. ASSUME Restart PROVE Newer'
  <2>1. Reboot /\ backend' = backend
    BY <1>7 DEF Restart
  <2> QED
    BY <2>1, RebootKeeps DEF Newer
<1>8. ASSUME CountUsed \/ AddColumns \/ UNCHANGED vars PROVE Newer'
  <2>1. tables'.machines = tables.machines /\ ~staleSave /\ UNCHANGED <<request, calls>>
    BY <1>8 DEF CountUsed, AddColumns, vars, obsVars, Typed, Tables
  <2>2. Kept
    BY <2>1 DEF Kept, Final
  <2> QED
    BY <2>1, <2>2, NewerKept DEF Exists
<1> QED
  BY <1>1, <1>2, <1>3, <1>4, <1>5, <1>6, <1>7, <1>8 DEF Next

\* The revision of a record does not go back in a step.
LEMMA Advances ==
    ASSUME Typed, Agreed, Gone, Newer, [Next]_vars, NEW m \in Machines,
           Exists(m), Exists(m)', ~staleSave', m \notin doubtful'
    PROVE  tables'.machines[m].desired >= tables.machines[m].desired
<1> DEFINE Holds == tables'.machines[m].desired >= tables.machines[m].desired
<1>0. /\ tables \in Tables /\ tables.machines[m].desired \in Nat /\ m \in Keys
      /\ tables.machines[m] # None /\ tables'.machines[m] # None
  BY DEF Typed, Tables, Rows, Keys, Exists
<1>1. ASSUME tables'.machines[m] = tables.machines[m] PROVE Holds
  BY <1>0, <1>1
<1>2. ASSUME NEW c \in Clients, calls[c] # <<>>, doubtful' = doubtful \cup AllWrites(Part(c))
      PROVE  ExecutePart(c, tables).machines[m] = tables.machines[m]
  BY <1>0, <1>2, PartOthers DEF SameRow
<1>3. ASSUME NEW c \in Clients, Arrive(c) \/ Refuse(c) \/ TimesOut(c) PROVE Holds
  <2>1. tables' = tables
    BY <1>3, ArriveShape DEF Refuse, TimesOut
  <2> QED
    BY <1>1, <2>1
<1>4. ASSUME NEW c \in Clients, Perform(c) PROVE Holds
  <2>0. Perform(c)
    BY <1>4
  <2>1. calls[c] # <<>> /\ tables' = ExecutePart(c, tables) /\ ~staleSave
    BY <2>0 DEF Perform
  <2>2. \/ tables'.machines[m].desired = tables.machines[m].desired
        \/ /\ request[c] \in {"recompute", "enroll"} /\ Final(c).key = m
           /\ tables'.machines[m] = Final(c).row
    BY <1>0, <2>1, PartMachines
  <2> QED
    BY <1>0, <2>1, <2>2 DEF Gone, Newer
<1>5. ASSUME NEW c \in Clients, FlushFails(c) PROVE Holds
  <2>1. calls[c] # <<>> /\ tables' = ExecutePart(c, tables)
        /\ doubtful' = doubtful \cup AllWrites(Part(c))
    BY <1>5 DEF FlushFails
  <2> QED
    BY <1>1, <1>2, <2>1
<1>6. ASSUME NEW c \in Clients, DieWriting(c) PROVE Holds
  <2>1. /\ calls[c] # <<>> /\ doubtful' = doubtful \cup AllWrites(Part(c))
        /\ tables' = (IF backend = "file" THEN ExecutePart(c, tables) ELSE disk)
    BY <1>6 DEF DieWriting
  <2>2. backend # "file" => disk = tables
    BY DEF Typed
  <2> QED
    BY <1>1, <1>2, <2>1, <2>2
<1>7. ASSUME NEW s \in late, ExecuteLate(s) PROVE Holds
  <2>1. /\ tables' = Execute(tables, s) /\ Sound(s) /\ s.do # "saveMachine"
    BY <1>7 DEF ExecuteLate, obsVars, Typed, Gone
  <2> QED
    BY <1>0, <2>1, ExistsAfter
<1>8. ASSUME Restart PROVE Holds
  <2>1. tables' = disk /\ doubtful' = doubtful
    BY <1>8 DEF Restart, obsVars
  <2>2. disk.machines[m] = tables.machines[m]
    BY <1>0, <2>1 DEF Agreed, SameRow
  <2> QED
    BY <1>1, <2>1, <2>2
<1>9. ASSUME CountUsed \/ AddColumns \/ UNCHANGED vars PROVE Holds
  <2>1. tables'.machines = tables.machines
    BY <1>9 DEF CountUsed, AddColumns, vars, Typed, Tables
  <2> QED
    BY <1>1, <2>1
<1> QED
  BY <1>3, <1>4, <1>5, <1>6, <1>7, <1>8, <1>9 DEF Next

\* A machine whose deletion was answered stays deleted, whatever heartbeats are
\* under way or late (DeletedStays): TouchHeartbeat and SetStatus of store.go and
\* turso.go, which write columns and never insert.
THEOREM DeletionsAreFinal == Spec => []DeletedStays
<1>1. Init => Typed /\ Gone
  BY InitTyped, InitGone
<1>2. Typed /\ Gone /\ [Next]_vars => (Typed /\ Gone)'
  BY NextTyped, NextGone
<1>3. Gone => DeletedStays
  BY DEF Gone, DeletedStays, Exists
<1> QED
  BY <1>1, <1>2, <1>3, PTL DEF Spec

\* The desired state of a record does not go back, unless recomputes race each
\* other or an unanswered save is undone (DesiredKept): "a heartbeat racing a
\* desired-state recompute cannot clobber it".
THEOREM RevisionsAscend == Spec => DesiredKept
<1> DEFINE I == Typed /\ Agreed /\ Gone /\ Newer
           A == \A m \in Machines :
                   Exists(m) /\ Exists(m)' /\ ~staleSave' /\ m \notin doubtful' =>
                       tables'.machines[m].desired >= tables.machines[m].desired
<1>1. Init => I
  BY InitTyped, InitAgreed, InitGone
<1>2. I /\ [Next]_vars => I'
  BY NextTyped, NextAgreed, NextGone, NextNewer
<1>3. I /\ [Next]_vars => [A]_vars
  BY Advances
<1> QED
  BY <1>1, <1>2, <1>3, PTL DEF Spec, DesiredKept

------------------------------------------------------------------------------
(* No membership is left dangling                                           *)

LEMMA SaneAfter ==
    ASSUME NEW t \in Tables, NEW s, Sound(s), Sane(t),
           s.do = "add" => s.key[1] \in t.groups /\ t.machines[s.key[2]] # None,
           s.do = "dropMachine" => \A p \in t.members : p[2] # s.key,
           s.do = "dropGroup" => \A p \in t.members : p[1] # s.key
    PROVE  Sane(Execute(t, s))
<1> DEFINE u == Execute(t, s)
<1>0. /\ t.members \subseteq Groups \X Machines
      /\ s.do = "add" => s.key \in Groups \X Machines
  BY DEF Tables, Sound
<1>1. \A p \in u.members : p \in t.members \/ (s.do = "add" /\ p = s.key)
  BY MembersAfter
<1>2. \A g \in t.groups : g \in u.groups \/ (s.do = "dropGroup" /\ g = s.key)
  BY GroupsAfter
<1>3. \A m \in Machines : t.machines[m] # None =>
          u.machines[m] # None \/ (s.do = "dropMachine" /\ m = s.key)
  BY ExistsAfter
<1> HIDE DEF u
<1> SUFFICES ASSUME NEW p \in u.members PROVE p[1] \in u.groups /\ u.machines[p[2]] # None
  BY DEF Sane, u
<1>4. CASE p \in t.members
  <2>1. p[2] \in Machines /\ p[1] \in t.groups /\ t.machines[p[2]] # None
    BY <1>0, <1>4 DEF Sane
  <2> QED
    BY <1>2, <1>3, <1>4, <2>1
<1>5. CASE s.do = "add" /\ p = s.key
  <2>1. p[2] \in Machines
    BY <1>0, <1>5
  <2> QED
    BY <1>2, <1>3, <1>5, <2>1
<1> QED
  BY <1>1, <1>4, <1>5

\* The last statement and the first of two, by what they do to memberships.
LEMMA Members ==
    ASSUME Typed, NEW c \in Clients, calls[c] # <<>>
    PROVE  /\ Final(c).do = "add" => request[c] = "add"
           /\ Final(c).do = "dropMachine" => request[c] = "deleteMachine"
           /\ Final(c).do = "dropGroup" => request[c] = "deleteGroup"
           /\ request[c] = "add" => Final(c).do = "add"
           /\ request[c] = "deleteMachine" => Final(c).do = "dropMachine"
           /\ request[c] = "deleteGroup" => Final(c).do = "dropGroup"
           /\ calls[c] = <<calls[c][1], Final(c)>> =>
                 /\ Len(calls[c]) # 1 /\ calls[c][1].do \in {"consume", "leaveGroups", "empty"}
                 /\ request[c] = "deleteMachine" =>
                       calls[c][1].do = "leaveGroups" /\ calls[c][1].key = Final(c).key
                 /\ request[c] = "deleteGroup" =>
                       calls[c][1].do = "empty" /\ calls[c][1].key = Final(c).key
           /\ calls[c] = <<Final(c)>> => Len(calls[c]) = 1
<1>1. Ends(request[c], Final(c))
  BY Left
<1>2. calls[c] = <<calls[c][1], Final(c)>> =>
          Begins(request[c], calls[c][1], Final(c)) /\ Len(calls[c]) = 2
  <2>1. calls[c] = <<Final(c)>> => Len(calls[c]) = 1
    BY Lists
  <2>2. calls[c] = <<calls[c][1], Final(c)>> => Len(calls[c]) = 2
    BY Lists
  <2> QED
    BY <2>1, <2>2, Left
<1>3. calls[c] = <<Final(c)>> => Len(calls[c]) = 1
  BY Lists
<1>4. /\ Final(c).do = "add" => request[c] = "add"
      /\ Final(c).do = "dropMachine" => request[c] = "deleteMachine"
      /\ Final(c).do = "dropGroup" => request[c] = "deleteGroup"
      /\ request[c] = "add" => Final(c).do = "add"
      /\ request[c] = "deleteMachine" => Final(c).do = "dropMachine"
      /\ request[c] = "deleteGroup" => Final(c).do = "dropGroup"
  BY <1>1 DEF Ends
<1>5. ASSUME Begins(request[c], calls[c][1], Final(c))
      PROVE  /\ calls[c][1].do \in {"consume", "leaveGroups", "empty"}
             /\ request[c] = "deleteMachine" =>
                   calls[c][1].do = "leaveGroups" /\ calls[c][1].key = Final(c).key
             /\ request[c] = "deleteGroup" =>
                   calls[c][1].do = "empty" /\ calls[c][1].key = Final(c).key
  BY <1>5 DEF Begins
<1> QED
  BY <1>2, <1>3, <1>4, <1>5

LEMMA PartSane ==
    ASSUME Typed, Attached, ~staleAdd, NEW c \in Clients, calls[c] # <<>>
    PROVE  LET t == ExecutePart(c, tables) IN
           /\ Sane(t)
           /\ request[c] # "add" => t.members \subseteq tables.members
           /\ request[c] \notin Deletes => /\ tables.groups \subseteq t.groups
                                           /\ \A m \in Machines : Exists(m) => t.machines[m] # None
           /\ Final(c) \notin Part(c) =>
                 /\ request[c] = "deleteMachine" => \A p \in t.members : p[2] # Final(c).key
                 /\ request[c] = "deleteGroup" => \A p \in t.members : p[1] # Final(c).key
<1> DEFINE t == ExecutePart(c, tables)
<1>0. tables \in Tables /\ Sound(Final(c)) /\ Sane(tables)
  BY Left DEF Typed, Attached
<1>1. CASE /\ calls[c] = <<Final(c)>> /\ Part(c) = {Final(c)}
           /\ \A u : ExecutePart(c, u) = Execute(u, Final(c))
  <2>1. t = Execute(tables, Final(c))
    BY <1>1
  <2> HIDE DEF t
  <2>2. /\ Final(c).do = "add" =>
              Final(c).key[1] \in tables.groups /\ tables.machines[Final(c).key[2]] # None
        /\ Final(c).do = "dropMachine" => \A p \in tables.members : p[2] # Final(c).key
        /\ Final(c).do = "dropGroup" => \A p \in tables.members : p[1] # Final(c).key
    BY <1>1, Members DEF Attached, Exists
  <2>3. Sane(t)
    BY <1>0, <2>1, <2>2, SaneAfter
  <2>4. request[c] # "add" => t.members \subseteq tables.members
    BY <1>0, <2>1, MembersAfter, Members
  <2>5. request[c] \notin Deletes => /\ tables.groups \subseteq t.groups
                                     /\ \A m \in Machines : Exists(m) => t.machines[m] # None
    BY <1>0, <2>1, GroupsAfter, ExistsAfter, Members DEF Deletes, Exists
  <2> QED
    BY <1>1, <2>3, <2>4, <2>5 DEF t
<1>2. CASE /\ calls[c] = <<calls[c][1], Final(c)>> /\ Sound(calls[c][1])
           /\ \A u : ExecutePart(c, u) = Execute(u, calls[c][1])
  <2>1. t = Execute(tables, calls[c][1])
    BY <1>2
  <2> HIDE DEF t
  <2>2. calls[c][1].do \in {"consume", "leaveGroups", "empty"}
    BY <1>2, Members
  <2>3. Sane(t)
    BY <1>0, <1>2, <2>1, <2>2, SaneAfter
  <2>4. t.members \subseteq tables.members
    BY <1>0, <1>2, <2>1, <2>2, MembersAfter
  <2>5. /\ tables.groups \subseteq t.groups
        /\ \A m \in Machines : Exists(m) => t.machines[m] # None
    BY <1>0, <1>2, <2>1, <2>2, GroupsAfter, ExistsAfter DEF Exists
  <2>6. /\ request[c] = "deleteMachine" => \A p \in t.members : p[2] # Final(c).key
        /\ request[c] = "deleteGroup" => \A p \in t.members : p[1] # Final(c).key
    BY <1>0, <1>2, <2>1, Members, MembersAfter
  <2> QED
    BY <2>3, <2>4, <2>5, <2>6 DEF t
<1>3. CASE /\ calls[c] = <<calls[c][1], Final(c)>> /\ Sound(calls[c][1])
           /\ Whole(c) /\ Part(c) = {calls[c][1], Final(c)}
           /\ \A u : ExecutePart(c, u) = Execute(Execute(u, calls[c][1]), Final(c))
  <2> DEFINE mid == Execute(tables, calls[c][1])
  <2>1. t = Execute(mid, Final(c)) /\ mid \in Tables
    BY <1>0, <1>3, TablesAfter
  <2>2. calls[c][1].do \in {"consume", "leaveGroups", "empty"} /\ request[c] \in Deletes
    BY <1>3, Members DEF Whole, Deletes
  <2>3. Sane(mid)
    BY <1>0, <1>3, <2>2, SaneAfter
  <2>4. mid.members \subseteq tables.members
    BY <1>0, <1>3, <2>2, MembersAfter
  <2>5. /\ request[c] = "deleteMachine" => \A p \in mid.members : p[2] # Final(c).key
        /\ request[c] = "deleteGroup" => \A p \in mid.members : p[1] # Final(c).key
    BY <1>0, <1>3, Members, MembersAfter
  <2> HIDE DEF mid, t
  <2>6. Final(c).do # "add"
    BY <2>2, Members DEF Deletes
  <2>7. Sane(t)
    BY <1>0, <2>1, <2>3, <2>5, <2>6, Members, SaneAfter
  <2>8. t.members \subseteq tables.members
    BY <1>0, <2>1, <2>4, <2>6, MembersAfter
  <2> QED
    BY <1>3, <2>2, <2>7, <2>8 DEF t, Deletes
<1> QED
  BY <1>1, <1>2, <1>3, Left

\* The two statements of a delete that are half done, or the second one late.
Emptied == \A c \in Clients : Len(calls[c]) = 1 =>
               /\ request[c] = "deleteMachine" => \A p \in tables.members : p[2] # Final(c).key
               /\ request[c] = "deleteGroup" => \A p \in tables.members : p[1] # Final(c).key

EmptiedLate == \A s \in late : \A p \in tables.members :
                   /\ s.do = "dropMachine" => p[2] # s.key
                   /\ s.do = "dropGroup" => p[1] # s.key

LEMMA AttachedKept ==
    ASSUME Typed, Attached, ~staleAdd, Kept, Sane(tables'), Sane(disk'), Emptied', EmptiedLate',
           \A s \in late' : s.do # "add",
           \A d \in Clients : request'[d] = "add" =>
               /\ \A s \in late' : s.do \notin {"dropMachine", "dropGroup"}
               /\ tables.groups \subseteq tables'.groups
               /\ \A m \in Machines : Exists(m) => tables'.machines[m] # None
    PROVE  Attached'
<1>1. \A d \in Clients : request'[d] # "none" => request'[d] = request[d] /\ Final(d)' = Final(d)
  BY DEF Kept
<1>2. Sane(tables)' /\ Sane(disk)'
  BY DEF Sane
<1>3. ASSUME NEW c \in Clients, request'[c] = "add"
      PROVE  /\ Final(c)'.key[1] \in tables'.groups /\ Exists(Final(c).key[2])'
             /\ ~Overdue({"dropMachine", "dropGroup"})'
             /\ \A d \in Clients : request'[d] \notin Deletes
  <2>1. request[c] = "add" /\ Final(c)' = Final(c)
    BY <1>1, <1>3
  <2>2. Final(c).key[1] \in tables.groups /\ Exists(Final(c).key[2])
    BY <2>1 DEF Attached
  <2>3. Final(c).key[2] \in Machines
    <3>1. calls[c] # <<>>
      BY <2>1, ReadyWhenBusy DEF Typed, Shape
    <3>2. Final(c).key \in Groups \X Machines
      BY <2>1, <3>1, Left, Members DEF Sound
    <3> QED
      BY <3>2
  <2>4. \A d \in Clients : request'[d] \notin Deletes
    BY <1>1, <2>1 DEF Attached, Deletes
  <2> QED
    BY <1>3, <2>1, <2>2, <2>3, <2>4 DEF Exists, Overdue
<1> QED
  BY <1>2, <1>3 DEF Attached, Emptied, EmptiedLate

LEMMA ArriveAttached ==
    ASSUME Typed, Attached, NEW c \in Clients, Arrive(c)
    PROVE  Attached'
<1> SUFFICES ASSUME ~staleAdd' PROVE Attached'
  BY DEF Attached
<1>0. /\ \A d \in Clients \ {c} : /\ request'[d] = request[d] /\ calls'[d] = calls[d]
                                  /\ Final(d)' = Final(d)
      /\ UNCHANGED <<tables, disk, late>> /\ DOMAIN request = Clients /\ DOMAIN calls = Clients
      /\ request[c] = "none"
  BY ArriveShape DEF Final, Typed
<1>1. \A kind, cs : Start(c, kind, cs) => request'[c] = kind /\ calls'[c] = cs
  BY <1>0 DEF Start
<1>2. /\ Sane(tables)' <=> Sane(tables)
      /\ Sane(disk)' <=> Sane(disk)
      /\ \A x : Exists(x)' <=> Exists(x)
      /\ \A kinds : Overdue(kinds)' <=> Overdue(kinds)
  BY <1>0 DEF Sane, Exists, Overdue
<1>3. ASSUME NEW g \in Groups, NEW m \in Machines, Join(c, g, m) PROVE Attached'
  <2>1. /\ request'[c] = "add" /\ calls'[c] = <<AddGroupMember(g, m)>>
        /\ g \in tables.groups /\ Exists(m) /\ ~staleAdd
        /\ \A d \in Clients : request[d] \notin Deletes
        /\ ~Overdue({"dropMachine", "dropGroup"})
    BY <1>1, <1>3 DEF Join, Busy, Deletes
  <2>2. Final(c)'.key[1] = g /\ Final(c)'.key[2] = m
    BY <2>1, Lists DEF Final, AddGroupMember
  <2>3. \A d \in Clients : request'[d] \notin Deletes
    BY <1>0, <2>1 DEF Deletes
  <2>4. Emptied'
    BY <2>3 DEF Emptied, Deletes
  <2>5. \A d \in Clients : request'[d] = "add" =>
            Final(d)'.key[1] \in tables'.groups /\ Exists(Final(d).key[2])'
    BY <1>0, <2>1, <2>2 DEF Attached, Exists
  <2> QED
    BY <1>0, <1>2, <2>1, <2>3, <2>4, <2>5 DEF Attached, Emptied
<1>4. ASSUME request'[c] # "add", ~staleAdd, Len(calls'[c]) # 1 \/ request'[c] \notin Deletes,
             request'[c] \in Deletes => \A d \in Clients : request[d] # "add"
      PROVE  Attached'
  <2>1. \A d \in Clients : request'[d] = "add" =>
            /\ request[d] = "add" /\ Final(d)' = Final(d)
            /\ \A b \in Clients : request'[b] \notin Deletes
    BY <1>0, <1>4 DEF Attached
  <2>2. Emptied'
    BY <1>0, <1>4 DEF Emptied, Attached, Deletes
  <2>3. \A d \in Clients : request'[d] = "add" =>
            Final(d)'.key[1] \in tables'.groups /\ Exists(Final(d).key[2])'
    BY <1>0, <1>4, <2>1 DEF Attached, Exists
  <2>4. \A d \in Clients : request'[d] = "add" => ~Overdue({"dropMachine", "dropGroup"})'
    BY <1>2, <1>4, <2>1 DEF Attached
  <2> QED
    BY <1>0, <1>2, <1>4, <2>1, <2>2, <2>3, <2>4 DEF Attached, Emptied
<1>5. ASSUME NEW m \in Machines, RemoveMachine(c, m) PROVE Attached'
  <2>1. /\ request'[c] = "deleteMachine" /\ calls'[c] = <<LeaveGroups(m), DropMachine(m)>>
        /\ ~staleAdd /\ \A d \in Clients : request[d] # "add"
    BY <1>1, <1>5 DEF RemoveMachine, DeleteMachine, Busy
  <2>2. Len(calls'[c]) = 2
    BY <2>1, Lists
  <2> QED
    BY <1>4, <2>1, <2>2
<1>6. ASSUME NEW g \in Groups, RemoveGroup(c, g) PROVE Attached'
  <2>1. /\ request'[c] = "deleteGroup" /\ calls'[c] = <<Empty(g), DropGroup(g)>>
        /\ ~staleAdd /\ \A d \in Clients : request[d] # "add"
    BY <1>1, <1>6 DEF RemoveGroup, DeleteGroup, Busy
  <2>2. Len(calls'[c]) = 2
    BY <2>1, Lists
  <2> QED
    BY <1>4, <2>1, <2>2
<1>7. ASSUME staleAdd' = staleAdd,
             request'[c] \in {"recompute", "heartbeat", "status", "enroll", "saveGroup",
                              "remove", "module"}
      PROVE  Attached'
  BY <1>4, <1>7 DEF Deletes
<1>8. ASSUME NEW m \in Machines, Recompute(c, m) \/ Heartbeat(c, m) \/ Status(c, m) \/ Enroll(c, m)
      PROVE Attached'
  <2>1. request'[c] \in {"recompute", "heartbeat", "status", "enroll"} /\ staleAdd' = staleAdd
    BY <1>1, <1>8 DEF Recompute, Heartbeat, Status, Enroll
  <2> QED
    BY <1>7, <2>1
<1>9. ASSUME NEW g \in Groups, UpdateGroup(c, g) PROVE Attached'
  BY <1>1, <1>7, <1>9 DEF UpdateGroup
<1>10. ASSUME NEW g \in Groups, NEW m \in Machines, Leave(c, g, m) PROVE Attached'
  BY <1>1, <1>7, <1>10 DEF Leave
<1>11. ASSUME NEW a \in Artifacts, Upload(c, a) \/ Forget(c, a) PROVE Attached'
  <2>1. request'[c] = "module" /\ staleAdd' = staleAdd
    BY <1>1, <1>11 DEF Upload, Forget
  <2> QED
    BY <1>7, <2>1
<1> QED
  BY <1>3, <1>5, <1>6, <1>8, <1>9, <1>10, <1>11 DEF Arrive

LEMMA InitAttached == Init => Attached
<1> SUFFICES ASSUME Init PROVE Attached
  OBVIOUS
<1>1. Sane(tables) /\ Sane(disk)
  <2>1. NewRecord # None
    BY DEF NewRecord, None
  <2>2. disk = tables /\ tables.groups = Groups
        /\ \A p \in tables.members : p \in Groups \X Founders
        /\ \A m \in Founders : tables.machines[m] = NewRecord
    BY Founding
  <2> QED
    BY <2>1, <2>2 DEF Sane
<1>2. /\ \A c \in Clients : request[c] = "none"
      /\ late = {}
  BY DEF Init
<1> QED
  BY <1>1, <1>2 DEF Attached, Overdue

\* Nobody's memberships are left behind by a part of what c does.
LEMMA PartEmptied ==
    ASSUME Typed, Attached, ~staleAdd, NEW c \in Clients, calls[c] # <<>>, Kept,
           tables' = ExecutePart(c, tables),
           \A d \in Clients \ {c} : request'[d] = request[d] /\ calls'[d] = calls[d],
           request'[c] # "none" => Final(c) \notin Part(c)
    PROVE  Emptied'
<1> SUFFICES ASSUME NEW d \in Clients, Len(calls'[d]) = 1, request'[d] \in Deletes
             PROVE  /\ request'[d] = "deleteMachine" =>
                          \A p \in tables'.members : p[2] # Final(d)'.key
                    /\ request'[d] = "deleteGroup" =>
                          \A p \in tables'.members : p[1] # Final(d)'.key
  BY DEF Emptied, Deletes
<1>1. request'[d] = request[d] /\ Final(d)' = Final(d)
  BY DEF Kept, Deletes
<1>2. CASE d = c
  BY <1>1, <1>2, PartSane DEF Deletes
<1>3. CASE d # c
  <2>1. request[c] # "add"
    BY <1>1 DEF Attached
  <2>2. tables'.members \subseteq tables.members
    BY <2>1, PartSane
  <2> QED
    BY <1>1, <1>3, <2>2 DEF Attached
<1> QED
  BY <1>2, <1>3

LEMMA PartEmptiedLate ==
    ASSUME Typed, Attached, ~staleAdd, NEW c \in Clients, calls[c] # <<>>,
           tables' = ExecutePart(c, tables), late' = late
    PROVE  EmptiedLate'
<1>1. CASE request[c] = "add"
  BY <1>1 DEF Attached, Overdue, EmptiedLate
<1>2. CASE request[c] # "add"
  <2>1. tables'.members \subseteq tables.members
    BY <1>2, PartSane
  <2> QED
    BY <2>1 DEF Attached, EmptiedLate
<1> QED
  BY <1>1, <1>2

\* No delete is under way or late next to an add.
LEMMA NobodyDrops ==
    ASSUME Typed, Attached, ~staleAdd, NEW c \in Clients, calls[c] # <<>>, Kept,
           tables' = ExecutePart(c, tables), late' = late
    PROVE  \A d \in Clients : request'[d] = "add" =>
               /\ \A s \in late' : s.do \notin {"dropMachine", "dropGroup"}
               /\ tables.groups \subseteq tables'.groups
               /\ \A m \in Machines : Exists(m) => tables'.machines[m] # None
<1> SUFFICES ASSUME NEW d \in Clients, request'[d] = "add"
             PROVE  /\ \A s \in late' : s.do \notin {"dropMachine", "dropGroup"}
                    /\ tables.groups \subseteq tables'.groups
                    /\ \A m \in Machines : Exists(m) => tables'.machines[m] # None
  OBVIOUS
<1>1. request[d] = "add"
  BY DEF Kept
<1>2. request[c] \notin Deletes /\ ~Overdue({"dropMachine", "dropGroup"})
  BY <1>1 DEF Attached
<1> QED
  BY <1>2, PartSane DEF Overdue

\* A statement that is given up on leaves nothing to a second half.
LEMMA LateEmptied ==
    ASSUME Typed, Attached, ~staleAdd, NEW c \in Clients, calls[c] # <<>>, backend = "turso",
           calls[c][1].do # "add", tables' = tables, late' = late \cup Part(c)
    PROVE  /\ EmptiedLate'
           /\ \A s \in late' : s.do # "add"
           /\ \A d \in Clients : request[d] = "add" =>
                 \A s \in late' : s.do \notin {"dropMachine", "dropGroup"}
<1>1. Part(c) = {calls[c][1]}
  BY DEF Part, Whole
<1>2. calls[c][1].do = "dropMachine" =>
          /\ request[c] \in Deletes
          /\ \A p \in tables.members : p[2] # calls[c][1].key
  <2>1. calls[c][1].do = "dropMachine" => calls[c] = <<Final(c)>> /\ calls[c][1] = Final(c)
    BY Left, Members
  <2> QED
    BY <2>1, Members DEF Attached, Deletes
<1>3. calls[c][1].do = "dropGroup" =>
          /\ request[c] \in Deletes
          /\ \A p \in tables.members : p[1] # calls[c][1].key
  <2>1. calls[c][1].do = "dropGroup" => calls[c] = <<Final(c)>> /\ calls[c][1] = Final(c)
    BY Left, Members
  <2> QED
    BY <2>1, Members DEF Attached, Deletes
<1>4. EmptiedLate'
  BY <1>1, <1>2, <1>3 DEF Attached, EmptiedLate
<1>5. \A s \in late' : s.do # "add"
  BY <1>1 DEF Attached
<1>6. \A d \in Clients : request[d] = "add" =>
          \A s \in late' : s.do \notin {"dropMachine", "dropGroup"}
  BY <1>1, <1>2, <1>3 DEF Attached, Overdue
<1> QED
  BY <1>4, <1>5, <1>6

LEMMA NextAttached ==
    ASSUME Typed, Attached, [Next]_vars
    PROVE  Attached'
<1> SUFFICES ASSUME ~staleAdd' PROVE Attached'
  BY DEF Attached
<1>0. tables \in Tables /\ disk \in Tables
  BY DEF Typed
<1>1. ASSUME ~staleAdd
      PROVE  /\ Sane(tables) /\ Sane(disk) /\ Emptied /\ EmptiedLate
             /\ \A s \in late : s.do # "add"
             /\ \A d \in Clients : request[d] = "add" =>
                   \A s \in late : s.do \notin {"dropMachine", "dropGroup"}
  BY <1>1 DEF Attached, Emptied, EmptiedLate, Overdue
<1>2. ASSUME NEW c \in Clients, Arrive(c) PROVE Attached'
  BY <1>2, ArriveAttached
<1>3. ASSUME NEW c \in Clients, Perform(c) PROVE Attached'
  <2>0. Perform(c)
    BY <1>3
  <2>1. /\ calls[c] # <<>> /\ tables' = ExecutePart(c, tables) /\ disk' \in {disk, tables'}
        /\ Pass(c) /\ late' = late /\ ~staleAdd
    BY <2>0 DEF Perform
  <2>2. Sane(tables') /\ Sane(disk')
    BY <1>1, <2>1, PartSane
  <2>3. Kept /\ (request'[c] # "none" => Final(c) \notin Part(c))
    BY <2>1, PassKeeps
  <2>4. Emptied' /\ EmptiedLate'
    BY <2>1, <2>3, PassShape, PartEmptied, PartEmptiedLate
  <2> QED
    BY <1>1, <2>1, <2>2, <2>3, <2>4, NobodyDrops, AttachedKept
<1>4. ASSUME NEW c \in Clients, FlushFails(c) PROVE Attached'
  <2>0. FlushFails(c)
    BY <1>4
  <2>1. /\ calls[c] # <<>> /\ tables' = ExecutePart(c, tables) /\ disk' = disk
        /\ End(c) /\ late' = late /\ ~staleAdd
    BY <2>0 DEF FlushFails
  <2>2. Sane(tables') /\ Sane(disk')
    BY <1>1, <2>1, PartSane
  <2>3. Kept /\ (request'[c] # "none" => Final(c) \notin Part(c))
    BY <2>1, EndKeeps
  <2>4. Emptied' /\ EmptiedLate'
    BY <2>1, <2>3, EndShape, PartEmptied, PartEmptiedLate
  <2> QED
    BY <1>1, <2>1, <2>2, <2>3, <2>4, NobodyDrops, AttachedKept
<1>5. ASSUME NEW c \in Clients, End(c), ~staleAdd, UNCHANGED <<tables, disk>>,
             EmptiedLate', \A s \in late' : s.do # "add",
             \A d \in Clients : request[d] = "add" =>
                 \A s \in late' : s.do \notin {"dropMachine", "dropGroup"}
      PROVE  Attached'
  <2>1. Kept /\ \A d \in Clients : \/ request'[d] = "none"
                                   \/ request'[d] = request[d] /\ calls'[d] = calls[d]
    BY <1>5, EndKeeps, EndShape
  <2>2. Emptied'
    BY <1>1, <1>5, <2>1 DEF Emptied, Final
  <2> QED
    BY <1>1, <1>5, <2>1, <2>2, AttachedKept DEF Exists
<1>6. ASSUME NEW c \in Clients, TimesOut(c) PROVE Attached'
  <2>0. TimesOut(c)
    BY <1>6
  <2>1. /\ calls[c] # <<>> /\ backend = "turso" /\ End(c) /\ late' = late \cup Part(c)
        /\ ~staleAdd /\ calls[c][1].do # "add" /\ UNCHANGED <<tables, disk>>
    BY <2>0 DEF TimesOut
  <2> QED
    BY <1>5, <2>1, LateEmptied
<1>7. ASSUME NEW c \in Clients, Refuse(c) PROVE Attached'
  <2>0. Refuse(c)
    BY <1>7
  <2>1. End(c) /\ ~staleAdd /\ UNCHANGED <<tables, disk, late>>
    BY <2>0 DEF Refuse, obsVars
  <2>2. EmptiedLate'
    BY <1>1, <2>1 DEF EmptiedLate
  <2> QED
    BY <1>1, <1>5, <2>1, <2>2
<1>8. ASSUME Reboot, backend' = backend, ~staleAdd, Sane(tables'), tables' = disk',
             EmptiedLate', \A s \in late' : s.do # "add"
      PROVE  Attached'
  <2>1. Kept /\ \A d \in Clients : request'[d] = "none"
    BY <1>8, RebootKeeps
  <2>2. Emptied'
    BY <2>1 DEF Emptied
  <2> QED
    BY <1>8, <2>1, <2>2, AttachedKept
<1>9. ASSUME NEW c \in Clients, DieWriting(c) PROVE Attached'
  <2>0. DieWriting(c)
    BY <1>9
  <2>1. /\ calls[c] # <<>> /\ Reboot /\ backend' = backend /\ ~staleAdd /\ tables' = disk'
        /\ disk' = (IF backend = "file" THEN ExecutePart(c, tables) ELSE disk)
        /\ late' = (IF backend = "file" THEN late ELSE late \cup Part(c))
        /\ backend # "file" => calls[c][1].do # "add"
    BY <2>0 DEF DieWriting
  <2>2. Sane(tables')
    BY <1>1, <2>1, PartSane
  <2>3. CASE backend = "file"
    <3>1. EmptiedLate' /\ \A s \in late' : s.do # "add"
      BY <1>1, <2>1, <2>3, PartEmptiedLate
    <3> QED
      BY <1>8, <2>1, <2>2, <3>1
  <2>4. CASE backend # "file"
    <3>1. backend = "turso" /\ tables' = tables
      BY <2>1, <2>4 DEF Typed
    <3>2. EmptiedLate' /\ \A s \in late' : s.do # "add"
      BY <2>1, <2>4, <3>1, LateEmptied
    <3> QED
      BY <1>8, <2>1, <2>2, <3>2
  <2> QED
    BY <2>3, <2>4
<1>10. ASSUME Restart PROVE Attached'
  <2>1. /\ Reboot /\ backend' = backend /\ ~staleAdd /\ tables' = disk /\ disk' = disk
        /\ late' = late
    BY <1>10 DEF Restart, obsVars
  <2>2. EmptiedLate'
    <3>1. late = {} \/ disk = tables
      BY DEF Typed
    <3> QED
      BY <1>1, <2>1, <3>1 DEF EmptiedLate
  <2> QED
    BY <1>1, <1>8, <2>1, <2>2
<1>11. ASSUME NEW s \in late, ExecuteLate(s) PROVE Attached'
  <2>1. /\ tables' = Execute(tables, s) /\ disk' = tables' /\ Sound(s) /\ late' \subseteq late
        /\ ~staleAdd /\ UNCHANGED <<request, calls>>
    BY <1>11 DEF ExecuteLate, serverVars, obsVars, Typed
  <2>2. Kept
    BY <2>1 DEF Kept, Final
  <2>3. /\ s.do # "add"
        /\ s.do = "dropMachine" => \A p \in tables.members : p[2] # s.key
        /\ s.do = "dropGroup" => \A p \in tables.members : p[1] # s.key
    BY <1>1, <2>1 DEF EmptiedLate
  <2>4. Sane(tables') /\ Sane(disk')
    BY <1>0, <1>1, <2>1, <2>3, SaneAfter
  <2>5. tables'.members \subseteq tables.members
    BY <1>0, <2>1, <2>3, MembersAfter
  <2>6. Emptied' /\ EmptiedLate'
    BY <1>1, <2>1, <2>5 DEF Emptied, EmptiedLate, Final
  <2>7. ASSUME NEW d \in Clients, request'[d] = "add"
        PROVE  /\ tables.groups \subseteq tables'.groups
               /\ \A m \in Machines : Exists(m) => tables'.machines[m] # None
    <3>1. s.do \notin {"dropMachine", "dropGroup"}
      BY <1>1, <2>1, <2>7
    <3> QED
      BY <1>0, <2>1, <3>1, GroupsAfter, ExistsAfter DEF Exists
  <2> QED
    BY <1>1, <2>1, <2>2, <2>4, <2>6, <2>7, AttachedKept
<1>12. ASSUME CountUsed \/ AddColumns \/ UNCHANGED vars PROVE Attached'
  <2>1. /\ tables'.machines = tables.machines /\ tables'.groups = tables.groups
        /\ tables'.members = tables.members /\ (disk' = disk \/ disk' = tables')
        /\ ~staleAdd /\ UNCHANGED <<request, calls, late>>
    BY <1>0, <1>12 DEF CountUsed, AddColumns, vars, obsVars, Tables
  <2>2. Kept
    BY <2>1 DEF Kept, Final
  <2>3. Sane(tables') /\ Sane(disk') /\ Emptied' /\ EmptiedLate'
    BY <1>1, <2>1 DEF Sane, Emptied, EmptiedLate, Final
  <2> QED
    BY <1>1, <2>1, <2>2, <2>3, AttachedKept DEF Exists
<1> QED
  BY <1>2, <1>3, <1>4, <1>6, <1>7, <1>9, <1>10, <1>11, <1>12 DEF Next

\* No membership is left of a machine or a group that does not exist (NoDangling):
\* DeleteMachine and DeleteGroup of store.go and turso.go, the latter in two
\* statements, either of which may fail.
THEOREM NoMemberIsLeftBehind == Spec => []NoDangling
<1>1. Init => Typed /\ Attached
  BY InitTyped, InitAttached
<1>2. Typed /\ Attached /\ [Next]_vars => (Typed /\ Attached)'
  BY NextTyped, NextAttached
<1>3. Attached => NoDangling
  BY DEF Attached, NoDangling, Sane, Exists
<1> QED
  BY <1>1, <1>2, <1>3, PTL DEF Spec

==============================================================================
