----------------------------- MODULE PowerTable -----------------------------
(***************************************************************************)
(* What the batch system's watcher promises of the table: now and then it  *)
(* takes over one whole answer, at once.  Every registered node that the   *)
(* answer names shows what the last of its hosts tells, every other node   *)
(* stays as it is.                                                         *)
(***************************************************************************)
EXTENDS PBSProAttr

CONSTANT Garbage  \* what memory may hold

VARIABLE table    \* from the registered names to their entries

\* The value a host tells of a resource of its own: the first, if any.
Told(host, res) ==
  {v \in Text :
     \E i \in DOMAIN host.attribs :
       /\ host.attribs[i] = [name |-> "resources_available", resource |-> res, value |-> v]
       /\ \A j \in 1 .. i - 1 : ~Is(host.attribs[j], "resources_available", res)}

Count(told) == IF told \subseteq DOMAIN Number /\ told # {} THEN Number[CHOOSE v \in told : TRUE] ELSE 0

\* A host that does not tell its status is in maintenance.
Reading(host) ==
  LET told == Told(host, "power_status")
  IN  [power |-> IF told = {} THEN "maintenance"
                 ELSE IF told \subseteq PowerStat THEN CHOOSE v \in told : TRUE ELSE "unknown",
       ncpus |-> Count(Told(host, "ncpus")),
       ngpus |-> Count(Told(host, "ngpus"))]

Hosts(answer, n) == {i \in DOMAIN answer : answer[i].node = n}

IsLast(answer, n, i) == i \in Hosts(answer, n) /\ \A j \in Hosts(answer, n) : j <= i

After(answer, tab) ==
  [n \in DOMAIN tab |->
     IF Hosts(answer, n) = {} THEN tab[n]
     ELSE Reading(answer[CHOOSE i \in DOMAIN answer : IsLast(answer, n, i)])]

With(tab, n, e) == [m \in DOMAIN tab \cup {n} |-> IF m = n THEN e ELSE tab[m]]

Init == table = [n \in {} |-> NewEntry(0)]

TakeOver(answer) == table' = After(answer, table)

Register(n, garbage) ==
  /\ n \notin DOMAIN table
  /\ table' = With(table, n, NewEntry(garbage))

Next ==
  \/ \E answer \in Answers : TakeOver(answer)
  \/ \E n \in Name, garbage \in Garbage : Register(n, garbage)

Spec == Init /\ [][Next]_table
=============================================================================
