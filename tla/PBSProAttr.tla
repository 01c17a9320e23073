----------------------------- MODULE PBSProAttr -----------------------------
(***************************************************************************)
(* The batch system's answer to pbs_stathost, a list of hosts each with a  *)
(* list of attributes, and the readers that look values up in it.  A host  *)
(* is known by its name up to the first dot.                               *)
(***************************************************************************)
EXTENDS Integers, Sequences

CONSTANTS
  Name,    \* short host names
  Text,    \* the values of attributes
  Number,  \* what IsInt and ToInt make of them: from the numerals to numbers
  Answers  \* what pbs_stathost may return, except NULL

Attribute ==
  [name : {"resources_available", "resources_assigned"},
   resource : {"ncpus", "ngpus", "power_status"},
   value : Text]

BatchStatus == [node : Name, attribs : Seq(Attribute)]

ASSUME AnswerAssumption ==
  /\ Number \in [DOMAIN Number -> Int]
  /\ Answers \subseteq Seq(BatchStatus) \ {<<>>}

Is(a, name, res) == a.name = name /\ a.resource = res

\* Where the attribute is first found, if at all.
FindAttr(list, name, res) ==
  {i \in DOMAIN list : Is(list[i], name, res)
                         /\ \A j \in 1 .. i - 1 : ~Is(list[j], name, res)}

\* A value that is missing or no number leaves the one before.
IntAttribute(list, res, value) ==
  LET found == {i \in FindAttr(list, "resources_available", res) :
                  list[i].value \in DOMAIN Number}
  IN  IF found = {} THEN value ELSE Number[list[CHOOSE i \in found : TRUE].value]

TextAttribute(list, res, value) ==
  LET found == FindAttr(list, "resources_available", res)
  IN  IF found = {} THEN value ELSE list[CHOOSE i \in found : TRUE].value

-----------------------------------------------------------------------------
(* What the server keeps of a host *)

PowerStat == {"down", "up", "maintenance", "unknown"}

Entry == [power : PowerStat, ncpus : Int, ngpus : Int]

\* The constructor leaves NCPUs as it finds the memory.
NewEntry(garbage) == [power |-> "unknown", ncpus |-> garbage, ngpus |-> 0]

\* Mutant: any text is taken for a status.
Power_Raw(text) == text
Power(text) == IF text \in {"up", "down", "maintenance"} THEN text ELSE "unknown"

\* Mutant: the counts are not reset before they are read.
UpdateEntry_NoReset(e, host) ==
  [power |-> Power(TextAttribute(host.attribs, "power_status", "maintenance")),
   ncpus |-> IntAttribute(host.attribs, "ncpus", e.ncpus),
   ngpus |-> IntAttribute(host.attribs, "ngpus", e.ngpus)]

UpdateEntry(e, host) ==
  LET reset == [e EXCEPT !.ncpus = 0, !.ngpus = 0]
  IN  [power |-> Power(TextAttribute(host.attribs, "power_status", "maintenance")),
       ncpus |-> IntAttribute(host.attribs, "ncpus", reset.ncpus),
       ngpus |-> IntAttribute(host.attribs, "ngpus", reset.ngpus)]
=============================================================================
