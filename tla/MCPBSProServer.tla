--------------------------- MODULE MCPBSProServer ---------------------------
(* PBSProServer on small instances. *)
EXTENDS PBSProServer

\* The first library lacks a symbol, the second has all.
MCLibraries == <<Symbol \ {"other"}, Symbol>>

MCText == {"up", "down", "free", "4"}
MCNumber == [v \in {"4"} |-> 4]

Given(res, v) == [name |-> "resources_available", resource |-> res, value |-> v]
Taken(res, v) == [name |-> "resources_assigned", resource |-> res, value |-> v]

\* A host that tells nothing, one that is up with all its CPUs in use, one that
\* tells no number, and one that tells things twice.
MCAttributes ==
  {<<>>,
   <<Taken("ncpus", "4"), Given("power_status", "up")>>,
   <<Given("ncpus", "free"), Given("power_status", "free")>>,
   <<Given("power_status", "down"), Given("ncpus", "4"), Given("power_status", "up")>>}

MCHosts == [node : Name, attribs : MCAttributes]
MCAnswers == {<<h>> : h \in MCHosts} \cup (MCHosts \X MCHosts)
=============================================================================
