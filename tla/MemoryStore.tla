------------------------------ MODULE MemoryStore ------------------------------
(***************************************************************************)
(* The Memory nodes of the graph, and what every writer of a node promises *)
(* to everyone who reads one: the abstract specification that the graph    *)
(* transactions (MemoryGraph) implement and the consolidation job          *)
(* (Consolidation) relies on.                                              *)
(*                                                                         *)
(* A node's content, confidence and type are not kept apart: a transaction *)
(* that changes one of them increments memory_version.  An Evidence node   *)
(* is the candidate it was extracted from; an evidence set stands for the  *)
(* SUPPORTS relations of its memory.                                       *)
(***************************************************************************)
EXTENDS Integers, FiniteSets, FiniteSetsExt

CONSTANTS
  Ids,         \* memory ids, in their order
  Users,
  Evidence,    \* evidence ids
  ArchiveOf,   \* archive_id of an Evidence node
  SubjectIds,  \* entity ids a SUBJECT relation may lead to
  BaseImportance,  \* importance of a new memory (IMPORTANCE_BY_TYPE, in hundredths)
  MaxTime      \* bound: time ends here

ASSUME StoreAssumption ==
  /\ Ids \subseteq Nat /\ IsFiniteSet(Ids)
  /\ IsFiniteSet(Evidence)
  /\ MaxTime \in Nat
  /\ BaseImportance \in Nat

VARIABLES
  memory,      \* Memory nodes
  now          \* server time

-----------------------------------------------------------------------------

Live == {"active", "conflicted"}
Status == Live \cup {"superseded"}

\* created_time and last_consolidated_time of a node that has none.
Null == -1

NoLink == [kind |-> "none", old |-> Null]

\* The relation a node was created with to the node it replaces or disputes.
Link == [kind : {"none", "supersedes", "conflicts"}, old : Ids \cup {Null}]

Node ==
  [user : Users, status : Status, version : Nat, subject : SubjectIds, link : Link,
   evidence : SUBSET Evidence, latest : 0..MaxTime, created : 0..MaxTime,
   importance : Int, consolidated : {Null} \cup (0..MaxTime)]

NoNode == [status |-> "absent"]

Exists(m) == memory[m] # NoNode

Memories == { m \in Ids : Exists(m) }

Archives(node) == { ArchiveOf[e] : e \in node.evidence }

\* What importance is computed from (independent_archive_count and the properties
\* that memory_row_from_record reads).
Inputs(node) ==
  [status |-> node.status, latest |-> node.latest, created |-> node.created,
   archives |-> Cardinality(Archives(node))]

StoreTypeOK ==
  /\ memory \in [Ids -> Node \cup {NoNode}]
  /\ now \in 0..MaxTime

-----------------------------------------------------------------------------
(* What a step may do to a node.  Nodes are never removed. *)

Created(node) ==
  /\ node.version = 1
  /\ node.status \in Live
  /\ node.evidence # {}
  /\ node.consolidated = Null

\* A graph transaction that changes a node changes its version too; it neither takes
\* evidence away nor brings back a superseded memory, and leaves importance alone.
Rewritten(old, new) ==
  /\ new.version = old.version + 1
  /\ old.evidence \subseteq new.evidence
  /\ old.status = "superseded" => new.status = "superseded"
  /\ new = [old EXCEPT !.version = new.version, !.status = new.status,
                       !.evidence = new.evidence, !.latest = new.latest]

\* Consolidation changes nothing but these two, and its time does not go back.
Scored(old, new) ==
  /\ new = [old EXCEPT !.importance = new.importance, !.consolidated = new.consolidated]
  /\ old.consolidated <= new.consolidated

GraphStep(old, new) ==
  \/ new = old
  \/ old = NoNode /\ new # NoNode /\ Created(new)
  \/ old # NoNode /\ new # NoNode /\ Rewritten(old, new)

NodeStep(old, new) ==
  \/ GraphStep(old, new)
  \/ old # NoNode /\ new # NoNode /\ Scored(old, new)

StoreInit == \A m \in Memories : Created(memory[m])

\* Every step of the system, seen at the Memory nodes.
StoreStep == \A m \in Ids : NodeStep(memory[m], memory'[m])

StoreSpec == StoreInit /\ [][StoreStep]_memory
=============================================================================
