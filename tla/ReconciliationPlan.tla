-------------------------- MODULE ReconciliationPlan --------------------------
(***************************************************************************)
(* From the decisions the reconciliation LLM made on the candidates of one *)
(* archive to the plan the graph transaction executes: which memories are  *)
(* updated, which are created, and which memory each piece of evidence     *)
(* supports.                                                               *)
(*                                                                         *)
(* A decision is [action, target, text]; decisions are a function whose    *)
(* domain is the candidates decided on.  A plan names a new memory by the  *)
(* group it is created for; the transaction gives it an id.                *)
(***************************************************************************)
EXTENDS Integers, FiniteSets, FiniteSetsExt

CONSTANTS
  SourceTime,  \* candidate_source_time of each candidate
  Claim,       \* what the aligned memory key adds to the subject: object, value, event
  Texts        \* texts the LLM may merge a candidate and a memory into

NoTarget == -1
NoText == "null"

Replacing == {"SUPERSEDE", "CONFLICT"}

Skip == [action |-> "SKIP", target |-> NoTarget, text |-> NoText]
New == [action |-> "CREATE", target |-> NoTarget, text |-> NoText]

\* Outputs that _validate_llm_output accepts, given the ids of the recalled memories:
\* only actions on an existing memory name one, and it was recalled.  Only a merge
\* looks at the text.
ValidDecisions(recalled) ==
  {Skip, New} \cup
  [action : {"MERGE"}, target : recalled, text : Texts \cup {NoText}] \cup
  [action : Replacing, target : recalled, text : {NoText}]

-----------------------------------------------------------------------------
(* build_reconciliation_plan *)

Aggregating(d) == { c \in DOMAIN d : d[c].action # "SKIP" }

Targets(d) == { d[c].target : c \in Aggregating(d) } \ {NoTarget}

ExistingGroup(d, t) == { c \in Aggregating(d) : d[c].target = t }

Actions(d, t) == { d[c].action : c \in ExistingGroup(d, t) }

MergedTexts(d, t) == { d[c].text : c \in ExistingGroup(d, t) } \ {NoText}

\* reconciliation_plan_conflict: the candidates do not agree on what to do with t.
Disputed(d, t) ==
  \/ Cardinality(Actions(d, t)) # 1
  \/ Actions(d, t) \subseteq Replacing /\ Cardinality(ExistingGroup(d, t)) > 1
  \/ Actions(d, t) = {"MERGE"} /\ Cardinality(MergedTexts(d, t)) > 1

PlanConflict(d) == \E t \in Targets(d) : Disputed(d, t)

LatestOf(group) == Max({ SourceTime[c] : c \in group })

\* existing_memory_update_plans
Updates(d) ==
  { [target |-> t, action |-> CHOOSE a \in Actions(d, t) : TRUE,
     from |-> ExistingGroup(d, t), latest |-> LatestOf(ExistingGroup(d, t))] :
    t \in Targets(d) }

\* Candidates that create the same memory: equal aligned memory keys.
CreateGroups(d, subject) ==
  LET creating == { c \in Aggregating(d) : d[c].action = "CREATE" }
      Same(c, e) == subject[c] = subject[e] /\ Claim[c] = Claim[e]
  IN { { e \in creating : Same(c, e) } : c \in creating }

\* new_memory_create_plans: one for each aligned key, and one for each memory that is
\* superseded or disputed.
Creates(d, subject) ==
  { [kind |-> "none", old |-> NoTarget, from |-> g, latest |-> LatestOf(g)] :
    g \in CreateGroups(d, subject) }
  \cup
  { [kind |-> IF u.action = "SUPERSEDE" THEN "supersedes" ELSE "conflicts",
     old |-> u.target, from |-> u.from, latest |-> u.latest] :
    u \in { v \in Updates(d) : v.action \in Replacing } }

\* PlannedExistingMemoryUpdate, PlannedMemoryCreate
UpdatePlan ==
  [target : Nat, action : Replacing \cup {"MERGE"}, from : SUBSET DOMAIN SourceTime, latest : Nat]

CreatePlan ==
  [kind : {"none", "supersedes", "conflicts"}, old : Int, from : SUBSET DOMAIN SourceTime,
   latest : Nat]

Plan(d, subject) == [updates |-> Updates(d), creates |-> Creates(d, subject)]

EmptyPlan == [updates |-> {}, creates |-> {}]

\* _collect_planned_evidence_ids
PlannedEvidence(plan) ==
  (UNION { p.from : p \in plan.updates }) \cup (UNION { p.from : p \in plan.creates })

\* _build_evidence_rows: an evidence id that a created memory has taken is not given to
\* an updated one.
EvidenceForUpdate(plan, u) == u.from \ (UNION { p.from : p \in plan.creates })

=============================================================================
