---------------------------- MODULE MCConsolidation ----------------------------
EXTENDS Consolidation, TLC
MCArchiveOf == [e \in Evidence |-> IF e = "e1" THEN "a1" ELSE "a2"]
\* Users, subjects and evidence are strings so that nodes of both modules compare.
MCNode(user, version) ==
  [user |-> user, status |-> "active", version |-> version, subject |-> "tom", link |-> NoLink,
   evidence |-> {"e1"}, latest |-> 0, created |-> 0, importance |-> BaseImportance,
   consolidated |-> Null]
MCInitial == [m \in Ids |-> CASE m = 1 -> MCNode("u1", 1) [] m = 2 -> MCNode("u1", 1)
                              [] OTHER -> NoNode]
MCRecency == [h \in {1, 2} |-> [d \in 0..MaxTime |-> IF h = 1 THEN 100 \div (2 ^ d)
                                                       ELSE IF d = 0 THEN 100 ELSE IF d = 1 THEN 71 ELSE 50]]
MCEvidenceScore == [n \in 0..Cardinality(Evidence) |-> IF n = 1 THEN 29 ELSE 46]
=============================================================================
