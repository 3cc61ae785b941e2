----------------------------- MODULE MCRetrieval -----------------------------
EXTENDS Retrieval, TLC
MCArchiveOf == [e \in Evidence |-> "a1"]
MCNode(status, subject, link, latest) ==
  [user |-> "u1", status |-> status, version |-> 1, subject |-> subject, link |-> link,
   evidence |-> {"e1"}, latest |-> latest, created |-> 0, importance |-> 70,
   consolidated |-> Null]
MCInitial == [m \in Ids |->
  CASE m = 1 -> MCNode("active", "tom", NoLink, 0)
    [] m = 2 -> MCNode("active", "self", [kind |-> "supersedes", old |-> 3], 1)
    [] OTHER -> MCNode("superseded", "tom", NoLink, 0)]
\* The document of memory 3 is behind.
MCInitialDoc == [m \in Ids |-> IF m = 3 THEN "conflicted" ELSE "active"]
MCQuery(conflicted, history, expand, length) ==
  [user |-> "u1", conflicted |-> conflicted, history |-> history, expand |-> expand,
   length |-> length]
MCQueries == { MCQuery(FALSE, FALSE, FALSE, "refused"), MCQuery(FALSE, FALSE, FALSE, "long"),
               MCQuery(FALSE, FALSE, FALSE, "none"),
               MCQuery(FALSE, FALSE, TRUE, "fits"), MCQuery(TRUE, TRUE, TRUE, "fits") }
MCSourceEnd == [e \in Evidence |-> IF e = "e1" THEN 0 ELSE 1]
MCRrfWeight == [rank \in 1..3 |-> CASE rank = 1 -> 62 [] rank = 2 -> 61 [] OTHER -> 60]
MCFrequencyScore == [n \in 0..3 |-> CASE n = 0 -> 0 [] n = 1 -> 23 [] OTHER -> 36]
MCRecencyScore == [d \in 0..1 |-> IF d = 0 THEN 100 ELSE 50]
MCStatusPenalty == [s \in {"active", "conflicted", "superseded"} |->
  CASE s = "active" -> 100 [] s = "conflicted" -> 85 [] OTHER -> 60]
=============================================================================
