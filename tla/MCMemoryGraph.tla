--------------------------- MODULE MCMemoryGraph ----------------------------
EXTENDS MemoryGraph, TLC
MCUsers == {"u1", "u2"}
MCEvidence == {"c1", "c2", "c3", "c4", "e0"}
MCArchiveOf == [e \in MCEvidence |-> CASE e \in {"c1", "c4"} -> "a1" [] e = "e0" -> "a0" [] OTHER -> "a2"]
MCMentions == {"c1", "c2", "c3", "c4"}
MCName == [e \in MCMentions |-> CASE e = "c3" -> "tommy" [] e = "c4" -> "tom" [] OTHER -> "user"]
MCAlias == [e \in MCMentions |-> IF e = "c4" THEN {"tommy"} ELSE {}]
MCSourceTime == [e \in MCEvidence |-> CASE e = "c1" -> 3 [] e = "c2" -> 1 [] OTHER -> 2]
MCClaim == [e \in MCEvidence |-> "x"]
MCSubjectIds == ({"tom", "tommy"} \X {"w1", "w2"}) \cup {<<"ann", "w0">>, <<"user", "id">>}
MCIdRank == [id \in EntityIds |-> CASE id[1] = "tom" -> 1 [] id[1] = "tommy" -> 2 [] OTHER -> 3]
MCInitial == [m \in Ids |-> IF m = 2 THEN
  [user |-> "u2", status |-> "active", version |-> 1, subject |-> <<"ann", "w0">>, link |-> NoLink,
   evidence |-> {"e0"}, latest |-> 0, created |-> 0, importance |-> 70, consolidated |-> Null] ELSE NoNode]
\* Every candidate is about the user, two of them in one archive.
MCNameUser == [e \in {"c1", "c2", "c3"} |-> "user"]
MCAliasNone == [e \in {"c1", "c2", "c3"} |-> {}]
=============================================================================
