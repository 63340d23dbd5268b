--------------------------- MODULE MCLearningLoop ---------------------------
(* The learning loop beside the collective memory on a small instance; the  *)
(* sessions are interchangeable.  The two findings share a file name, and   *)
(* ids are compared as the texts they are.                                  *)
EXTENDS LearningLoop, TLC

NoAlias == [n \in {} |-> ""]
SafeNames == [i \in {"finding:x", "finding_x", "h"} |-> IF i = "h" THEN "h" ELSE "finding_x"]
NodeNames == [p \in IdPrefixes \X {"finding:x", "finding_x", "h"} |-> p[1] \o ":" \o p[2]]

Texts == Ids \cup Range(NodeNames)
Contained == {<<x, y>> \in Texts \X Texts :
                x # y /\ \E i \in 0..(Len(y) - Len(x)) : SubSeq(y, i + 1, i + Len(x)) = x}

(* A finding under its id, the same after one whose id contains it, and a   *)
(* finding with metadata.                                                   *)
Graphs == {<<NodeOf("finding:x")>>, <<Node("finding", "finding:x"), NodeOf("finding:x")>>,
           <<[NodeOf("finding_x") EXCEPT !.meta = TRUE]>>}
Interchangeable == Permutations(Sessions)
=============================================================================
