-------------------------- MODULE MCSecurityGraph --------------------------
(* SecurityGraph on four ids with a cycle, three parallel edges to a       *)
(* target and an edge that chains do not follow.                           *)
EXTENDS SecurityGraph
E(x, y, r) == [from |-> x, to |-> y, relationship |-> r]
CONSTANTS a, b, c, d
MCLevels == [host |-> 2, token |-> 5]
MCLinks == {E(a, b, "READS"), E(a, b, "TRUSTS"), E(a, b, "CALLS"),
            E(b, c, "READS"), E(c, a, "READS"), E(c, d, "OWNS")}
MCQueries == {<<a, b>>, <<a, d>>}
=============================================================================
