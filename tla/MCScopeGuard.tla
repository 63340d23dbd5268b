---------------------------- MODULE MCScopeGuard ----------------------------
(* ScopeGuard on a small instance: two-bit addresses, a domain and one   *)
(* of its subdomains, and rules that overlap.                              *)
EXTENDS ScopeGuard, TLC
Name(n) == [name |-> n]
Site == Name(<<"com", "site">>)
Pay  == Name(<<"com", "site", "pay">>)
MCHosts == {Site, Pay} \cup {[ip |-> a] : a \in 0..(2^Width - 1)}
Plain(r) == [rule |-> r, quoted |-> FALSE]
MCValues == {[rule |-> Pay, quoted |-> TRUE],
             Plain([net |-> 1, bits |-> 0])}
(* The shipped profile, one whose targets are its domains although nobody   *)
(* has authorised them, and one with domains of its own.                    *)
NoScope == [authorized |-> FALSE, targets |-> <<>>, excluded |-> <<>>, enforce |-> TRUE,
            allowed_domains |-> Absent]
MCProfiles == {NoScope,
               [NoScope EXCEPT !.targets = <<Plain(Site), Plain([net |-> 3, bits |-> 1])>>,
                               !.excluded = <<Plain(Pay), Plain([net |-> 2, bits |-> Width])>>],
               [NoScope EXCEPT !.authorized = TRUE, !.targets = <<Plain([net |-> 2, bits |-> Width])>>,
                               !.allowed_domains = File(<<Plain(Pay)>>)]}
SessionSymmetry == Permutations(Sessions)
=============================================================================
