--------------------------- MODULE MCDiscoveryCache ---------------------------
(* Instances of DiscoveryCache: two generations of the same time and a     *)
(* later one with two processes or one and a client that reads and         *)
(* refreshes; two generations of which one is later with two clients.      *)
EXTENDS DiscoveryCache, TLC

CONSTANTS p1, p2, c1, c2

MCGens == {[stamp |-> 1, digest |-> 1], [stamp |-> 1, digest |-> 2],
           [stamp |-> 2, digest |-> 1]}

MCServer == [c \in Clients |-> p1]
MCSettings ==
    {[who |-> {p1, p2}, gens |-> MCGens],
     [who |-> {p1, c1}, gens |-> MCGens],
     [who |-> {p1, c1, c2}, gens |-> {g \in MCGens : g.digest = 1}]}

\* Clients are interchangeable.
ClientSymmetry == Permutations(Clients)
=============================================================================
