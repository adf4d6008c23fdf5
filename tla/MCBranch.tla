----------------------------- MODULE MCBranch -----------------------------
(* Instances of Branch for TLC; the parent's handlers are interchangeable.   *)
EXTENDS Branch, TLC

Symmetry == Permutations(Handlers)

\* A bound: a fork starts before the first crash, and from then on one request
\* at most is in flight on the parent, next to its run.  Without a fork, requests
\* and crashes interleave freely.
InFlight  == {h \in Handlers : req[h].pc # "idle"}
ForkBound == fork.pc # "off" => crashes = 0 /\ \A h, k \in InFlight : h = k
=============================================================================
