--------------------------- MODULE MCLiveDelivery ---------------------------
(* Small instances of LiveDelivery for TLC.                                *)
EXTENDS LiveDelivery, TLC

\* Both paths, with a quota of one on either side, and POSTs delivered twice.
MCSettings ==
    {[path |-> p, coreQuota |-> q, agentQuota |-> 3 - q, twice |-> d] :
        p \in {"coordinator", "composition"}, q \in {1, 2}, d \in BOOLEAN}

\* Calls, subjects and keys are interchangeable.
DeliverySymmetry ==
    Permutations(Calls) \cup Permutations(Subjects) \cup Permutations(Keys)
=============================================================================
