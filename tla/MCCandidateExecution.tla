------------------------ MODULE MCCandidateExecution ------------------------
(* Small instances of CandidateExecution for TLC.                          *)
EXTENDS CandidateExecution, TLC

\* One workflow meets every kind of fault; several share the checkout and the
\* journal with restarts of the Agent; and other clients POST requests of any
\* digest to a worker that crashes, with POSTs lost and delivered twice.
MCSettings ==
    {[faults |-> {"worker", "network", "agent", "disk"}, inUse |-> {w}] :
        w \in Requests}
    \cup {[faults |-> {"agent"}, inUse |-> Requests],
          [faults |-> {"worker", "network", "client"}, inUse |-> {}]}

\* Workflows are interchangeable, and so are threads.
CandidateSymmetry == Permutations(Requests) \cup Permutations(Threads)
=============================================================================
