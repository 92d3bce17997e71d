------------------------- MODULE InstallationEvidence -------------------------
(***************************************************************************)
(* The two halves of the installation chain, the append-only stores and    *)
(* the one-shot boundaries, one half to a behaviour: the boundaries begin  *)
(* where the stores end and share no table with them.                      *)
(***************************************************************************)
EXTENDS OneShotBoundary

CONSTANTS Refs, RefFrom, RefUntil, TTL, Parts

VARIABLES rows, part, chainClock, chainCalls, half

Chain == INSTANCE EvidenceChain WITH clock <- chainClock, calls <- chainCalls

ASSUME ChainAssumption == Chain!PartsAssumption

chainVars == <<rows, part, chainClock, chainCalls>>
allVars == <<vars, chainVars, half>>

(* The half that rests is fixed.                                           *)
EvidenceInit ==
    /\ Init /\ Chain!Init
    /\ \/ half = "chain" /\ stage = "enqueue"
       \/ half = "boundary" /\ part = CHOOSE p \in Parts : TRUE

EvidenceNext ==
    \/ half = "chain" /\ Chain!Next /\ UNCHANGED <<vars, half>>
    \/ half = "boundary" /\ Next /\ UNCHANGED <<chainVars, half>>

EvidenceSpec == EvidenceInit /\ [][EvidenceNext]_allVars

-----------------------------------------------------------------------------
\* What EvidenceChain says of the append-only stores.
ChainSound == Chain!ChainSound

\* What EvidenceChain says of the answers they give.
AnswersSound == Chain!AnswersSound
=============================================================================
