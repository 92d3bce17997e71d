------------------------- MODULE MCProviderIntents -------------------------
(* An instance of IntentStore: one guest, two incarnations, two values, in *)
(* three settings.                                                         *)
EXTENDS IntentStore, FiniteSets, TLC

NoPolicy == [x \in {} |-> CHOOSE v \in Values : TRUE]
MCPolicies == [Guests -> Values] \cup {NoPolicy}

\* Two mutations of an activated store together, and a replaced guest.
Mutations ==
    {[stores |-> {"p3"}, requests |-> R, direct |-> {}, calls |-> Calls,
      policies |-> {NoPolicy}, version |-> 2, replaced |-> 1, edits |-> 0,
      starts |-> 0] : R \in {X \in SUBSET Requests : Cardinality(X) = 2}}

\* The store's own operations beside one mutation.
DirectUse ==
    {[stores |-> {"p3"}, requests |-> Requests, direct |-> Requests, calls |-> {c},
      policies |-> {NoPolicy}, version |-> 3, replaced |-> 0, edits |-> 0,
      starts |-> 0] : c \in Calls}

\* Edits of the policy, import, migration and restarts.
Activation ==
    {[stores |-> {"absent", "p2c"}, requests |-> {id}, direct |-> {}, calls |-> {c},
      policies |-> Policies, version |-> 2, replaced |-> 1, edits |-> 2,
      starts |-> 1] : id \in Requests, c \in Calls}

MCSettings == Mutations \cup DirectUse \cup Activation

\* Everything but the guest is interchangeable: the policies are all of them.
IntentsSymmetry == Permutations(Requests) \cup Permutations(Calls)
                     \cup Permutations(Prints) \cup Permutations(Values)
=============================================================================
