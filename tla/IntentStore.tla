----------------------------- MODULE IntentStore -----------------------------
(***************************************************************************)
(* The Provider Intent store under names of its own, so that it can be     *)
(* spoken of beside other components of Core: ProviderIntents with its     *)
(* settings, its requests and the setting of a behaviour renamed.          *)
(***************************************************************************)
CONSTANTS Guests, Prints, Values, Requests, Calls, Policies, None, Unknown,
          IntentSettings

VARIABLES db, core, policy, loaded, live, served, told, asked, replaced, edits,
          starts, scope

PI == INSTANCE ProviderIntents
        WITH Settings <- IntentSettings, call <- served, setting <- scope

ASSUME IntentsHold == PI!IntentsAssumption

IntentSpec == PI!Spec

\* What ProviderIntents says of the store: it validates after every write and
\* migration, a superseded series ends, and the policy file is in it.
StoreSound == PI!StoreSound

\* What ProviderIntents says of the answers: they are stored as they were given,
\* and an expectation was asked for the incarnation it is taken for.
RequestsHonoured == PI!RequestsHonoured
=============================================================================
