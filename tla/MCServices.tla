----------------------------- MODULE MCServices -----------------------------
(* The services around the agent for TLC.  They share no state, so a        *)
(* behaviour exercises one of them and the others stay as they start.       *)
EXTENDS LlmContext, ModelStream, MCMemoryDocs, Accounts, VerifierRounds, MutationJournal, TLC

CONSTANTS q1, q2

VARIABLE part       \* the service a behaviour exercises

\* Requests, clients and operations are interchangeable.
RequestSymmetry == Permutations({q1, q2})

\* A mutation of two objects, of every kind.
MCKindChoices == {<<"deployment", "other">>, <<"set", "job">>, <<"pod", "data">>}

VerifierAsItStarts ==
    /\ adapter = "kubernetes_apply"
    /\ kinds = <<"deployment", "other">>
    /\ \A t \in Targets : objects[t] = Absent

ServicesInit ==
    /\ part \in {"context", "stream", "memory", "accounts", "verifier", "journal"}
    /\ ContextInit /\ (part # "context" => provider = "unknown")
    /\ StreamInit /\ (part # "stream" => style = "indexed")
    /\ MemoryInit /\ (part # "memory" => \A s \in Stores : stores[s].seeded)
    /\ AccountInit
    /\ VerifierInit /\ (part # "verifier" => VerifierAsItStarts)
    /\ Init

servicesVars ==
    <<part, contextVars, streamVars, memoryVars, accountVars, verifierVars, journal>>

ServicesNext ==
    /\ UNCHANGED part
    /\ \/ /\ part = "context" /\ ContextNext
          /\ UNCHANGED <<streamVars, memoryVars, accountVars, verifierVars, journal>>
       \/ /\ part = "stream" /\ StreamNext
          /\ UNCHANGED <<contextVars, memoryVars, accountVars, verifierVars, journal>>
       \/ /\ part = "memory" /\ MemoryNext
          /\ UNCHANGED <<contextVars, streamVars, accountVars, verifierVars, journal>>
       \/ /\ part = "accounts" /\ AccountNext
          /\ UNCHANGED <<contextVars, streamVars, memoryVars, verifierVars, journal>>
       \/ /\ part = "verifier" /\ VerifierNext
          /\ UNCHANGED <<contextVars, streamVars, memoryVars, accountVars, journal>>
       \/ /\ part = "journal" /\ Next
          /\ UNCHANGED <<contextVars, streamVars, memoryVars, accountVars, verifierVars>>

ServicesSpec == ServicesInit /\ [][ServicesNext]_servicesVars
=============================================================================
