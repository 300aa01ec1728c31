-------------------------- MODULE MCIngestPipeline --------------------------
(* Instance of IngestPipeline for TLC.                                     *)
EXTENDS IngestPipeline, TLC

\* A good batch, one that the insert rejects, and a file with nothing to store.
SomePayloads ==
    {[form |-> "json", rows |-> {"good"}],
     [form |-> "csv", rows |-> {"good", "unstorable", "nameless"}],
     [form |-> "csv", rows |-> {"nameless"}]}

IdSymmetry ==
    Permutations(Orgs) \cup Permutations(Admins)
    \cup Permutations(Requests) \cup Permutations(Executions)
=============================================================================
