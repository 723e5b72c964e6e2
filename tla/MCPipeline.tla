----------------------------- MODULE MCPipeline -----------------------------
(***************************************************************************)
(* Small instances of the pipeline for TLC.                                *)
(***************************************************************************)
EXTENDS PipelineProperties, TLC

\* Job 2 outranks job 1.
Prio2 == [j \in Job |-> IF j = 2 THEN 2 ELSE 1]

\* Each job may need the job before it, or nothing.
Chain == [j \in Job |-> {{}, {j - 1} \cap Job}]

\* Each job needs the job before it.
FixedChain == [j \in Job |-> {{j - 1} \cap Job}]

\* Any job may need any other one.
AnyOther == [j \in Job |-> SUBSET (Job \ {j})]
WorkerSymmetry == Permutations(Worker)
=============================================================================
