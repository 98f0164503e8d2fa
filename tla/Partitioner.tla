---------------------------- MODULE Partitioner -----------------------------
(***************************************************************************)
(* The network partitioner (casmsocial/network_partitioner_ducklake.py):   *)
(* batch jobs that assign every place to a rank and write the assignment   *)
(* to a table of the shared DuckLake catalog.                              *)
(*                                                                         *)
(* A job checks whether rows exist, deletes and inserts in three           *)
(* transactions, and may crash between them.  Jobs may overlap.  The table *)
(* is the part of it for one imputation and one number of ranks.           *)
(***************************************************************************)
EXTENDS Integers, FiniteSets

CONSTANTS
  Jobs,     \* runs of the partitioner, each at most once
  Ranks,    \* 0 .. n_ranks - 1
  Ids,      \* the ids that occur in the persons table
  Places,   \* the ids of the run's places table
  GraphNodes \* the ids a job may assign: those of its own places table, and
             \* without --restrict-to-places those its persons refer to

ASSUME PartitionerAssumption ==
  /\ Ranks # {} /\ Ranks \subseteq Nat
  /\ Places \subseteq Ids /\ GraphNodes \subseteq SUBSET Ids

VARIABLES
  table,      \* the rows of the partition table
  exists,     \* whether the partition table has been created
  job,        \* where each job is
  overlapped  \* history: the pairs of jobs that ran at the same time

partitionVars == <<table, exists, job, overlapped>>

Rows == [place : Ids, rank : Ranks, by : Jobs]
PartitionerTypeOK ==
  /\ table \subseteq Rows
  /\ exists \in BOOLEAN /\ (table # {} => exists)
  /\ job \in [Jobs -> {"idle", "building", "deleting", "inserting", "done", "skipped", "crashed"}]
  /\ overlapped \subseteq SUBSET Jobs

Active == {j \in Jobs : job[j] \in {"building", "deleting", "inserting"}}

PartitionerInit ==
  /\ table = {}
  /\ exists \in BOOLEAN
  /\ job = [j \in Jobs |-> "idle"]
  /\ overlapped = {}

JobGoes(j, from, to) == job[j] = from /\ job' = [job EXCEPT ![j] = to]

\* Existing rows end a job that is not forced before it builds the graph.
CountExisting(j) ==
  /\ \/ /\ JobGoes(j, "idle", "building")
        /\ overlapped' = overlapped \cup {{j, k} : k \in Active}
     \/ /\ table # {}
        /\ JobGoes(j, "idle", "skipped")
        /\ UNCHANGED overlapped
  /\ UNCHANGED <<table, exists>>

\* The graph is built and partitioned, and the output table created.
EnsureOutputTable(j) ==
  /\ JobGoes(j, "building", "deleting")
  /\ exists' = TRUE
  /\ UNCHANGED <<table, overlapped>>

\* Mutant: the rows of earlier jobs are kept.
KeepRows(j) ==
  /\ JobGoes(j, "deleting", "inserting")
  /\ UNCHANGED <<table, exists, overlapped>>

DeleteRows(j) ==
  /\ JobGoes(j, "deleting", "inserting")
  /\ table' = {}
  /\ UNCHANGED <<exists, overlapped>>

\* METIS may assign any rank to any node.
Partitions(nodes) == [nodes -> Ranks]

InsertRows(j) ==
  /\ JobGoes(j, "inserting", "done")
  /\ \E nodes \in GraphNodes : \E partition \in Partitions(nodes) :
       table' = table \cup {[place |-> q, rank |-> partition[q], by |-> j] : q \in nodes}
  /\ UNCHANGED <<exists, overlapped>>

\* A job ends wherever it is; what it committed stays.
Crash(j) ==
  /\ j \in Active
  /\ job' = [job EXCEPT ![j] = "crashed"]
  /\ UNCHANGED <<table, exists, overlapped>>

JobStep == \E j \in Jobs :
  \/ CountExisting(j) \/ EnsureOutputTable(j)
  \/ DeleteRows(j) \/ InsertRows(j) \/ Crash(j)
-----------------------------------------------------------------------------
(* Properties. *)

\* The rows of two jobs stand side by side only if the two ran at the same time:
\* any sequence of jobs, forced, skipped, crashed and repeated, leaves the rows of
\* one of them.  (Delete and insert are two transactions, so overlapping jobs can both
\* delete before either inserts.)
OneAssignment ==
  PartitionerTypeOK /\ \A a, b \in table : a.by # b.by => {a.by, b.by} \in overlapped
=============================================================================
