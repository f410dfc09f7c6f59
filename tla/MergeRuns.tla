------------------------------- MODULE MergeRuns -------------------------------
(***************************************************************************)
(* The repetitions of one tool run and their merge.  A campaign runs every *)
(* experiment in num_copies directories destination/0, destination/1, ...  *)
(* (launch_run in run_experiments.py); merge_json_runs_by_experiment.py    *)
(* merges the JSON files of all directories it finds.  The destination     *)
(* survives from campaign to campaign, also from one that failed.          *)
(* Rows and their means are left out: what matters is whose files are      *)
(* merged.                                                                 *)
(***************************************************************************)
EXTENDS Naturals, FiniteSets

CONSTANTS
  MaxCampaigns,  \* bound: campaigns into one destination
  MaxCopies,     \* bound: num_copies
  Experiments,   \* bound: experiments, numbered in the order of their names
  Metas          \* metadata of a case, as the benchmark file has it

ASSUME MergeAssumption ==
  MaxCampaigns \in Nat /\ MaxCopies \in Nat \ {0} /\ Experiments \subseteq Nat

VARIABLES
  campaign,  \* how many campaigns were started
  direct,    \* the tool's cases are queued one by one (enumerate_case_tasks)
  copies,    \* num_copies
  selected,  \* experiments of the campaign
  meta,      \* metadata of its cases
  todo,      \* cases that are not over
  file,      \* <<copy, experiment>> -> the JSON in destination/copy
  merged,    \* experiment -> the files its destination/experiment.json was made from
  queue,     \* experiments still to merge
  own,       \* the merge belongs to a campaign that ended, not to --postprocess-only
  doing

mergeVars ==
  <<campaign, direct, copies, selected, meta, todo, file, merged, queue, own, doing>>

NoFile   == [by |-> 0]
CopyDir  == 0..(MaxCopies - 1)
Place    == CopyDir \X Experiments
NotThere == {}      \* no merged file

MergeInit ==
  /\ campaign = 0 /\ direct \in BOOLEAN /\ copies = 0 /\ selected = {}
  /\ meta \in Metas /\ todo = {}
  /\ file = [p \in Place |-> NoFile] /\ merged = [e \in Experiments |-> NotThere]
  /\ queue = {} /\ own = FALSE /\ doing = "idle"

\* the directories of this campaign's copies, and only these, are emptied
Emptied(n) == [p \in Place |-> IF direct /\ p[1] < n THEN NoFile ELSE file[p]]

StartCampaign ==
  /\ doing \in {"idle", "merged", "failed"} /\ campaign < MaxCampaigns
  /\ campaign' = campaign + 1
  /\ copies' \in 1..MaxCopies /\ selected' \in SUBSET Experiments \ {{}} /\ meta' \in Metas
  /\ todo' = (0..(copies' - 1)) \X selected'
  /\ file' = Emptied(copies')
  /\ doing' = "run" /\ own' = FALSE
  /\ UNCHANGED <<direct, merged, queue>>

\* a case succeeds; Binsec without a stats file leaves no JSON
CaseEnds(p) ==
  /\ doing = "run" /\ p \in todo
  /\ todo' = todo \ {p}
  /\ file' \in {file, [file EXCEPT ![p] = [by |-> campaign, meta |-> meta]]}
  /\ UNCHANGED <<campaign, direct, copies, selected, meta, merged, queue, own, doing>>

\* a case fails, or a signal: the campaign ends without postprocessing
CampaignFails ==
  /\ doing = "run"
  /\ doing' = "idle" /\ todo' = {}
  /\ UNCHANGED <<campaign, direct, copies, selected, meta, file, merged, queue, own>>

-----------------------------------------------------------------------------
(* merge_all *)

Sources(e) == {<<p, file[p]>> : p \in {q \in Place : q[2] = e /\ file[q] # NoFile}}

KeepPrevious ==
  /\ \/ doing = "run" /\ todo = {} /\ own' = TRUE
     \/ doing \in {"idle", "merged", "failed"} /\ campaign > 0 /\ own' = FALSE
  /\ doing' = "merge"
  /\ queue' = {e \in Experiments : Sources(e) # {}}
  /\ UNCHANGED <<campaign, direct, copies, selected, meta, todo, file, merged>>

\* _group_input_files and _remove_previous_merged_outputs
BeginMerge ==
  /\ \/ doing = "run" /\ todo = {} /\ own' = TRUE
     \/ doing \in {"idle", "merged", "failed"} /\ campaign > 0 /\ own' = FALSE
  /\ doing' = "merge"
  /\ queue' = {e \in Experiments : Sources(e) # {}}
  /\ merged' = [e \in Experiments |-> NotThere]
  /\ UNCHANGED <<campaign, direct, copies, selected, meta, todo, file>>

\* _merge_single_experiment: repetitions with different metadata raise SystemExit
MergeOne ==
  /\ doing = "merge"
  /\ \E e \in queue :
       /\ \A f \in queue : e <= f
       /\ IF \A x, y \in Sources(e) : x[2].meta = y[2].meta
            THEN /\ merged' = [merged EXCEPT ![e] = Sources(e)]
                 /\ queue' = queue \ {e} /\ UNCHANGED doing
            ELSE doing' = "failed" /\ queue' = {} /\ UNCHANGED merged
  /\ UNCHANGED <<campaign, direct, copies, selected, meta, todo, file, own>>

EndMerge ==
  /\ doing = "merge" /\ queue = {}
  /\ doing' = "merged"
  /\ UNCHANGED <<campaign, direct, copies, selected, meta, todo, file, merged, queue, own>>

MergeNext ==
  \/ StartCampaign \/ (\E p \in Place : CaseEnds(p)) \/ CampaignFails
  \/ BeginMerge \/ MergeOne \/ EndMerge

\* the component on its own
MergeSpec == MergeInit /\ [][MergeNext]_mergeVars

-----------------------------------------------------------------------------
(* Properties *)

\* a file that is not of the present campaign's
Stale(p) == file[p] # NoFile /\ file[p].by # campaign

(* Whose results a merge holds (merge_all after launch_run): a merged file is    *)
(* made from exactly the files that are there, also when the merge failed at a   *)
(* later experiment.  After a successful campaign a repetition of an earlier one *)
(* can only be in a directory beyond num_copies, or, for a tool whose            *)
(* directories are not emptied, in an experiment's file that was not rewritten;  *)
(* and only such a leftover can make the merge fail.                             *)
MergedIsCurrent ==
  doing \in {"merged", "failed"} =>
    /\ \A e \in Experiments :
         merged[e] = Sources(e) \/ (doing = "failed" /\ merged[e] = NotThere)
    /\ own => \A p \in Place : Stale(p) => p[1] >= copies \/ ~ direct
    /\ (own /\ doing = "failed") => \E p \in Place : Stale(p)
=============================================================================
