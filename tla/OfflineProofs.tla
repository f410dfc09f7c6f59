----------------------------- MODULE OfflineProofs -----------------------------
(***************************************************************************)
(* Proofs about the offline parts: MergedIsCurrent for any number of       *)
(* campaigns, copies and experiments, TrackerVerdict for any history       *)
(* length, and CulpritLeaks and StatusMeans for any executions and any     *)
(* number of rows.                                                         *)
(***************************************************************************)
EXTENDS MergeRuns, BranchTracker, ReplayTrace, SequenceTheorems, TLAPS

-----------------------------------------------------------------------------
(* MergeRuns: the invariant follows the files from the campaign that wrote    *)
(* them to the merge that reads them.                                         *)

MergeTypeOK ==
  /\ campaign \in Nat /\ copies \in Nat /\ own \in BOOLEAN
  /\ file = [p \in Place |-> file[p]]
  /\ merged = [e \in Experiments |-> merged[e]]
  /\ queue \subseteq Experiments
  /\ doing = "run" => campaign > 0

\* a file names the campaign that wrote it, and this campaign's have its metadata
FilesInv ==
  \A p \in Place : file[p] # NoFile =>
    /\ file[p].by \in 1..campaign
    /\ file[p].by = campaign => file[p].meta = meta

\* where earlier campaigns' files can be from the start of a campaign to its merge
LeftoverInv ==
  (doing = "run" \/ own) => \A p \in Place : Stale(p) => p[1] >= copies \/ ~ direct

\* a merge in progress
QueueInv ==
  doing = "merge" =>
    \A e \in Experiments : merged[e] = IF e \in queue THEN NotThere ELSE Sources(e)

MInv == MergeTypeOK /\ FilesInv /\ LeftoverInv /\ QueueInv /\ MergedIsCurrent

\* a copy's directory has a number
LEMMA PlaceNumber == \A p \in Place : p[1] \in Nat
  BY MergeAssumption DEF Place, CopyDir

\* The invariant of the merges holds initially.
LEMMA MergeInitInv == MergeInit => MInv
<1> SUFFICES ASSUME MergeInit PROVE MInv
  OBVIOUS
<1>1. \A p \in Place : file[p] = NoFile
  BY DEF MergeInit
<1>2. file = [p \in Place |-> file[p]]
  BY Zenon DEF MergeInit
<1>3. merged = [e \in Experiments |-> merged[e]]
  BY Zenon DEF MergeInit
<1>4. MergeTypeOK
  BY <1>2, <1>3 DEF MergeInit, MergeTypeOK
<1>5. FilesInv /\ LeftoverInv
  BY <1>1 DEF FilesInv, LeftoverInv, Stale
<1>6. QueueInv /\ MergedIsCurrent
  BY DEF MergeInit, QueueInv, MergedIsCurrent
<1> QED BY <1>4, <1>5, <1>6 DEF MInv

\* launch_run empties the directories of the copies it is about to fill.
LEMMA StartCampaignInv == MInv /\ StartCampaign => MInv'
<1> SUFFICES ASSUME MInv, StartCampaign PROVE MInv'
  OBVIOUS
<1>n. copies' \in Nat /\ campaign' = campaign + 1 /\ campaign \in Nat
  BY MergeAssumption DEF StartCampaign, MInv, MergeTypeOK
<1>f. \A p \in Place : file'[p] = IF direct /\ p[1] < copies' THEN NoFile ELSE file[p]
  BY DEF StartCampaign, Emptied
<1>1. MergeTypeOK'
  <2>1. file' = [p \in Place |-> file'[p]]
    BY Zenon DEF StartCampaign, Emptied
  <2>2. UNCHANGED <<merged, queue>> /\ own' = FALSE
    BY DEF StartCampaign
  <2>3. campaign' \in Nat /\ campaign' > 0
    BY <1>n
  <2>4. merged' = [e \in Experiments |-> merged'[e]] /\ queue' \subseteq Experiments
    BY <2>2 DEF MInv, MergeTypeOK
  <2> QED BY <1>n, <2>1, <2>2, <2>3, <2>4 DEF MergeTypeOK
<1>2. FilesInv'
  <2> SUFFICES ASSUME NEW p \in Place, file'[p] # NoFile
               PROVE file'[p].by \in 1..campaign' /\ file'[p].by # campaign'
    BY DEF FilesInv, NoFile
  <2>1. file'[p] = file[p] /\ file[p].by \in 1..campaign
    BY <1>f DEF MInv, FilesInv
  <2> QED BY <2>1, <1>n
<1>3. LeftoverInv'
  <2> SUFFICES ASSUME NEW p \in Place, file'[p] # NoFile PROVE p[1] >= copies' \/ ~ direct'
    BY DEF LeftoverInv, Stale, NoFile
  <2>1. ~ (direct /\ p[1] < copies') /\ direct' = direct
    BY <1>f DEF StartCampaign
  <2> QED BY <2>1, <1>n, PlaceNumber
<1>4. QueueInv' /\ MergedIsCurrent'
  BY DEF StartCampaign, QueueInv, MergedIsCurrent
<1> QED BY <1>1, <1>2, <1>3, <1>4 DEF MInv

\* A case writes the present campaign's file.
LEMMA CaseEndsInv == ASSUME NEW p \in Place PROVE MInv /\ CaseEnds(p) => MInv'
<1> SUFFICES ASSUME MInv, CaseEnds(p) PROVE MInv'
  OBVIOUS
<1> DEFINE new == [by |-> campaign, meta |-> meta]
<1>u. /\ UNCHANGED <<campaign, direct, copies, meta, merged, queue, own, doing>>
      /\ doing = "run"
  BY DEF CaseEnds
<1>f. /\ file' = [q \in Place |-> file'[q]]
      /\ \A q \in Place : file'[q] = file[q] \/ file'[q] = new
  BY DEF CaseEnds, MInv, MergeTypeOK
<1>1. MergeTypeOK'
  BY <1>u, <1>f DEF MInv, MergeTypeOK
<1>2. FilesInv'
  <2> SUFFICES ASSUME NEW q \in Place, file'[q] # NoFile
               PROVE file'[q].by \in 1..campaign /\ (file'[q].by = campaign => file'[q].meta = meta)
    BY <1>u DEF FilesInv, NoFile
  <2>1. CASE file'[q] = file[q]
    BY <2>1 DEF MInv, FilesInv
  <2>2. CASE file'[q] = new
    BY <2>2, <1>u DEF MInv, MergeTypeOK
  <2> QED BY <1>f, <2>1, <2>2
<1>3. LeftoverInv'
  <2> SUFFICES ASSUME NEW q \in Place, Stale(q)' PROVE q[1] >= copies \/ ~ direct
    BY <1>u DEF LeftoverInv
  <2>1. file'[q] # new
    BY <1>u DEF Stale
  <2>2. Stale(q)
    BY <2>1, <1>u, <1>f DEF Stale, NoFile
  <2> QED BY <2>2, <1>u DEF MInv, LeftoverInv
<1>4. QueueInv' /\ MergedIsCurrent'
  BY <1>u DEF QueueInv, MergedIsCurrent
<1> QED BY <1>1, <1>2, <1>3, <1>4 DEF MInv

\* A failed campaign writes nothing.
LEMMA CampaignFailsInv == MInv /\ CampaignFails => MInv'
<1> SUFFICES ASSUME MInv, CampaignFails PROVE MInv'
  OBVIOUS
<1>1. /\ UNCHANGED <<campaign, direct, copies, meta, file, merged, queue, own>>
      /\ doing = "run" /\ doing' = "idle"
  BY DEF CampaignFails
<1> QED
  BY <1>1 DEF MInv, MergeTypeOK, FilesInv, LeftoverInv, Stale, QueueInv, MergedIsCurrent

\* The previous merged files go before the first new one is written.
LEMMA BeginMergeInv == MInv /\ BeginMerge => MInv'
<1> SUFFICES ASSUME MInv, BeginMerge PROVE MInv'
  OBVIOUS
<1>u. UNCHANGED <<campaign, direct, copies, meta, file>> /\ doing' = "merge"
  BY DEF BeginMerge
<1>o. own' \in BOOLEAN /\ (own' => doing = "run")
  BY DEF BeginMerge
<1>q. queue' = {e \in Experiments : Sources(e) # {}}
  BY DEF BeginMerge
<1>m. merged' = [e \in Experiments |-> NotThere]
  BY DEF BeginMerge
<1>s. \A e \in Experiments : Sources(e)' = Sources(e)
  BY <1>u DEF Sources
<1>1. MergeTypeOK'
  <2>1. merged' = [e \in Experiments |-> merged'[e]]
    BY <1>m, Zenon
  <2> QED BY <1>u, <1>o, <1>q, <2>1 DEF MInv, MergeTypeOK
<1>2. FilesInv'
  BY <1>u DEF MInv, FilesInv
<1>3. LeftoverInv'
  BY <1>u, <1>o DEF MInv, LeftoverInv, Stale
<1>4. QueueInv'
  BY <1>m, <1>q, <1>s DEF QueueInv, NotThere
<1>5. MergedIsCurrent'
  BY <1>u DEF MergedIsCurrent
<1> QED BY <1>1, <1>2, <1>3, <1>4, <1>5 DEF MInv

\* two of this campaign's files have the same metadata
LEMMA MismatchIsStale ==
  ASSUME FilesInv, NEW e, NEW x \in Sources(e), NEW y \in Sources(e), x[2].meta # y[2].meta
  PROVE \E p \in Place : Stale(p)
<1>1. PICK p \in Place : x = <<p, file[p]>> /\ file[p] # NoFile
  BY DEF Sources
<1>2. PICK q \in Place : y = <<q, file[q]>> /\ file[q] # NoFile
  BY DEF Sources
<1>3. file[p].meta # file[q].meta
  BY <1>1, <1>2
<1> QED BY <1>1, <1>2, <1>3 DEF FilesInv, Stale

\* An experiment leaves the queue merged from the files there are.
LEMMA MergeOneInv == MInv /\ MergeOne => MInv'
<1> SUFFICES ASSUME MInv, MergeOne PROVE MInv'
  OBVIOUS
<1>u. UNCHANGED <<campaign, direct, copies, meta, file, own>> /\ doing = "merge"
  BY DEF MergeOne
<1>s. \A e \in Experiments : Sources(e)' = Sources(e)
  BY <1>u DEF Sources
<1>t. \A p \in Place : Stale(p)' = Stale(p)
  BY <1>u DEF Stale
<1>l. own => \A p \in Place : Stale(p) => p[1] >= copies \/ ~ direct
  BY DEF MInv, LeftoverInv
<1>q. /\ queue \subseteq Experiments
      /\ \A e \in Experiments : merged[e] = IF e \in queue THEN NotThere ELSE Sources(e)
  BY <1>u DEF MInv, MergeTypeOK, QueueInv
<1>1. FilesInv' /\ LeftoverInv'
  <2>1. FilesInv'
    BY <1>u DEF MInv, FilesInv
  <2>2. doing' # "run"
    BY <1>u DEF MergeOne
  <2> QED BY <2>1, <2>2, <1>u, <1>l, <1>t DEF LeftoverInv
<1>2. PICK e \in queue :
        IF \A x, y \in Sources(e) : x[2].meta = y[2].meta
          THEN /\ merged' = [merged EXCEPT ![e] = Sources(e)]
               /\ queue' = queue \ {e} /\ UNCHANGED doing
          ELSE doing' = "failed" /\ queue' = {} /\ UNCHANGED merged
  BY DEF MergeOne
<1>3. CASE \A x, y \in Sources(e) : x[2].meta = y[2].meta
  <2>1. /\ merged' = [merged EXCEPT ![e] = Sources(e)]
        /\ queue' = queue \ {e} /\ doing' = "merge"
    BY <1>2, <1>3, <1>u
  <2>2. MergeTypeOK'
    BY <2>1, <1>u DEF MInv, MergeTypeOK
  <2>3. QueueInv'
    <3>1. \A f \in Experiments : merged'[f] = IF f = e THEN Sources(e) ELSE merged[f]
      BY <2>1 DEF MInv, MergeTypeOK
    <3> QED BY <3>1, <2>1, <1>q, <1>s DEF QueueInv
  <2> QED BY <2>1, <2>2, <2>3, <1>1 DEF MInv, MergedIsCurrent
<1>4. CASE ~ \A x, y \in Sources(e) : x[2].meta = y[2].meta
  <2>1. doing' = "failed" /\ queue' = {} /\ merged' = merged
    BY <1>2, <1>4
  <2>2. MergeTypeOK' /\ QueueInv'
    BY <2>1, <1>u DEF MInv, MergeTypeOK, QueueInv
  <2>3. \E p \in Place : Stale(p)
    BY <1>4, MismatchIsStale DEF MInv
  <2>4. \A f \in Experiments : merged'[f] = Sources(f)' \/ merged'[f] = NotThere
    BY <2>1, <1>q, <1>s
  <2>5. MergedIsCurrent'
    BY <2>1, <2>3, <2>4, <1>l, <1>t, <1>u DEF MergedIsCurrent
  <2> QED BY <2>2, <2>5, <1>1 DEF MInv
<1> QED BY <1>3, <1>4

\* With an empty queue every experiment is merged.
LEMMA EndMergeInv == MInv /\ EndMerge => MInv'
<1> SUFFICES ASSUME MInv, EndMerge PROVE MInv'
  OBVIOUS
<1>u. /\ UNCHANGED <<campaign, direct, copies, meta, file, merged, queue, own>>
      /\ doing = "merge" /\ queue = {} /\ doing' = "merged"
  BY DEF EndMerge
<1>s. \A e \in Experiments : Sources(e)' = Sources(e)
  BY <1>u DEF Sources
<1>1. MergeTypeOK' /\ FilesInv' /\ LeftoverInv' /\ QueueInv'
  BY <1>u DEF MInv, MergeTypeOK, FilesInv, LeftoverInv, Stale, QueueInv
<1>2. \A e \in Experiments : merged'[e] = Sources(e)'
  BY <1>u, <1>s DEF MInv, QueueInv
<1>3. MergedIsCurrent'
  BY <1>1, <1>2, <1>u DEF MergedIsCurrent, LeftoverInv
<1> QED BY <1>1, <1>3 DEF MInv

(* Whatever campaigns of however many copies went into a destination, and    *)
(* however they ended, a merge holds what merge_all found there, and after a *)
(* successful campaign a repetition of an earlier one can only be where      *)
(* launch_run did not empty the directory.                                   *)
THEOREM MergeCurrent == MergeSpec => []MergedIsCurrent
<1>1. MergeInit => MInv
  BY MergeInitInv
<1>2. MInv /\ [MergeNext]_mergeVars => MInv'
  <2> SUFFICES ASSUME MInv, [MergeNext]_mergeVars PROVE MInv'
    OBVIOUS
  <2>1. CASE StartCampaign
    BY <2>1, StartCampaignInv
  <2>2. CASE \E p \in Place : CaseEnds(p)
    BY <2>2, CaseEndsInv
  <2>3. CASE CampaignFails
    BY <2>3, CampaignFailsInv
  <2>4. CASE BeginMerge
    BY <2>4, BeginMergeInv
  <2>5. CASE MergeOne
    BY <2>5, MergeOneInv
  <2>6. CASE EndMerge
    BY <2>6, EndMergeInv
  <2>7. CASE UNCHANGED mergeVars
    BY <2>7 DEF mergeVars, MInv, MergeTypeOK, FilesInv, LeftoverInv, Stale, QueueInv,
                MergedIsCurrent, Sources
  <2> QED BY <2>1, <2>2, <2>3, <2>4, <2>5, <2>6, <2>7 DEF MergeNext
<1>3. MInv => MergedIsCurrent
  BY DEF MInv
<1> QED BY <1>1, <1>2, <1>3, PTL DEF MergeSpec

-----------------------------------------------------------------------------
(* BranchTracker: the invariant says what a history holds of the recorded     *)
(* branches while they are recorded.                                          *)

\* what test1.c's branch records in run r
Branch(r) == IF secret[r] > 0 THEN 1 ELSE 0

TrackerType ==
  /\ at \in {"reset", "run", "assert", "done"}
  /\ driver \in {"test1", "mbedtls"}
  /\ secret \in [TrackedRun -> Int]
  /\ program_run \in {0} \cup TrackedRun /\ (at # "reset" => program_run \in TrackedRun)
  /\ history \in [TrackedRun -> [Slot -> Int]]
  /\ index \in [TrackedRun -> 0..MaxVisits]
  /\ hits \in [TrackedRun -> Seq({0, 1})]

\* a history holds the first visits, and -1 behind them
HistoryInv ==
  IF at = "reset" THEN \A r \in TrackedRun : hits[r] = << >>
  ELSE \A r \in TrackedRun :
         /\ index[r] = IF Len(hits[r]) < MaxVisits THEN Len(hits[r]) ELSE MaxVisits
         /\ \A k \in Slot : history[r][k] = IF k < index[r] THEN hits[r][k + 1] ELSE -1

\* test1.c records one branch in each run
TestInv ==
  driver = "test1" =>
    /\ at = "run" => /\ hits[program_run] = << >>
                     /\ program_run = 2 => hits[1] = <<Branch(1)>>
                     /\ program_run = 1 => hits[2] = << >>
    /\ at \in {"assert", "done"} => \A r \in TrackedRun : hits[r] = <<Branch(r)>>

EqualInv == at = "done" => equal = branch_histories_equal

BInv == TrackerType /\ HistoryInv /\ TestInv /\ EqualInv

\* The initial state of main().
LEMMA TrackerInitInv == TrackerInit => BInv
<1> SUFFICES ASSUME TrackerInit PROVE BInv
  OBVIOUS
<1>1. secret \in [TrackedRun -> Int]
  BY DEF TrackerInit
<1>2. history \in [TrackedRun -> [Slot -> Int]] /\ index \in [TrackedRun -> 0..MaxVisits]
  BY TrackerAssumption DEF TrackerInit
<1>3. hits \in [TrackedRun -> Seq({0, 1})]
  BY DEF TrackerInit
<1>4. TrackerType
  BY <1>1, <1>2, <1>3 DEF TrackerInit, TrackerType
<1>5. HistoryInv /\ TestInv /\ EqualInv
  BY DEF TrackerInit, HistoryInv, TestInv, EqualInv
<1> QED BY <1>4, <1>5 DEF BInv

\* Recording a branch keeps the histories in step with what was recorded.
LEMMA RecordInv ==
  ASSUME TrackerType, HistoryInv, at = "run", NEW value \in {0, 1}, Record(value)
  PROVE  /\ history' \in [TrackedRun -> [Slot -> Int]]
         /\ index' \in [TrackedRun -> 0..MaxVisits]
         /\ hits' \in [TrackedRun -> Seq({0, 1})]
         /\ hits'[program_run] = Append(hits[program_run], value)
         /\ \A r \in TrackedRun : r # program_run => hits'[r] = hits[r]
         /\ \A r \in TrackedRun :
              /\ index'[r] = IF Len(hits'[r]) < MaxVisits THEN Len(hits'[r]) ELSE MaxVisits
              /\ \A k \in Slot : history'[r][k] = IF k < index'[r] THEN hits'[r][k + 1] ELSE -1
<1> DEFINE p == program_run
<1>0. /\ p \in TrackedRun /\ hits[p] \in Seq({0, 1}) /\ Len(hits[p]) \in Nat
      /\ index[p] \in 0..MaxVisits /\ MaxVisits \in Nat /\ MaxVisits > 0
  BY TrackerAssumption DEF TrackerType
<1>1. hits' = [hits EXCEPT ![p] = Append(hits[p], value)] /\ Append(hits[p], value) \in Seq({0, 1})
  BY <1>0 DEF Record
<1>2. /\ hits' \in [TrackedRun -> Seq({0, 1})]
      /\ hits'[p] = Append(hits[p], value)
      /\ \A r \in TrackedRun : r # p => hits'[r] = hits[r]
  BY <1>0, <1>1 DEF TrackerType
<1>3. /\ Len(hits'[p]) = Len(hits[p]) + 1 /\ hits'[p][Len(hits[p]) + 1] = value
      /\ \A i \in 1..Len(hits[p]) : hits'[p][i] = hits[p][i]
  BY <1>0, <1>2
<1>4. /\ index[p] = IF Len(hits[p]) < MaxVisits THEN Len(hits[p]) ELSE MaxVisits
      /\ \A k \in Slot : history[p][k] = IF k < index[p] THEN hits[p][k + 1] ELSE -1
  BY <1>0 DEF HistoryInv
<1>5. CASE index[p] < MaxVisits
  <2>1. index[p] = Len(hits[p]) /\ index[p] \in Slot
    BY <1>0, <1>4, <1>5 DEF Slot
  <2>2. history' = [history EXCEPT ![p][index[p]] = value] /\ index' = [index EXCEPT ![p] = index[p] + 1]
    BY <1>5 DEF Record, record_branch_hit
  <2>3. index[p] + 1 \in 0..MaxVisits /\ value \in Int
    BY <1>0, <1>5
  <2>4. history' \in [TrackedRun -> [Slot -> Int]] /\ index' \in [TrackedRun -> 0..MaxVisits]
    BY <1>0, <2>1, <2>2, <2>3 DEF TrackerType
  <2>5. /\ history'[p][index[p]] = value /\ \A k \in Slot : k # index[p] => history'[p][k] = history[p][k]
        /\ \A r \in TrackedRun : r # p => history'[r] = history[r] /\ index'[r] = index[r]
        /\ index'[p] = index[p] + 1
    BY <1>0, <2>1, <2>2 DEF TrackerType
  <2>6. index'[p] = IF Len(hits'[p]) < MaxVisits THEN Len(hits'[p]) ELSE MaxVisits
    BY <1>0, <1>3, <1>5, <2>1, <2>5
  <2>7. ASSUME NEW k \in Slot
        PROVE  history'[p][k] = IF k < index'[p] THEN hits'[p][k + 1] ELSE -1
    <3>0. k \in Nat
      BY <1>0 DEF Slot
    <3>1. CASE k = index[p]
      BY <1>0, <1>3, <2>1, <2>5, <3>1
    <3>2. CASE k < index[p]
      <4>1. k + 1 \in 1..Len(hits[p]) /\ k # index[p] /\ k < index'[p]
        BY <1>0, <2>1, <2>5, <3>0, <3>2
      <4>2. QED
        BY <1>3, <1>4, <2>5, <3>2, <4>1
    <3>3. CASE k > index[p]
      <4>1. k # index[p] /\ ~ (k < index[p]) /\ ~ (k < index'[p])
        BY <1>0, <2>5, <3>0, <3>3
      <4>2. QED
        BY <1>4, <2>5, <4>1
    <3>4. QED
      BY <1>0, <3>0, <3>1, <3>2, <3>3
  <2>8. ASSUME NEW r \in TrackedRun, r # p
        PROVE  /\ index'[r] = IF Len(hits'[r]) < MaxVisits THEN Len(hits'[r]) ELSE MaxVisits
               /\ \A k \in Slot : history'[r][k] = IF k < index'[r] THEN hits'[r][k + 1] ELSE -1
    <3>1. hits'[r] = hits[r] /\ history'[r] = history[r] /\ index'[r] = index[r]
      BY <1>2, <2>5, <2>8
    <3>2. /\ index[r] = IF Len(hits[r]) < MaxVisits THEN Len(hits[r]) ELSE MaxVisits
          /\ \A k \in Slot : history[r][k] = IF k < index[r] THEN hits[r][k + 1] ELSE -1
      BY DEF HistoryInv
    <3>3. QED
      BY <3>1, <3>2
  <2>9. \A r \in TrackedRun :
          /\ index'[r] = IF Len(hits'[r]) < MaxVisits THEN Len(hits'[r]) ELSE MaxVisits
          /\ \A k \in Slot : history'[r][k] = IF k < index'[r] THEN hits'[r][k + 1] ELSE -1
    BY <2>6, <2>7, <2>8
  <2>10. QED
    BY <1>2, <2>4, <2>9
<1>6. CASE ~ (index[p] < MaxVisits)
  <2>1. history' = history /\ index' = index /\ index[p] = MaxVisits /\ Len(hits[p]) >= MaxVisits
    BY <1>0, <1>4, <1>6 DEF Record, record_branch_hit
  <2>2. \A k \in Slot : k < MaxVisits /\ k + 1 \in 1..Len(hits[p])
    BY <1>0, <2>1 DEF Slot
  <2>3. \A k \in Slot : history'[p][k] = IF k < index'[p] THEN hits'[p][k + 1] ELSE -1
    BY <1>3, <1>4, <2>1, <2>2
  <2>4. index'[p] = IF Len(hits'[p]) < MaxVisits THEN Len(hits'[p]) ELSE MaxVisits
    BY <1>0, <1>3, <2>1
  <2>5. QED
    BY <1>2, <2>1, <2>3, <2>4 DEF HistoryInv, TrackerType
<1>7. QED
  BY <1>5, <1>6

\* Every step of the drivers keeps the invariant.
LEMMA TrackerNextInv == BInv /\ [TrackerNext]_trackerVars => BInv'
<1> SUFFICES ASSUME BInv, [TrackerNext]_trackerVars PROVE BInv'
  OBVIOUS
<1>0. TrackerType /\ HistoryInv /\ TestInv /\ EqualInv
  BY DEF BInv
<1>1. CASE Reset
  <2>1. /\ at = "reset" /\ at' = "run" /\ program_run' = 1 /\ UNCHANGED <<driver, secret, hits, equal>>
        /\ history' = [r \in TrackedRun |-> [k \in Slot |-> -1]] /\ index' = [r \in TrackedRun |-> 0]
    BY <1>1 DEF Reset, reset_branch_history
  <2>2. \A r \in TrackedRun : hits[r] = << >> /\ Len(hits[r]) = 0
    BY <1>0, <2>1 DEF HistoryInv
  <2>3. history' \in [TrackedRun -> [Slot -> Int]] /\ index' \in [TrackedRun -> 0..MaxVisits]
    BY <2>1, TrackerAssumption
  <2>4. TrackerType'
    BY <1>0, <2>1, <2>3 DEF TrackerType, TrackedRun
  <2>5. HistoryInv'
    <3>1. \A r \in TrackedRun : index'[r] = 0 /\ \A k \in Slot : history'[r][k] = -1 /\ ~ (k < 0)
      BY <2>1 DEF Slot
    <3>2. QED
      BY <2>1, <2>2, <3>1, TrackerAssumption DEF HistoryInv
  <2>6. TestInv' /\ EqualInv'
    BY <2>1, <2>2 DEF TestInv, EqualInv, TrackedRun
  <2>7. QED
    BY <2>4, <2>5, <2>6 DEF BInv
<1>2. CASE TestBranch
  <2>1. driver = "test1" /\ at = "run" /\ Record(Branch(program_run)) /\ NextRun
    BY <1>2 DEF TestBranch, Branch
  <2>2. Branch(program_run) \in {0, 1}
    BY DEF Branch
  <2>3. /\ program_run \in TrackedRun /\ UNCHANGED <<driver, secret, equal>>
        /\ (program_run = 1 /\ program_run' = 2 /\ at' = "run") \/ (program_run = 2 /\ program_run' = 2 /\ at' = "assert")
    BY <1>0, <2>1 DEF TrackerType, Record, NextRun, TrackedRun
  <2>4. /\ history' \in [TrackedRun -> [Slot -> Int]]
        /\ index' \in [TrackedRun -> 0..MaxVisits]
        /\ hits' \in [TrackedRun -> Seq({0, 1})]
        /\ hits'[program_run] = Append(hits[program_run], Branch(program_run))
        /\ \A r \in TrackedRun : r # program_run => hits'[r] = hits[r]
        /\ \A r \in TrackedRun :
             /\ index'[r] = IF Len(hits'[r]) < MaxVisits THEN Len(hits'[r]) ELSE MaxVisits
             /\ \A k \in Slot : history'[r][k] = IF k < index'[r] THEN hits'[r][k + 1] ELSE -1
    BY <1>0, <2>1, <2>2, RecordInv
  <2>5. hits'[program_run] = <<Branch(program_run)>>
    <3>1. hits[program_run] = << >>
      BY <1>0, <2>1 DEF TestInv
    <3>2. QED
      BY <2>4, <3>1
  <2>6. TrackerType'
    BY <1>0, <2>3, <2>4 DEF TrackerType, TrackedRun
  <2>7. HistoryInv'
    BY <2>3, <2>4 DEF HistoryInv
  <2>8. \A r : Branch(r)' = Branch(r)
    BY <2>3 DEF Branch
  <2>9. TestInv'
    <3>1. CASE program_run = 1
      BY <1>0, <2>1, <2>3, <2>4, <2>5, <2>8, <3>1 DEF TestInv, TrackedRun
    <3>2. CASE program_run = 2
      BY <1>0, <2>1, <2>3, <2>4, <2>5, <2>8, <3>2 DEF TestInv, TrackedRun
    <3>3. QED
      BY <2>3, <3>1, <3>2
  <2>10. QED
    BY <2>3, <2>6, <2>7, <2>9 DEF BInv, EqualInv
<1>3. CASE ExpModBranch
  <2>1. PICK value \in {0, 1} : Record(value)
    BY <1>3 DEF ExpModBranch
  <2>2. driver = "mbedtls" /\ at = "run" /\ UNCHANGED <<at, program_run, driver, secret, equal>>
    BY <1>3, <2>1 DEF ExpModBranch, Record
  <2>3. /\ history' \in [TrackedRun -> [Slot -> Int]]
        /\ index' \in [TrackedRun -> 0..MaxVisits]
        /\ hits' \in [TrackedRun -> Seq({0, 1})]
        /\ \A r \in TrackedRun :
             /\ index'[r] = IF Len(hits'[r]) < MaxVisits THEN Len(hits'[r]) ELSE MaxVisits
             /\ \A k \in Slot : history'[r][k] = IF k < index'[r] THEN hits'[r][k + 1] ELSE -1
    BY <1>0, <2>1, <2>2, RecordInv
  <2>4. QED
    BY <1>0, <2>2, <2>3 DEF BInv, TrackerType, HistoryInv, TestInv, EqualInv
<1>4. CASE ExpModReturns
  <2>1. driver = "mbedtls" /\ at = "run" /\ UNCHANGED <<driver, secret, history, index, hits, equal>>
    BY <1>4 DEF ExpModReturns
  <2>2. program_run \in TrackedRun /\ program_run' \in TrackedRun /\ at' \in {"run", "assert"}
    BY <1>0, <1>4, <2>1 DEF ExpModReturns, NextRun, TrackerType, TrackedRun
  <2>3. QED
    BY <1>0, <2>1, <2>2 DEF BInv, TrackerType, HistoryInv, TestInv, EqualInv
<1>5. CASE AssertEqual
  <2>1. /\ at = "assert" /\ at' = "done" /\ equal' = branch_histories_equal
        /\ UNCHANGED <<driver, secret, program_run, history, index, hits>>
    BY <1>5 DEF AssertEqual
  <2>2. equal' = branch_histories_equal'
    BY <2>1 DEF branch_histories_equal
  <2>3. QED
    BY <1>0, <2>1, <2>2 DEF BInv, TrackerType, HistoryInv, TestInv, EqualInv, Branch
<1>6. CASE UNCHANGED trackerVars
  BY <1>0, <1>6 DEF trackerVars, BInv, TrackerType, HistoryInv, TestInv, EqualInv, Branch,
       branch_histories_equal
<1>7. QED
  BY <1>1, <1>2, <1>3, <1>4, <1>5, <1>6 DEF TrackerNext

\* When both histories are compared, they are equal slot by slot exactly when
\* the runs agree on the branches that fit: a longer run shows a 0 or 1 where
\* the shorter one has kept its -1.
LEMMA HistoriesAreVisits ==
  ASSUME TrackerType, HistoryInv, at # "reset"
  PROVE  (\A i \in Slot : history[1][i] = history[2][i]) <=> FirstVisits(1) = FirstVisits(2)
<1> DEFINE n(r) == IF Len(hits[r]) < MaxVisits THEN Len(hits[r]) ELSE MaxVisits
<1>0. ASSUME NEW r \in TrackedRun
      PROVE  /\ hits[r] \in Seq({0, 1}) /\ Len(hits[r]) \in Nat /\ n(r) \in Nat
             /\ n(r) <= Len(hits[r]) /\ n(r) <= MaxVisits
             /\ \A k \in Slot : history[r][k] = IF k < n(r) THEN hits[r][k + 1] ELSE -1
  <2>1. hits[r] \in Seq({0, 1})
    BY DEF TrackerType
  <2>2. Len(hits[r]) \in Nat
    BY <2>1
  <2>3. /\ index[r] = n(r)
        /\ \A k \in Slot : history[r][k] = IF k < index[r] THEN hits[r][k + 1] ELSE -1
    BY DEF HistoryInv
  <2>4. QED
    BY <2>1, <2>2, <2>3, TrackerAssumption
<1>1. ASSUME NEW r \in TrackedRun
      PROVE  /\ FirstVisits(r) \in Seq({0, 1}) /\ Len(FirstVisits(r)) = n(r)
             /\ \A i \in 1..n(r) : FirstVisits(r)[i] = hits[r][i] /\ hits[r][i] \in {0, 1}
  <2>1. 1 \in 1..(Len(hits[r]) + 1) /\ n(r) \in (1 - 1)..Len(hits[r])
    BY <1>0
  <2>2. /\ SubSeq(hits[r], 1, n(r)) \in Seq({0, 1})
        /\ Len(SubSeq(hits[r], 1, n(r))) = n(r) - 1 + 1
        /\ \A i \in 1..(n(r) - 1 + 1) : SubSeq(hits[r], 1, n(r))[i] = hits[r][1 + i - 1]
    BY <1>0, <2>1, SubSeqProperties
  <2>3. n(r) - 1 + 1 = n(r) /\ \A i \in 1..n(r) : 1 + i - 1 = i /\ i \in 1..Len(hits[r])
    BY <1>0
  <2>4. \A i \in 1..Len(hits[r]) : hits[r][i] \in {0, 1}
    BY <1>0
  <2>5. QED
    BY <2>2, <2>3, <2>4 DEF FirstVisits
<1>2. 1 \in TrackedRun /\ 2 \in TrackedRun /\ MaxVisits \in Nat
  BY TrackerAssumption DEF TrackedRun
<1> HIDE DEF n
<1>3. ASSUME \A i \in Slot : history[1][i] = history[2][i]
      PROVE  FirstVisits(1) = FirstVisits(2)
  <2>1. ASSUME NEW r \in TrackedRun, NEW t \in TrackedRun, n(r) < n(t),
               \A i \in Slot : history[r][i] = history[t][i]
        PROVE  FALSE
    <3>1. n(r) \in Slot /\ n(r) + 1 \in 1..n(t)
      BY <1>0, <1>2, <2>1 DEF Slot
    <3>2. history[r][n(r)] = -1 /\ history[t][n(r)] = hits[t][n(r) + 1]
      BY <1>0, <2>1, <3>1
    <3>3. hits[t][n(r) + 1] \in {0, 1}
      BY <1>1, <3>1
    <3>4. QED
      BY <2>1, <3>1, <3>2, <3>3
  <2>2. n(1) = n(2)
    BY <1>0, <1>2, <1>3, <2>1
  <2>3. ASSUME NEW i \in 1..n(1)
        PROVE  FirstVisits(1)[i] = FirstVisits(2)[i]
    <3>1. i - 1 \in Slot /\ i - 1 < n(1) /\ (i - 1) + 1 = i
      BY <1>0, <1>2 DEF Slot
    <3>2. history[1][i - 1] = hits[1][i] /\ history[2][i - 1] = hits[2][i]
      BY <1>0, <1>2, <2>2, <3>1
    <3>3. QED
      BY <1>1, <1>2, <1>3, <2>2, <3>1, <3>2
  <2>4. QED
    BY <1>1, <1>2, <2>2, <2>3, SeqEqual
<1>4. ASSUME FirstVisits(1) = FirstVisits(2), NEW i \in Slot
      PROVE  history[1][i] = history[2][i]
  <2>1. n(1) = n(2)
    BY <1>1, <1>2, <1>4
  <2>2. i \in Nat
    BY <1>2 DEF Slot
  <2>3. CASE i < n(1)
    <3>1. i + 1 \in 1..n(1)
      BY <1>0, <1>2, <2>2, <2>3
    <3>2. hits[1][i + 1] = hits[2][i + 1]
      BY <1>1, <1>2, <1>4, <2>1, <3>1
    <3>3. QED
      BY <1>0, <1>2, <2>1, <2>3, <3>2
  <2>4. CASE ~ (i < n(1))
    BY <1>0, <1>2, <2>1, <2>4
  <2>5. QED
    BY <2>3, <2>4
<1>5. QED
  BY <1>3, <1>4

\* The invariant gives the verdict.
LEMMA TrackerVerdictInv == BInv => TrackerVerdict
<1> SUFFICES ASSUME BInv, at = "done" PROVE /\ equal = 1 <=> FirstVisits(1) = FirstVisits(2)
                                            /\ driver = "test1" => (equal = 1 <=> (secret[1] > 0 <=> secret[2] > 0))
  BY DEF TrackerVerdict
<1>0. TrackerType /\ HistoryInv /\ TestInv /\ EqualInv
  BY DEF BInv
<1>1. equal = 1 <=> \A i \in Slot : history[1][i] = history[2][i]
  BY <1>0 DEF EqualInv, branch_histories_equal
<1>2. (\A i \in Slot : history[1][i] = history[2][i]) <=> FirstVisits(1) = FirstVisits(2)
  BY <1>0, HistoriesAreVisits
<1>3. ASSUME driver = "test1"
      PROVE  equal = 1 <=> (secret[1] > 0 <=> secret[2] > 0)
  <2>1. hits[1] = <<Branch(1)>> /\ hits[2] = <<Branch(2)>>
    BY <1>0, <1>3 DEF TestInv, TrackedRun
  <2>2. ASSUME NEW r \in TrackedRun PROVE FirstVisits(r) = <<Branch(r)>>
    <3>1. hits[r] = <<Branch(r)>> /\ Len(hits[r]) = 1
      BY <2>1 DEF TrackedRun
    <3>2. FirstVisits(r) = SubSeq(hits[r], 1, 1)
      BY <3>1, TrackerAssumption DEF FirstVisits
    <3>3. <<Branch(r)>> \in Seq({0, 1}) /\ Len(<<Branch(r)>>) = 1 /\ 1 \in 1..2 /\ 1 \in 0..1
      BY DEF Branch
    <3>4. /\ SubSeq(hits[r], 1, 1) \in Seq({0, 1}) /\ Len(SubSeq(hits[r], 1, 1)) = 1
          /\ SubSeq(hits[r], 1, 1)[1] = hits[r][1]
      BY <3>1, <3>3, SubSeqProperties
    <3>5. hits[r][1] = Branch(r) /\ <<Branch(r)>>[1] = Branch(r)
      BY <3>1
    <3>6. \A i \in 1..1 : SubSeq(hits[r], 1, 1)[i] = <<Branch(r)>>[i]
      BY <3>4, <3>5
    <3>7. SubSeq(hits[r], 1, 1) = <<Branch(r)>>
      BY <3>3, <3>4, <3>6, SeqEqual
    <3>8. QED
      BY <3>2, <3>7
  <2>3. FirstVisits(1) = FirstVisits(2) <=> Branch(1) = Branch(2)
    BY <2>2 DEF TrackedRun
  <2>4. Branch(1) = Branch(2) <=> (secret[1] > 0 <=> secret[2] > 0)
    BY DEF Branch
  <2>5. QED
    BY <1>1, <1>2, <2>3, <2>4
<1>4. QED
  BY <1>1, <1>2, <1>3

(* For every MAX_BRANCH_VISITS, every pair of secrets and every sequence of      *)
(* branches inside mbedtls_mpi_exp_mod, the assertion of the drivers compares    *)
(* exactly the branches that fit into the histories (record_branch_hit,          *)
(* branch_histories_equal).                                                      *)
THEOREM TrackerCorrect == TrackerSpec => []TrackerVerdict
<1>1. TrackerInit => BInv
  BY TrackerInitInv
<1>2. BInv /\ [TrackerNext]_trackerVars => BInv'
  BY TrackerNextInv
<1>3. BInv => TrackerVerdict
  BY TrackerVerdictInv
<1>4. QED
  BY <1>1, <1>2, <1>3, PTL DEF TrackerSpec

-----------------------------------------------------------------------------
(* ReplayTrace: the invariant says where in a trace file each executed        *)
(* instruction is, and that the comparison, which knows lines only, is        *)
(* always at the same instruction of both executions.                         *)

TraceLine == [kind : {"I", "R", "W"}, ip : Nat, at : {NoOperand} \cup (STRING \X Int)]

LinesOf(i) == 1 + Len(i.ops)

\* file t holds the first n instructions of x, the k-th of them up to line f[k]
Laid(f, x, n, t) ==
  /\ f \in [0..n -> Nat] /\ f[0] = 0 /\ f[n] = Len(t)
  /\ \A k \in 1..n :
       /\ f[k] = f[k - 1] + LinesOf(x[k]) /\ f[k] <= Len(t)
       /\ t[f[k - 1] + 1] = InstructionLine(x[k])
       /\ \A m \in 1..Len(x[k].ops) : t[f[k - 1] + 1 + m] = AccessLine(x[k], m)

\* The fields of an instruction and of its lines.
LEMMA InstructionParts ==
  ASSUME NEW i \in Instruction
  PROVE  /\ i.ip \in Nat /\ i.ip # None /\ i.ops \in Seq(Access) /\ Len(i.ops) \in Nat
         /\ InstructionLine(i) \in TraceLine
         /\ InstructionLine(i).kind = "I" /\ InstructionLine(i).ip = i.ip
<1>1. i.ip \in Nat /\ i.ip # None /\ i.ops \in Seq(Access)
  BY DEF Instruction
<1> QED BY <1>1 DEF InstructionLine, TraceLine

\* An access line has the address of its instruction and the kind of its access.
LEMMA AccessParts ==
  ASSUME NEW i \in Instruction, NEW m \in 1..Len(i.ops)
  PROVE  /\ AccessLine(i, m) \in TraceLine
         /\ AccessLine(i, m).kind \in {"R", "W"} /\ AccessLine(i, m).ip = i.ip
<1>1. i.ip \in Nat /\ i.ops \in Seq(Access)
  BY InstructionParts
<1>2. i.ops[m] \in Access
  BY <1>1
<1>3. i.ops[m].kind \in {"R", "W"} /\ i.ops[m].at \in STRING \X Int
  BY <1>2 DEF Access
<1> QED BY <1>1, <1>3 DEF AccessLine, TraceLine

\* What the tracer writes for one instruction.
LEMMA RecordedIs ==
  ASSUME NEW i \in Instruction
  PROVE  /\ Recorded(i) \in Seq(TraceLine) /\ Len(Recorded(i)) = LinesOf(i)
         /\ Recorded(i)[1] = InstructionLine(i)
         /\ \A m \in 1..Len(i.ops) : Recorded(i)[1 + m] = AccessLine(i, m)
<1> DEFINE n == Len(i.ops)
           one == <<InstructionLine(i)>>
           acc == [m \in 1..n |-> AccessLine(i, m)]
<1>1. n \in Nat /\ InstructionLine(i) \in TraceLine
  BY InstructionParts
<1>2. \A m \in 1..n : AccessLine(i, m) \in TraceLine
  BY AccessParts
<1> HIDE DEF n
<1>3. acc \in [1..n -> TraceLine]
  BY <1>2
<1>4. acc \in Seq(TraceLine) /\ Len(acc) = n
  BY <1>1, <1>3
<1>5. one \in Seq(TraceLine) /\ Len(one) = 1 /\ one[1] = InstructionLine(i)
  BY <1>1
<1>6. \A m \in 1..n : acc[m] = AccessLine(i, m)
  OBVIOUS
<1>7. Recorded(i) = one \o acc
  BY DEF Recorded, n
<1> HIDE DEF one, acc
<1>11. /\ one \o acc \in Seq(TraceLine) /\ Len(one \o acc) = Len(one) + Len(acc)
       /\ \A j \in 1..(Len(one) + Len(acc)) :
            (one \o acc)[j] = IF j <= Len(one) THEN one[j] ELSE acc[j - Len(one)]
  BY <1>4, <1>5, ConcatProperties
<1>8. /\ one \o acc \in Seq(TraceLine) /\ Len(one \o acc) = 1 + n
      /\ \A j \in 1..(1 + n) : (one \o acc)[j] = IF j <= 1 THEN one[j] ELSE acc[j - 1]
  BY <1>4, <1>5, <1>11, Zenon
<1>9. (one \o acc)[1] = InstructionLine(i)
  BY <1>1, <1>5, <1>8
<1>10. \A m \in 1..n : (one \o acc)[1 + m] = AccessLine(i, m)
  <2> SUFFICES ASSUME NEW m \in 1..n PROVE (one \o acc)[1 + m] = acc[m]
    BY <1>6
  <2>1. 1 + m \in 1..(1 + n) /\ ~ (1 + m <= 1) /\ (1 + m) - 1 = m
    BY <1>1
  <2> QED BY <1>8, <2>1
<1> QED BY <1>7, <1>8, <1>9, <1>10 DEF LinesOf, n

\* what it writes at the end of a file
LEMMA RecordedLines ==
  ASSUME NEW i \in Instruction, NEW t \in Seq(TraceLine)
  PROVE  /\ t \o Recorded(i) \in Seq(TraceLine)
         /\ Len(t \o Recorded(i)) = Len(t) + LinesOf(i)
         /\ \A j \in 1..Len(t) : (t \o Recorded(i))[j] = t[j]
         /\ (t \o Recorded(i))[Len(t) + 1] = InstructionLine(i)
         /\ \A m \in 1..Len(i.ops) : (t \o Recorded(i))[Len(t) + 1 + m] = AccessLine(i, m)
<1> DEFINE r == Recorded(i)
           n == Len(i.ops)
<1>1. /\ r \in Seq(TraceLine) /\ Len(r) = 1 + n
      /\ r[1] = InstructionLine(i)
      /\ \A m \in 1..n : r[1 + m] = AccessLine(i, m)
  BY RecordedIs DEF LinesOf
<1>2. n \in Nat /\ Len(t) \in Nat
  BY InstructionParts
<1> HIDE DEF r, n
<1>7. /\ t \o r \in Seq(TraceLine) /\ Len(t \o r) = Len(t) + Len(r)
      /\ \A j \in 1..(Len(t) + Len(r)) :
           (t \o r)[j] = IF j <= Len(t) THEN t[j] ELSE r[j - Len(t)]
  BY <1>1, ConcatProperties
<1>8. Len(t) + Len(r) = Len(t) + 1 + n
  BY <1>1, <1>2
<1>3. /\ t \o r \in Seq(TraceLine) /\ Len(t \o r) = Len(t) + 1 + n
      /\ \A j \in 1..(Len(t) + 1 + n) :
           (t \o r)[j] = IF j <= Len(t) THEN t[j] ELSE r[j - Len(t)]
  BY <1>7, <1>8, Zenon
<1>4. \A j \in 1..Len(t) : (t \o r)[j] = t[j]
  BY <1>2, <1>3
<1>5. (t \o r)[Len(t) + 1] = r[1]
  <2>1. /\ Len(t) + 1 \in 1..(Len(t) + 1 + n) /\ ~ (Len(t) + 1 <= Len(t))
        /\ Len(t) + 1 - Len(t) = 1
    BY <1>2
  <2> QED BY <1>3, <2>1
<1>6. \A m \in 1..n : (t \o r)[Len(t) + 1 + m] = r[1 + m]
  <2> SUFFICES ASSUME NEW m \in 1..n PROVE (t \o r)[Len(t) + 1 + m] = r[1 + m]
    OBVIOUS
  <2>1. /\ Len(t) + 1 + m \in 1..(Len(t) + 1 + n) /\ ~ (Len(t) + 1 + m <= Len(t))
        /\ Len(t) + 1 + m - Len(t) = 1 + m
    BY <1>2
  <2> QED BY <1>3, <2>1
<1>9. Len(t \o r) = Len(t) + (1 + n)
  BY <1>2, <1>3
<1>10. \A m \in 1..n : (t \o r)[Len(t) + 1 + m] = AccessLine(i, m)
  BY <1>1, <1>6, Zenon
<1>11. (t \o r)[Len(t) + 1] = InstructionLine(i)
  BY <1>1, <1>5
<1> QED BY <1>3, <1>4, <1>9, <1>10, <1>11, Zenon DEF LinesOf, r, n

\* Sums may be reordered.
LEMMA SumOrder ==
  \A a, n \in Nat : a + (1 + n) = a + 1 + n /\ a + 1 + n + 1 = a + 1 + (n + 1)
  OBVIOUS

\* The n accesses of an instruction are the lines after its own.
LEMMA Positions ==
  ASSUME NEW a \in Nat, NEW n \in Nat, NEW b, NEW l \in Nat, b = a + (1 + n), b <= l
  PROVE  /\ b = a + 1 + n /\ a < l /\ a + 1 \in 1..l /\ b \in Nat
         /\ \A m \in 1..n : a + 1 + m \in 1..l
         /\ \A m \in Nat : m < n => /\ m + 1 \in 1..n /\ a + 1 + m < l
                                     /\ a + 1 + m + 1 = a + 1 + (m + 1)
  OBVIOUS

\* an empty file holds nothing yet
LEMMA LaidNothing == ASSUME NEW x PROVE \E f : Laid(f, x, 0, << >>)
<1> DEFINE f == [k \in 0..0 |-> 0]
<1>1. Laid(f, x, 0, << >>)
  BY DEF Laid
<1> QED BY <1>1, Zenon

\* Recording one more instruction extends the layout of the file.
LEMMA LaidOneMore ==
  ASSUME NEW x \in Seq(Instruction), NEW n \in Nat, n < Len(x),
         NEW t \in Seq(TraceLine), NEW f, Laid(f, x, n, t)
  PROVE  \E g : Laid(g, x, n + 1, t \o Recorded(x[n + 1]))
<1> DEFINE i == x[n + 1]
           u == t \o Recorded(i)
           g == [k \in 0..(n + 1) |-> IF k = n + 1 THEN Len(u) ELSE f[k]]
<1>1. i \in Instruction
  OBVIOUS
<1>2. /\ u \in Seq(TraceLine)
      /\ Len(u) = Len(t) + LinesOf(i)
      /\ \A j \in 1..Len(t) : u[j] = t[j]
      /\ u[Len(t) + 1] = InstructionLine(i)
      /\ \A m \in 1..Len(i.ops) : u[Len(t) + 1 + m] = AccessLine(i, m)
  BY <1>1, RecordedLines
<1>3. Len(i.ops) \in Nat /\ \A k \in 1..n : Len(x[k].ops) \in Nat
  <2>1. \A k \in 1..n : x[k] \in Instruction
    OBVIOUS
  <2> QED BY <1>1, <2>1, InstructionParts
<1>4. f \in [0..n -> Nat] /\ f[0] = 0 /\ f[n] = Len(t)
  BY DEF Laid
<1>10. ASSUME NEW k \in 1..n
       PROVE  /\ f[k] = f[k - 1] + LinesOf(x[k]) /\ f[k] <= Len(t)
              /\ t[f[k - 1] + 1] = InstructionLine(x[k])
              /\ \A m \in 1..Len(x[k].ops) : t[f[k - 1] + 1 + m] = AccessLine(x[k], m)
  BY DEF Laid
<1>5. Len(u) \in Nat /\ Len(t) \in Nat
  BY <1>2
<1> HIDE DEF u, i
<1>6. g \in [0..(n + 1) -> Nat] /\ g[0] = 0 /\ g[n + 1] = Len(u)
  BY <1>4, <1>5
<1>7. \A k \in 0..n : g[k] = f[k]
  OBVIOUS
<1>8. ASSUME NEW k \in 1..(n + 1)
      PROVE  /\ g[k] = g[k - 1] + LinesOf(x[k]) /\ g[k] <= Len(u)
             /\ u[g[k - 1] + 1] = InstructionLine(x[k])
             /\ \A m \in 1..Len(x[k].ops) : u[g[k - 1] + 1 + m] = AccessLine(x[k], m)
  <2>1. CASE k = n + 1
    <3>1. g[k - 1] = Len(t) /\ g[k] = Len(u) /\ x[k] = i
      BY <2>1, <1>4, <1>6, <1>7 DEF i
    <3> HIDE DEF g
    <3> QED BY <3>1, <1>2, <1>5
  <2>2. CASE k \in 1..n
    <3>1. g[k - 1] = f[k - 1] /\ g[k] = f[k]
      BY <2>2, <1>7
    <3>9. f[k - 1] \in Nat /\ Len(x[k].ops) \in Nat
      BY <2>2, <1>3, <1>4
    <3>2. f[k] = f[k - 1] + LinesOf(x[k]) /\ f[k] <= Len(t)
      BY <2>2, <1>10
    <3>3. /\ f[k - 1] + 1 \in 1..Len(t)
          /\ \A m \in 1..Len(x[k].ops) : f[k - 1] + 1 + m \in 1..Len(t)
      BY <1>5, <3>2, <3>9, Positions DEF LinesOf
    <3>4. /\ t[f[k - 1] + 1] = InstructionLine(x[k])
          /\ \A m \in 1..Len(x[k].ops) : t[f[k - 1] + 1 + m] = AccessLine(x[k], m)
      BY <2>2, <1>10
    <3>5. Len(t) <= Len(u)
      BY <1>2, <1>3, <1>5 DEF LinesOf
    <3> HIDE DEF g
    <3>6. g[k] = g[k - 1] + LinesOf(x[k]) /\ g[k] <= Len(u)
      BY <3>1, <3>2, <3>5, <1>4, <1>5, <2>2
    <3>7. u[f[k - 1] + 1] = t[f[k - 1] + 1]
      BY <3>3, <1>2
    <3>8. \A m \in 1..Len(x[k].ops) : u[f[k - 1] + 1 + m] = t[f[k - 1] + 1 + m]
      BY <3>3, <1>2
    <3> QED BY <3>1, <3>4, <3>6, <3>7, <3>8
  <2>3. k = n + 1 \/ k \in 1..n
    OBVIOUS
  <2> QED BY <2>1, <2>2, <2>3, Zenon
<1> HIDE DEF g
<1>9. Laid(g, x, n + 1, u)
  BY <1>6, <1>8 DEF Laid
<1> QED BY <1>9, Zenon DEF u, i

\* recent_ips always ends with the line read last
LEMMA RecentEnds ==
  ASSUME NEW s \in Seq(Nat), NEW ip \in Nat, NEW r,
         r = LET all == Append(s, ip) IN IF Len(all) > Lookback THEN Tail(all) ELSE all
  PROVE  r \in Seq(Nat) /\ r # << >> /\ r[Len(r)] = ip
<1> DEFINE all == Append(s, ip)
<1>1. all \in Seq(Nat) /\ Len(all) = Len(s) + 1 /\ all[Len(all)] = ip
  OBVIOUS
<1>2. CASE Len(all) > Lookback
  <2>1. Len(all) > 1
    BY <1>1, <1>2, ReplayAssumption
  <2>2. r = Tail(all)
    BY <1>2
  <2> HIDE DEF all
  <2>3. /\ Tail(all) \in Seq(Nat) /\ Len(Tail(all)) = Len(all) - 1
        /\ \A j \in 1..Len(Tail(all)) : Tail(all)[j] = all[j + 1]
    BY <1>1, <2>1, HeadTailProperties
  <2>4. Tail(all) # << >> /\ Tail(all)[Len(all) - 1] = all[Len(all)]
    BY <1>1, <2>1, <2>3
  <2> QED BY <1>1, <2>2, <2>3, <2>4
<1>3. CASE ~ (Len(all) > Lookback)
  BY <1>1, <1>3
<1> QED BY <1>2, <1>3

Replaying == phase \in {"run1", "run2", "compare", "judge"}

ReplayType ==
  /\ phase \in {"next", "run1", "run2", "compare", "judge", "failed", "done"}
  /\ prog \in DOMAIN Executions
  /\ pc \in Nat /\ recent \in Seq(Nat)
  /\ trace = <<trace[1], trace[2]>>
  /\ trace[1] \in Seq(TraceLine) /\ trace[2] \in Seq(TraceLine)
  /\ row \in 1..(NumRows + 1) /\ status = [k \in 1..NumRows |-> status[k]]

\* a row is judged or left out before the next one, and all of them before the results
\* are saved
RowInv ==
  /\ Replaying => row <= NumRows
  /\ saved => row > NumRows
  /\ \A k \in 1..NumRows : status[k] = "not_reproduced" <=> k \in untried \/ k >= row
  /\ untried \subseteq 1..(row - 1)
  /\ mode = "klee" => untried = {}

ExecInv ==
  Replaying =>
    /\ exec = <<exec[1], exec[2]>>
    /\ exec[1] \in Seq(Instruction) /\ exec[2] \in Seq(Instruction)
    /\ SameEntry(exec[1], exec[2])

\* the files while they are written
WritingInv ==
  /\ phase = "next" => pc = 0 /\ trace = << << >>, << >> >>
  /\ phase = "run1" =>
       /\ pc <= Len(exec[1]) /\ trace[2] = << >>
       /\ \E f : Laid(f, exec[1], pc, trace[1])
  /\ phase = "run2" =>
       /\ pc <= Len(exec[2])
       /\ \E f : Laid(f, exec[1], Len(exec[1]), trace[1])
       /\ \E g : Laid(g, exec[2], pc, trace[2])

\* k instructions were the same; the comparison is at the next one, or after m of its accesses
AtInstruction(k, f, g) ==
  /\ pc = f[k] /\ pc = g[k]
  /\ k > 0 => recent # << >> /\ recent[Len(recent)] = exec[1][k].ip

AtAccess(k, m, f, g) ==
  /\ k < Len(exec[1]) /\ k < Len(exec[2])
  /\ pc = f[k] + 1 + m /\ pc = g[k] + 1 + m
  /\ exec[1][k + 1].ip = exec[2][k + 1].ip
  /\ m <= Len(exec[1][k + 1].ops) /\ m <= Len(exec[2][k + 1].ops)
  /\ m < Len(exec[1][k + 1].ops) \/ m < Len(exec[2][k + 1].ops)
  /\ \A j \in 1..m : exec[1][k + 1].ops[j] = exec[2][k + 1].ops[j]

Compared(k, f, g) ==
  /\ k <= Len(exec[1]) /\ k <= Len(exec[2])
  /\ \A j \in 1..k : exec[1][j] = exec[2][j]
  /\ Laid(f, exec[1], Len(exec[1]), trace[1])
  /\ Laid(g, exec[2], Len(exec[2]), trace[2])
  /\ AtInstruction(k, f, g) \/ \E m \in Nat : AtAccess(k, m, f, g)

CompareInv ==
  /\ phase = "compare" => \E k \in Nat : \E f, g : Compared(k, f, g)
  /\ phase = "judge" => div.culprit # None

RInv ==
  /\ ReplayType /\ RowInv /\ ExecInv /\ WritingInv /\ CompareInv
  /\ CulpritLeaks /\ StatusMeans

\* The leak is a matter of the executions.
LEMMA LeakUnchanged ==
  ASSUME exec' = exec
  PROVE  FirstLeak' = FirstLeak /\ KindShown' = KindShown /\ (MissingFirst' <=> MissingFirst)
<1>1. FirstDifference' = FirstDifference
  BY DEF FirstDifference
<1>2. \A k : SameInstruction(k)' <=> SameInstruction(k)
  BY DEF SameInstruction
<1>3. FirstLeak' = FirstLeak
  BY <1>1, <1>2 DEF FirstLeak
<1>4. AccessMissing' <=> AccessMissing
  BY <1>1, <1>2 DEF AccessMissing
<1>5. KindShown' = KindShown
  BY <1>3, <1>4 DEF KindShown
<1> QED BY <1>1, <1>3, <1>4, <1>5 DEF MissingFirst

\* The invariant of the replay holds initially.
LEMMA ReplayInitInv == ReplayInit => RInv
<1> SUFFICES ASSUME ReplayInit PROVE RInv
  OBVIOUS
<1>1. status = [k \in 1..NumRows |-> status[k]]
  BY Zenon DEF ReplayInit
<1>2. ReplayType
  BY <1>1, ReplayAssumption DEF ReplayInit, ReplayType
<1>3. RowInv
  BY ReplayAssumption DEF ReplayInit, RowInv, Replaying
<1>4. ExecInv /\ CompareInv /\ CulpritLeaks
  BY DEF ReplayInit, ExecInv, CompareInv, CulpritLeaks, Replaying
<1>5. WritingInv
  BY DEF ReplayInit, WritingInv
<1>6. StatusMeans
  BY DEF ReplayInit, StatusMeans, JustJudged
<1> QED BY <1>2, <1>3, <1>4, <1>5, <1>6 DEF RInv

\* A row starts with two executions of one program and empty files.
LEMMA StartRowInv == RInv /\ StartRow => RInv'
<1> SUFFICES ASSUME RInv, StartRow PROVE RInv'
  OBVIOUS
<1> USE DEF RInv
<1>12. PICK w \in DOMAIN Executions[prog] :
         \E e1, e2 \in Executions[prog][w] : exec' = <<e1.code, e2.code>>
  BY DEF StartRow
<1>1. PICK e1 \in Executions[prog][w], e2 \in Executions[prog][w] :
        exec' = <<e1.code, e2.code>>
  BY <1>12
<1>2. /\ e1.code \in Seq(Instruction) /\ e2.code \in Seq(Instruction)
      /\ SameEntry(e1.code, e2.code)
  BY <1>1, ReplayAssumption DEF ReplayType
<1>3. exec'[1] = e1.code /\ exec'[2] = e2.code
  BY <1>1
<1>4. ReplayType'
  BY DEF StartRow, ReplayType
<1>5. RowInv'
  BY DEF StartRow, RowInv, Replaying
<1>6. ExecInv'
  BY <1>1, <1>2, <1>3 DEF ExecInv
<1>7. pc' = 0 /\ trace'[1] = << >> /\ trace'[2] = << >> /\ phase' = "run1"
  BY DEF StartRow, WritingInv
<1>8. \E f : Laid(f, exec'[1], 0, << >>)
  BY LaidNothing
<1>9. WritingInv'
  BY <1>2, <1>3, <1>7, <1>8 DEF WritingInv
<1>10. CompareInv' /\ CulpritLeaks'
  BY <1>7 DEF CompareInv, CulpritLeaks
<1>13. ~ (row > NumRows) /\ saved' = saved
  BY ReplayAssumption DEF StartRow, ReplayType
<1>14. ~ saved'
  BY <1>13, Zenon DEF RowInv
<1>11. StatusMeans'
  BY <1>7, <1>14 DEF StatusMeans, JustJudged, StartRow
<1> QED BY <1>4, <1>5, <1>6, <1>9, <1>10, <1>11

\* a verdict, whatever it is, ends the row
LEMMA JudgedInv ==
  ASSUME NEW st, RInv, Judged(st), phase \in {"next", "run1", "run2", "compare", "judge"},
         row <= NumRows, st # "not_reproduced"
  PROVE  /\ ReplayType' /\ RowInv' /\ ExecInv' /\ WritingInv' /\ CompareInv' /\ CulpritLeaks'
         /\ \A s : JustJudged(s)' => s = st
         /\ exec' = exec
         /\ ~ saved' /\ (mode' = "klee" => untried' = {})
<1> USE DEF RInv
<1>1. phase' = "next" /\ row' = row + 1 /\ pc' = 0 /\ trace' = << << >>, << >> >> /\ recent' = << >>
  BY DEF Judged
<1>2. row \in 1..NumRows
  BY ReplayAssumption DEF ReplayType
<1>3. \A k \in 1..NumRows : status'[k] = IF k = row THEN st ELSE status[k]
  BY DEF Judged, ReplayType
<1>4. status' = [k \in 1..NumRows |-> status'[k]]
  BY Zenon DEF Judged, ReplayType
<1>5. ReplayType'
  BY <1>1, <1>2, <1>4, ReplayAssumption DEF ReplayType, Judged
<1>10. ~ (row > NumRows)
  BY <1>2, ReplayAssumption
<1>11. ~ saved'
  BY <1>10, Zenon DEF RowInv, Judged
<1>12. /\ untried \subseteq 1..(row - 1) /\ untried' = untried
       /\ \A k \in 1..NumRows : status[k] = "not_reproduced" <=> k \in untried \/ k >= row
  BY DEF RowInv, Judged
<1>13. \A k \in 1..NumRows : status'[k] = "not_reproduced" <=> k \in untried' \/ k >= row'
  <2> SUFFICES ASSUME NEW k \in 1..NumRows
               PROVE  status'[k] = "not_reproduced" <=> k \in untried' \/ k >= row'
    OBVIOUS
  <2>1. CASE k = row
    BY <1>1, <1>2, <1>3, <1>12, <2>1
  <2>2. CASE k # row
    <3>1. k >= row + 1 <=> k >= row
      BY <1>2, <2>2
    <3> QED BY <1>1, <1>3, <1>12, <2>2, <3>1
  <2> QED BY <2>1, <2>2
<1>14. untried' \subseteq 1..(row' - 1)
  BY <1>1, <1>2, <1>12
<1>15. mode' = "klee" => untried' = {}
  BY DEF RowInv, Judged
<1>6. RowInv' /\ ~ saved'
  BY <1>1, <1>11, <1>13, <1>14, <1>15, Zenon DEF RowInv, Replaying
<1>7. ExecInv' /\ WritingInv' /\ CompareInv' /\ CulpritLeaks'
  BY <1>1 DEF ExecInv, WritingInv, CompareInv, CulpritLeaks, Replaying
<1>8. status'[row] = st
  BY <1>2, <1>3
<1>9. \A s : JustJudged(s)' => s = st
  <2> SUFFICES ASSUME NEW s, JustJudged(s)' PROVE s = st
    OBVIOUS
  <2>1. status'[row' - 1] = s
    BY DEF JustJudged
  <2>2. row' - 1 = row
    BY <1>1, <1>2
  <2> QED BY <1>8, <2>1, <2>2
<1> QED BY <1>5, <1>6, <1>7, <1>9, <1>15 DEF Judged

\* A row that is neither identical nor a success preserves the invariant.
LEMMA NotJudgedSoInv ==
  ASSUME NEW st \in {"location_mismatch", "timeout"}, RInv, Judged(st),
         phase \in {"next", "run1", "run2", "compare", "judge"}, row <= NumRows
  PROVE  RInv'
<1>1. st # "not_reproduced" /\ st # "identical_trace" /\ st # "success"
  OBVIOUS
<1>2. /\ ReplayType' /\ RowInv' /\ ExecInv' /\ WritingInv' /\ CompareInv' /\ CulpritLeaks'
      /\ \A s : JustJudged(s)' => s = st
      /\ ~ saved' /\ (mode' = "klee" => untried' = {})
  BY <1>1, JudgedInv
<1>3. StatusMeans'
  BY <1>1, <1>2 DEF StatusMeans
<1> QED BY <1>2, <1>3 DEF RInv

\* So does a row without a witness,
LEMMA NoWitnessInv == RInv /\ NoWitness => RInv'
  BY NotJudgedSoInv DEF NoWitness

\* a row there is nothing to replay for,
LEMMA SkipInv == RInv /\ Skip => RInv'
<1> SUFFICES ASSUME RInv, Skip PROVE RInv'
  OBVIOUS
<1> USE DEF RInv
<1>1. /\ phase = "next" /\ phase' = phase /\ row' = row + 1 /\ untried' = untried \cup {row}
      /\ status' = status /\ mode = "binsec" /\ mode' = mode /\ pc' = pc /\ trace' = trace
      /\ row \in 1..NumRows
  BY ReplayAssumption DEF Skip, ReplayType
<1>2. ReplayType'
  BY <1>1, ReplayAssumption DEF Skip, ReplayType
<1>3. ExecInv' /\ WritingInv' /\ CompareInv' /\ CulpritLeaks'
  BY <1>1 DEF ExecInv, WritingInv, CompareInv, CulpritLeaks, Replaying
<1>4. ~ (row > NumRows)
  BY <1>1, ReplayAssumption
<1>5. saved' = saved
  BY DEF Skip
<1>6. ~ saved'
  BY <1>4, <1>5, Zenon DEF RowInv
<1>7. /\ untried \subseteq 1..(row - 1)
      /\ \A k \in 1..NumRows : status[k] = "not_reproduced" <=> k \in untried \/ k >= row
  BY DEF RowInv
<1>8. \A k \in 1..NumRows : status'[k] = "not_reproduced" <=> k \in untried' \/ k >= row'
  <2> SUFFICES ASSUME NEW k \in 1..NumRows
               PROVE  k \in untried' \/ k >= row' <=> k \in untried \/ k >= row
    BY <1>1, <1>7
  <2>1. k >= row <=> k = row \/ k >= row + 1
    BY <1>1
  <2> QED BY <1>1, <2>1
<1>9. untried' \subseteq 1..(row' - 1)
  BY <1>1, <1>7
<1>10. RowInv'
  BY <1>1, <1>6, <1>8, <1>9, Zenon DEF RowInv, Replaying
<1>11. status'[row' - 1] = "not_reproduced"
  <2>1. row' - 1 = row
    BY <1>1
  <2>2. status[row] = "not_reproduced"
    BY <1>1, <1>7
  <2> QED BY <1>1, <2>1, <2>2
<1>12. ~ JustJudged("identical_trace")' /\ ~ JustJudged("success")'
  BY <1>11 DEF JustJudged
<1>13. StatusMeans'
  BY <1>1, <1>6, <1>12 DEF StatusMeans
<1> QED BY <1>2, <1>3, <1>10, <1>13

\* and a run that was timed out.
LEMMA TimeoutInv == ASSUME NEW r \in Run PROVE RInv /\ Timeout(r) => RInv'
<1> SUFFICES ASSUME RInv, Timeout(r) PROVE RInv'
  OBVIOUS
<1>1. phase \in {"run1", "run2"} /\ Judged("timeout")
  BY DEF Timeout, Running, Run
<1>2. row <= NumRows
  BY <1>1 DEF RInv, RowInv, Replaying
<1> QED BY <1>1, <1>2, NotJudgedSoInv

\* Results are saved when every row has been judged.
LEMMA SaveInv == RInv /\ Save => RInv'
<1> SUFFICES ASSUME RInv, Save PROVE RInv'
  OBVIOUS
<1> USE DEF RInv
<1>1. ReplayType'
  BY DEF Save, ReplayType
<1>2. RowInv'
  BY DEF Save, RowInv, Replaying
<1>3. ExecInv' /\ WritingInv' /\ CompareInv' /\ CulpritLeaks'
  BY DEF Save, ExecInv, WritingInv, CompareInv, CulpritLeaks, Replaying
<1>4. \A st : JustJudged(st)' => JustJudged(st)
  BY DEF Save, JustJudged
<1>5. exec' = exec /\ claim' = claim /\ prog' = prog /\ nodebug' = nodebug /\ mode' = mode
  BY DEF Save
<1>6. FirstLeak' = FirstLeak /\ KindShown' = KindShown /\ (MissingFirst' <=> MissingFirst)
  BY <1>5, LeakUnchanged
<1>7. \A k \in 1..NumRows : ~ (k >= row)
  BY ReplayAssumption DEF Save, ReplayType
<1>8. status' = status /\ untried' = untried
  BY DEF Save
<1>9. \A k \in 1..NumRows : status'[k] = "not_reproduced" <=> k \in untried'
  BY <1>7, <1>8 DEF RowInv
<1>10. JustJudged("identical_trace")' => exec'[1] = exec'[2]
  BY <1>4, <1>5 DEF StatusMeans
<1>11. JustJudged("success")' =>
         /\ exec'[1] # exec'[2]
         /\ claim'.kind \in {"none", KindShown'}
         /\ \/ SameStatement(prog', claim'.line, FirstLeak'.line)
            \/ FirstLeak'.line \in nodebug' \/ MissingFirst'
  BY <1>4, <1>5, <1>6, Zenon DEF StatusMeans
<1>12. mode' = "klee" => untried' = {}
  BY <1>5, <1>8 DEF StatusMeans
<1>13. StatusMeans'
  BY <1>9, <1>10, <1>11, <1>12, Zenon DEF StatusMeans
<1> QED BY <1>1, <1>2, <1>3, <1>13

\* A failure of Pin judges nothing.
LEMMA PinFailsInv == ASSUME NEW r \in Run PROVE RInv /\ PinFails(r) => RInv'
<1> SUFFICES ASSUME RInv, PinFails(r) PROVE RInv'
  OBVIOUS
<1> USE DEF RInv
<1>1. ReplayType'
  BY DEF PinFails, ReplayType
<1>2. RowInv' /\ ExecInv' /\ WritingInv' /\ CompareInv' /\ CulpritLeaks'
  BY DEF PinFails, RowInv, ExecInv, WritingInv, CompareInv, CulpritLeaks, Replaying
<1>5. row <= NumRows
  BY DEF PinFails, RowInv, Replaying, Running, Run
<1>6. ~ (row > NumRows)
  BY <1>5, ReplayAssumption DEF ReplayType
<1>3. ~ saved'
  BY <1>6, Zenon DEF PinFails, RowInv
<1>4. StatusMeans'
  BY <1>3 DEF StatusMeans, JustJudged, PinFails, RowInv
<1> QED BY <1>1, <1>2, <1>4

\* The tracer appends the lines of the next instruction to its own file.
LEMMA TraceInv == ASSUME NEW r \in Run PROVE RInv /\ Trace(r) => RInv'
<1> SUFFICES ASSUME RInv, Trace(r) PROVE RInv'
  OBVIOUS
<1> USE DEF RInv
<1>1. /\ phase \in {"run1", "run2"} /\ phase' = phase /\ exec' = exec /\ pc' = pc + 1
      /\ recent' = recent /\ row' = row /\ status' = status /\ saved' = saved /\ prog' = prog
      /\ untried' = untried /\ mode' = mode
  BY DEF Trace, Running, Run
<1>2. pc \in Nat /\ pc < Len(exec[r]) /\ exec[r] \in Seq(Instruction)
  BY <1>1 DEF Trace, ReplayType, ExecInv, Replaying, Run
<1>3. exec[r][pc + 1] \in Instruction
  BY <1>2
<1> DEFINE u == trace[r] \o Recorded(exec[r][pc + 1])
<1>4. trace[r] \in Seq(TraceLine) /\ u \in Seq(TraceLine)
  BY <1>3, RecordedLines DEF ReplayType, Run
<1>5. trace' = [trace EXCEPT ![r] = u]
  BY DEF Trace
<1> HIDE DEF u
<1>6. /\ r = 1 => trace' = <<u, trace[2]>>
      /\ r = 2 => trace' = <<trace[1], u>>
  BY <1>5 DEF ReplayType, Run
<1>7. ReplayType'
  BY <1>1, <1>4, <1>6 DEF ReplayType, Run
<1>8. RowInv' /\ ExecInv' /\ CompareInv' /\ CulpritLeaks'
  BY <1>1 DEF RowInv, ExecInv, CompareInv, CulpritLeaks, Replaying
<1>9. StatusMeans'
  BY <1>1, Zenon DEF StatusMeans, JustJudged
<1>10. pc' \in Nat /\ pc' <= Len(exec[r])
  BY <1>1, <1>2
<1>11. CASE r = 1
  <2>1. phase = "run1" /\ trace'[1] = u /\ trace'[2] = trace[2]
    BY <1>6, <1>11 DEF Trace, Running
  <2>2. PICK f : Laid(f, exec[1], pc, trace[1])
    BY <2>1 DEF WritingInv
  <2>3. \E g : Laid(g, exec[1], pc + 1, trace[1] \o Recorded(exec[1][pc + 1]))
    BY <1>2, <1>4, <1>11, <2>2, LaidOneMore
  <2>4. \E g : Laid(g, exec'[1], pc', trace'[1])
    BY <1>1, <1>11, <2>1, <2>3 DEF u
  <2>5. WritingInv'
    BY <1>1, <1>10, <1>11, <2>1, <2>4 DEF WritingInv
  <2> QED BY <1>7, <1>8, <1>9, <2>5
<1>12. CASE r = 2
  <2>1. phase = "run2" /\ trace'[2] = u /\ trace'[1] = trace[1]
    BY <1>6, <1>12 DEF Trace, Running
  <2>2. PICK f : Laid(f, exec[2], pc, trace[2])
    BY <2>1 DEF WritingInv
  <2>3. \E g : Laid(g, exec[2], pc + 1, trace[2] \o Recorded(exec[2][pc + 1]))
    BY <1>2, <1>4, <1>12, <2>2, LaidOneMore
  <2>4. \E g : Laid(g, exec'[2], pc', trace'[2])
    BY <1>1, <1>12, <2>1, <2>3 DEF u
  <2>5. WritingInv'
    BY <1>1, <1>10, <1>12, <2>1, <2>4 DEF WritingInv
  <2> QED BY <1>7, <1>8, <1>9, <2>5
<1> QED BY <1>11, <1>12 DEF Run

\* The second file is written after the first, and compared when both are complete.
LEMMA FinishInv == ASSUME NEW r \in Run PROVE RInv /\ Finish(r) => RInv'
<1> SUFFICES ASSUME RInv, Finish(r) PROVE RInv'
  OBVIOUS
<1> USE DEF RInv
<1>1. /\ phase \in {"run1", "run2"} /\ phase' \in {"run2", "compare"} /\ exec' = exec /\ pc' = 0
      /\ recent' = recent /\ row' = row /\ status' = status /\ saved' = saved /\ prog' = prog
      /\ untried' = untried /\ mode' = mode
      /\ trace' = trace
  BY DEF Finish, Running, Run
<1>2. exec[1] \in Seq(Instruction) /\ exec[2] \in Seq(Instruction)
  BY <1>1 DEF ExecInv, Replaying
<1>3. ReplayType'
  BY <1>1 DEF ReplayType
<1>4. RowInv' /\ ExecInv' /\ CulpritLeaks'
  BY <1>1 DEF RowInv, ExecInv, CulpritLeaks, Replaying
<1>5. ~ (row > NumRows)
  BY <1>1, ReplayAssumption DEF ReplayType, RowInv, Replaying
<1>6. ~ saved'
  BY <1>1, <1>5, Zenon DEF RowInv
<1>7. StatusMeans'
  BY <1>1, <1>6 DEF StatusMeans, JustJudged
<1>8. CASE r = 1
  <2>1. phase = "run1" /\ phase' = "run2" /\ pc = Len(exec[1])
    BY <1>8 DEF Finish, Running
  <2>2. \E f : Laid(f, exec[1], Len(exec[1]), trace[1])
    BY <2>1 DEF WritingInv
  <2>3. trace[2] = << >>
    BY <2>1 DEF WritingInv
  <2>4. \E g : Laid(g, exec[2], 0, << >>)
    BY LaidNothing
  <2>5. WritingInv'
    BY <1>1, <1>2, <2>1, <2>2, <2>3, <2>4 DEF WritingInv
  <2> QED BY <1>3, <1>4, <1>7, <2>1, <2>5 DEF CompareInv
<1>9. CASE r = 2
  <2>1. phase = "run2" /\ phase' = "compare" /\ pc = Len(exec[2])
    BY <1>9 DEF Finish, Running
  <2>2. PICK f : Laid(f, exec[1], Len(exec[1]), trace[1])
    BY <2>1 DEF WritingInv
  <2>3. PICK g : Laid(g, exec[2], Len(exec[2]), trace[2])
    BY <2>1 DEF WritingInv
  <2>4. f[0] = 0 /\ g[0] = 0
    BY <2>2, <2>3 DEF Laid
  <2>5. Compared(0, f, g)'
    BY <1>1, <1>2, <2>2, <2>3, <2>4 DEF Compared, AtInstruction
  <2>6. \E k \in Nat : \E f1, g1 : Compared(k, f1, g1)'
    <3>1. 0 \in Nat
      OBVIOUS
    <3> QED BY <2>5, <3>1, Zenon
  <2>7. CompareInv'
    BY <2>1, <2>6 DEF CompareInv
  <2>8. WritingInv'
    BY <2>1 DEF WritingInv
  <2> QED BY <1>3, <1>4, <1>7, <2>7, <2>8
<1> QED BY <1>8, <1>9 DEF Run

\* the lines of the instruction after the k-th
LinesAfter(k, f, x, t) ==
  /\ f[k] \in Nat /\ Len(t) \in Nat
  /\ k = Len(x) => f[k] = Len(t)
  /\ k < Len(x) =>
       /\ x[k + 1] \in Instruction
       /\ f[k] < Len(t) /\ t[f[k] + 1] = InstructionLine(x[k + 1])
       /\ f[k + 1] = f[k] + 1 + Len(x[k + 1].ops) /\ f[k + 1] <= Len(t)
       /\ \A m \in 1..Len(x[k + 1].ops) : t[f[k] + 1 + m] = AccessLine(x[k + 1], m)

\* Which lines follow the first k instructions.
LEMMA LaidNext ==
  ASSUME NEW x \in Seq(Instruction), NEW t \in Seq(TraceLine), NEW f, Laid(f, x, Len(x), t),
         NEW k \in Nat, k <= Len(x)
  PROVE  LinesAfter(k, f, x, t)
<1>1. f[k] \in Nat /\ (k = Len(x) => f[k] = Len(t)) /\ Len(t) \in Nat
  BY DEF Laid
<1>2. CASE k < Len(x)
  <2> DEFINE j == k + 1
  <2>1. j \in 1..Len(x) /\ j - 1 = k
    BY <1>2
  <2>2. /\ f[j] = f[j - 1] + LinesOf(x[j]) /\ f[j] <= Len(t)
        /\ t[f[j - 1] + 1] = InstructionLine(x[j])
        /\ \A m \in 1..Len(x[j].ops) : t[f[j - 1] + 1 + m] = AccessLine(x[j], m)
    BY <2>1 DEF Laid
  <2>3. x[j] \in Instruction
    BY <2>1
  <2>4. Len(x[j].ops) \in Nat
    BY <2>3, InstructionParts
  <2>5. /\ f[j] = f[k] + LinesOf(x[j]) /\ f[j] <= Len(t)
        /\ t[f[k] + 1] = InstructionLine(x[j])
        /\ \A m \in 1..Len(x[j].ops) : t[f[k] + 1 + m] = AccessLine(x[j], m)
    BY <2>1, <2>2
  <2>6. f[j] = f[k] + 1 + Len(x[j].ops) /\ f[k] < Len(t)
    <3>1. f[j] = f[k] + (1 + Len(x[j].ops)) /\ f[j] <= Len(t)
      BY <2>5, Zenon DEF LinesOf
    <3> DEFINE a == f[k]
               n == Len(x[j].ops)
               l == Len(t)
    <3>2. a \in Nat /\ n \in Nat /\ l \in Nat /\ a + (1 + n) <= l /\ f[j] = a + (1 + n)
      BY <1>1, <2>4, <3>1
    <3> HIDE DEF a, n, l, j
    <3>3. f[j] = a + 1 + n /\ a < l
      BY <3>2, Positions
    <3> QED BY <3>3 DEF a, n, l
  <2> QED BY <1>1, <1>2, <2>3, <2>5, <2>6 DEF LinesAfter
<1>3. CASE ~ (k < Len(x))
  BY <1>1, <1>3 DEF LinesAfter
<1> QED BY <1>2, <1>3

\* the line after m accesses of the next instruction: another access, or the instruction
\* after it, or the end of the file
LineAt(k, m, p, f, x, t) ==
  /\ p \in Nat /\ p <= Len(t)
  /\ m < Len(x[k + 1].ops) =>
       p < Len(t) /\ m + 1 \in 1..Len(x[k + 1].ops) /\ t[p + 1] = AccessLine(x[k + 1], m + 1)
  /\ m = Len(x[k + 1].ops) =>
       /\ p = f[k + 1]
       /\ p < Len(t) => t[p + 1].kind = "I" /\ t[p + 1].ip # None

\* Which line follows some of the accesses of an instruction.
LEMMA LineInside ==
  ASSUME NEW x \in Seq(Instruction), NEW t \in Seq(TraceLine), NEW f, Laid(f, x, Len(x), t),
         NEW k \in Nat, k < Len(x), NEW m \in Nat, m <= Len(x[k + 1].ops), NEW p, p = f[k] + 1 + m
  PROVE  LineAt(k, m, p, f, x, t)
<1> DEFINE i == x[k + 1]
<1>1. LinesAfter(k, f, x, t)
  BY LaidNext
<1>2. /\ f[k] \in Nat /\ Len(t) \in Nat /\ i \in Instruction
      /\ f[k + 1] = f[k] + 1 + Len(i.ops) /\ f[k + 1] <= Len(t)
      /\ \A j \in 1..Len(i.ops) : t[f[k] + 1 + j] = AccessLine(i, j)
  BY <1>1 DEF LinesAfter
<1>3. Len(i.ops) \in Nat
  BY <1>2, InstructionParts
<1>4. k + 1 \in Nat /\ k + 1 <= Len(x)
  OBVIOUS
<1>5. LinesAfter(k + 1, f, x, t)
  BY <1>4, LaidNext
<1>9. m <= Len(i.ops)
  OBVIOUS
<1> HIDE DEF i
<1>6. p \in Nat /\ p <= Len(t)
  BY <1>2, <1>3, <1>9
<1>7. ASSUME m < Len(i.ops)
      PROVE  p < Len(t) /\ m + 1 \in 1..Len(i.ops) /\ t[p + 1] = AccessLine(i, m + 1)
  <2>1. f[k + 1] = f[k] + (1 + Len(i.ops))
    BY <1>2, <1>3, SumOrder, Zenon
  <2>2. /\ m + 1 \in 1..Len(i.ops) /\ f[k] + 1 + m < Len(t)
        /\ f[k] + 1 + m + 1 = f[k] + 1 + (m + 1)
    <3> DEFINE a == f[k]
               n == Len(i.ops)
               l == Len(t)
    <3>1. a \in Nat /\ n \in Nat /\ l \in Nat /\ a + (1 + n) <= l /\ m < n
      BY <1>2, <1>3, <1>7, <2>1
    <3> HIDE DEF a, n, l
    <3>2. m + 1 \in 1..n /\ a + 1 + m < l /\ a + 1 + m + 1 = a + 1 + (m + 1)
      BY <3>1, Positions
    <3> QED BY <3>2 DEF a, n, l
  <2>3. t[f[k] + 1 + (m + 1)] = AccessLine(i, m + 1)
    BY <1>2, <2>2, Zenon
  <2> QED BY <2>2, <2>3, Zenon
<1>8. ASSUME m = Len(i.ops)
      PROVE  p = f[k + 1] /\ (p < Len(t) => t[p + 1].kind = "I" /\ t[p + 1].ip # None)
  <2>1. p = f[k + 1]
    BY <1>2, <1>3, <1>8
  <2>2. p < Len(t) => k + 1 < Len(x)
    BY <1>2, <1>4, <1>5, <2>1 DEF LinesAfter
  <2>3. p < Len(t) => x[k + 1 + 1] \in Instruction /\ t[p + 1] = InstructionLine(x[k + 1 + 1])
    BY <1>5, <2>1, <2>2 DEF LinesAfter
  <2> QED BY <2>1, <2>3, InstructionParts
<1> QED BY <1>6, <1>7, <1>8 DEF i, LineAt

\* Two instructions are the same if their addresses and their accesses are.
LEMMA InstructionEqual ==
  ASSUME NEW i \in Instruction, NEW j \in Instruction, i.ip = j.ip,
         Len(i.ops) = Len(j.ops), \A m \in 1..Len(i.ops) : i.ops[m] = j.ops[m]
  PROVE  i = j
<1>1. i.ops \in Seq(Access) /\ j.ops \in Seq(Access)
  BY InstructionParts
<1>2. i.ops = j.ops
  BY <1>1, SeqEqual
<1> QED BY <1>2 DEF Instruction

\* Two accesses of one address are the same if their lines are.
LEMMA AccessEqual ==
  ASSUME NEW i \in Instruction, NEW j \in Instruction, i.ip = j.ip,
         NEW m \in 1..Len(i.ops), m \in 1..Len(j.ops)
  PROVE  AccessLine(i, m) = AccessLine(j, m) <=> i.ops[m] = j.ops[m]
<1>1. i.ops \in Seq(Access) /\ j.ops \in Seq(Access)
  BY InstructionParts
<1>2. i.ops[m] \in Access /\ j.ops[m] \in Access
  BY <1>1
<1> QED BY <1>2 DEF AccessLine, Access

\* A common line takes the comparison into the next instruction or through it.
LEMMA SameLineInv == RInv /\ SameLine => RInv'
<1> SUFFICES ASSUME RInv, SameLine PROVE RInv'
  OBVIOUS
<1> USE DEF RInv
<1>1. /\ phase = "compare" /\ phase' = phase /\ exec' = exec /\ trace' = trace /\ pc' = pc + 1
      /\ row' = row /\ status' = status /\ saved' = saved /\ prog' = prog
      /\ untried' = untried /\ mode' = mode
  BY DEF SameLine
<1>2. PICK k \in Nat : \E f, g : Compared(k, f, g)
  BY <1>1 DEF CompareInv
<1>3. PICK f, g : Compared(k, f, g)
  BY <1>2
<1> DEFINE x == exec[1]
           y == exec[2]
<1>4. x \in Seq(Instruction) /\ y \in Seq(Instruction) /\ SameEntry(x, y)
  BY <1>1 DEF ExecInv, Replaying
<1>5. trace[1] \in Seq(TraceLine) /\ trace[2] \in Seq(TraceLine) /\ pc \in Nat /\ recent \in Seq(Nat)
  BY DEF ReplayType
<1>6. /\ k <= Len(x) /\ k <= Len(y) /\ \A j \in 1..k : x[j] = y[j]
      /\ Laid(f, x, Len(x), trace[1]) /\ Laid(g, y, Len(y), trace[2])
      /\ AtInstruction(k, f, g) \/ \E m \in Nat : AtAccess(k, m, f, g)
  BY <1>3 DEF Compared
<1>7. LinesAfter(k, f, x, trace[1])
  BY <1>4, <1>5, <1>6, LaidNext
<1>8. LinesAfter(k, g, y, trace[2])
  BY <1>4, <1>5, <1>6, LaidNext
<1>9. Line(1) = trace[1][pc + 1] /\ trace[1][pc + 1] \in TraceLine /\ pc < Len(trace[1])
  BY <1>5 DEF SameLine, Line
<1>10. Line(1).kind # "end" /\ Line(1).ip \in Nat
  BY <1>9 DEF TraceLine
<1>11. pc < Len(trace[2]) /\ trace[2][pc + 1] = trace[1][pc + 1]
  BY <1>9, <1>10 DEF SameLine, Line
<1> HIDE DEF x, y
<1>13. recent' \in Seq(Nat) /\ recent' # << >> /\ recent'[Len(recent')] = Line(1).ip
  BY <1>5, <1>10, RecentEnds DEF SameLine
<1>14. ReplayType'
  BY <1>1, <1>5, <1>13 DEF ReplayType
<1>15. RowInv' /\ ExecInv' /\ WritingInv' /\ CulpritLeaks'
  BY <1>1 DEF RowInv, ExecInv, WritingInv, CulpritLeaks, Replaying
<1>16. StatusMeans'
  BY <1>1, Zenon DEF StatusMeans, JustJudged
<1>19. ASSUME NEW m \in Nat, k < Len(x), k < Len(y), pc + 1 = f[k] + 1 + m, pc + 1 = g[k] + 1 + m,
              x[k + 1] \in Instruction, y[k + 1] \in Instruction,
              x[k + 1].ip = y[k + 1].ip, Line(1).ip = x[k + 1].ip,
              m <= Len(x[k + 1].ops), m <= Len(y[k + 1].ops),
              \A j \in 1..m : x[k + 1].ops[j] = y[k + 1].ops[j]
       PROVE  \E h \in Nat : Compared(h, f, g)'
  <2>1. CASE m = Len(x[k + 1].ops) /\ m = Len(y[k + 1].ops)
    <3>1. x[k + 1] = y[k + 1]
      BY <1>19, <2>1, InstructionEqual
    <3>2. k + 1 \in Nat /\ k + 1 <= Len(x) /\ k + 1 <= Len(y)
      BY <1>4, <1>19
    <3>3. \A j \in 1..(k + 1) : x[j] = y[j]
      BY <1>6, <3>1
    <3>4. f[k + 1] = f[k] + 1 + Len(x[k + 1].ops) /\ g[k + 1] = g[k] + 1 + Len(y[k + 1].ops)
      BY <1>7, <1>8, <1>19 DEF LinesAfter
    <3>5. pc + 1 = f[k + 1] /\ pc + 1 = g[k + 1]
      BY <1>19, <2>1, <3>4
    <3>6. AtInstruction(k + 1, f, g)'
      BY <1>1, <1>13, <1>19, <3>5 DEF AtInstruction, x
    <3>7. Compared(k + 1, f, g)'
      BY <1>1, <1>6, <3>2, <3>3, <3>6 DEF Compared, x, y
    <3> QED BY <3>2, <3>7, Zenon
  <2>2. CASE ~ (m = Len(x[k + 1].ops) /\ m = Len(y[k + 1].ops))
    <3>1. Len(x[k + 1].ops) \in Nat /\ Len(y[k + 1].ops) \in Nat
      BY <1>19, InstructionParts
    <3>2. m < Len(x[k + 1].ops) \/ m < Len(y[k + 1].ops)
      BY <1>19, <2>2, <3>1
    <3>3. AtAccess(k, m, f, g)'
      BY <1>1, <1>19, <3>2 DEF AtAccess, x, y
    <3>4. \E n \in Nat : AtAccess(k, n, f, g)'
      BY <3>3, <1>19, Zenon
    <3>5. Compared(k, f, g)'
      BY <1>1, <1>6, <3>4 DEF Compared, x, y
    <3> QED BY <3>5, Zenon
  <2> QED BY <2>1, <2>2
<1>17. \E h \in Nat : Compared(h, f, g)'
  <2>1. CASE AtInstruction(k, f, g)
    <3>1. pc = f[k] /\ pc = g[k]
      BY <2>1 DEF AtInstruction
    <3>2. k < Len(x) /\ k < Len(y)
      BY <1>4, <1>5, <1>6, <1>7, <1>8, <1>9, <1>11, <3>1 DEF LinesAfter
    <3>3. x[k + 1] \in Instruction /\ y[k + 1] \in Instruction
      BY <1>7, <1>8, <3>2 DEF LinesAfter
    <3>4. trace[1][pc + 1] = InstructionLine(x[k + 1])
      BY <1>7, <3>1, <3>2 DEF LinesAfter
    <3>5. trace[2][pc + 1] = InstructionLine(y[k + 1])
      BY <1>8, <3>1, <3>2 DEF LinesAfter
    <3>6. x[k + 1].ip = y[k + 1].ip /\ Line(1).ip = x[k + 1].ip
      BY <3>3, <3>4, <3>5, <1>9, <1>11, InstructionParts
    <3>7. Len(x[k + 1].ops) \in Nat /\ Len(y[k + 1].ops) \in Nat
      BY <3>3, InstructionParts
    <3>8. pc + 1 = f[k] + 1 + 0 /\ pc + 1 = g[k] + 1 + 0 /\ 0 \in Nat
      BY <3>1, <1>5
    <3>9. 0 <= Len(x[k + 1].ops) /\ 0 <= Len(y[k + 1].ops)
      BY <3>7
    <3>10. \A j \in 1..0 : x[k + 1].ops[j] = y[k + 1].ops[j]
      OBVIOUS
    <3> QED BY <1>19, <3>2, <3>3, <3>6, <3>8, <3>9, <3>10
  <2>2. CASE \E m \in Nat : AtAccess(k, m, f, g)
    <3>1. PICK m \in Nat : AtAccess(k, m, f, g)
      BY <2>2
    <3>2. /\ k < Len(x) /\ k < Len(y) /\ pc = f[k] + 1 + m /\ pc = g[k] + 1 + m
          /\ x[k + 1].ip = y[k + 1].ip
          /\ m <= Len(x[k + 1].ops) /\ m <= Len(y[k + 1].ops)
          /\ m < Len(x[k + 1].ops) \/ m < Len(y[k + 1].ops)
          /\ \A j \in 1..m : x[k + 1].ops[j] = y[k + 1].ops[j]
      BY <3>1 DEF AtAccess, x, y
    <3>3. x[k + 1] \in Instruction /\ y[k + 1] \in Instruction
      BY <1>7, <1>8, <3>2 DEF LinesAfter
    <3>4. /\ m < Len(x[k + 1].ops) =>
               /\ m + 1 \in 1..Len(x[k + 1].ops)
               /\ trace[1][pc + 1] = AccessLine(x[k + 1], m + 1)
          /\ m = Len(x[k + 1].ops) => trace[1][pc + 1].kind = "I"
      <4>1. LineAt(k, m, pc, f, x, trace[1])
        BY <1>4, <1>5, <1>6, <3>2, LineInside
      <4> QED BY <1>9, <4>1 DEF LineAt
    <3>5. /\ m < Len(y[k + 1].ops) =>
               /\ m + 1 \in 1..Len(y[k + 1].ops)
               /\ trace[2][pc + 1] = AccessLine(y[k + 1], m + 1)
          /\ m = Len(y[k + 1].ops) => trace[2][pc + 1].kind = "I"
      <4>1. LineAt(k, m, pc, g, y, trace[2])
        BY <1>4, <1>5, <1>6, <3>2, LineInside
      <4> QED BY <1>11, <4>1 DEF LineAt
    <3>6. Len(x[k + 1].ops) \in Nat /\ Len(y[k + 1].ops) \in Nat
      BY <3>3, InstructionParts
    <3>7. /\ m < Len(x[k + 1].ops) => trace[1][pc + 1].kind # "I"
          /\ m < Len(y[k + 1].ops) => trace[2][pc + 1].kind # "I"
      BY <3>3, <3>4, <3>5, AccessParts
    <3>8. m < Len(x[k + 1].ops) /\ m < Len(y[k + 1].ops)
      BY <1>11, <3>2, <3>4, <3>5, <3>6, <3>7
    <3>9. AccessLine(x[k + 1], m + 1) = AccessLine(y[k + 1], m + 1)
      BY <1>11, <3>4, <3>5, <3>8
    <3>10. x[k + 1].ops[m + 1] = y[k + 1].ops[m + 1]
      BY <3>2, <3>3, <3>4, <3>5, <3>8, <3>9, AccessEqual
    <3>11. Line(1).ip = x[k + 1].ip
      BY <1>9, <3>3, <3>4, <3>8, AccessParts
    <3>12. \A j \in 1..(m + 1) : x[k + 1].ops[j] = y[k + 1].ops[j]
      BY <3>2, <3>10
    <3>13. /\ pc + 1 = f[k] + 1 + (m + 1) /\ pc + 1 = g[k] + 1 + (m + 1) /\ m + 1 \in Nat
           /\ m + 1 <= Len(x[k + 1].ops) /\ m + 1 <= Len(y[k + 1].ops)
      <4>1. f[k] \in Nat /\ g[k] \in Nat
        BY <1>7, <1>8 DEF LinesAfter
      <4>2. pc + 1 = f[k] + 1 + (m + 1) /\ pc + 1 = g[k] + 1 + (m + 1) /\ m + 1 \in Nat
        <5>1. m + 1 \in Nat
          OBVIOUS
        <5>2. pc = f[k] + 1 + m /\ pc = g[k] + 1 + m
          BY <3>2
        <5>3. pc + 1 = f[k] + 1 + m + 1 /\ pc + 1 = g[k] + 1 + m + 1
          BY <5>2, Zenon
        <5>4. /\ f[k] + 1 + m + 1 = f[k] + 1 + (m + 1)
              /\ g[k] + 1 + m + 1 = g[k] + 1 + (m + 1)
          BY <4>1, SumOrder, Zenon
        <5> QED BY <5>1, <5>3, <5>4, Zenon
      <4>3. \A n \in Nat : m < n => m + 1 <= n
        OBVIOUS
      <4> QED BY <3>6, <3>8, <4>2, <4>3
    <3> QED BY <1>19, <3>2, <3>3, <3>11, <3>12, <3>13
  <2> QED BY <1>6, <2>1, <2>2
<1>18. CompareInv'
  BY <1>1, <1>17 DEF CompareInv
<1> QED BY <1>14, <1>15, <1>16, <1>18

\* the first difference is at instruction k + 1
LEMMA FirstDifferenceIs ==
  ASSUME exec[1] \in Seq(Instruction), exec[2] \in Seq(Instruction),
         NEW k \in Nat, k <= Len(exec[1]), k <= Len(exec[2]),
         \A j \in 1..k : exec[1][j] = exec[2][j],
         \/ k = Len(exec[1]) /\ k < Len(exec[2])
         \/ k < Len(exec[1]) /\ k = Len(exec[2])
         \/ k < Len(exec[1]) /\ k < Len(exec[2]) /\ exec[1][k + 1] # exec[2][k + 1]
  PROVE  exec[1] # exec[2] /\ FirstDifference = k + 1
<1> DEFINE x == exec[1]
           y == exec[2]
           differ == {j \in DOMAIN x \cup DOMAIN y : j \notin DOMAIN x \cap DOMAIN y \/ x[j] # y[j]}
           first == CHOOSE j \in differ : \A i \in differ : j <= i
<1>1. exec[1] # exec[2]
  OBVIOUS
<1>2. k + 1 \in differ
  OBVIOUS
<1>3. \A i \in differ : k + 1 <= i /\ i \in Nat
  <2> SUFFICES ASSUME NEW i \in differ PROVE k + 1 <= i /\ i \in Nat
    OBVIOUS
  <2>1. i \in Nat /\ i >= 1
    OBVIOUS
  <2>2. ~ (i <= k)
    <3> SUFFICES ASSUME i <= k PROVE FALSE
      OBVIOUS
    <3>1. i \in 1..k /\ i \in DOMAIN x \cap DOMAIN y
      BY <2>1
    <3> QED BY <3>1
  <2> QED BY <2>1, <2>2
<1>4. first \in differ /\ \A i \in differ : first <= i
  <2> HIDE DEF differ
  <2> QED BY <1>2, <1>3, Zenon
<1>5. first = k + 1
  <2> HIDE DEF differ, first
  <2>1. first <= k + 1 /\ k + 1 <= first /\ first \in Nat
    BY <1>2, <1>3, <1>4
  <2> QED BY <2>1
<1>6. FirstDifference = first
  BY DEF FirstDifference
<1> QED BY <1>1, <1>5, <1>6

\* The branch before is the leak if the executions part there,
LEMMA LeakIsBranch ==
  ASSUME NEW k \in Nat, FirstDifference = k + 1, ~ SameInstruction(k + 1)
  PROVE  /\ FirstLeak = [line |-> exec[1][k].ip, kind |-> "branch"]
         /\ ~ AccessMissing /\ ~ MissingFirst /\ KindShown = "branch"
<1>1. FirstLeak = [line |-> exec[1][k + 1 - 1].ip, kind |-> "branch"]
  BY DEF FirstLeak
<1>2. k + 1 - 1 = k
  OBVIOUS
<1>3. FirstLeak = [line |-> exec[1][k].ip, kind |-> "branch"]
  BY <1>1, <1>2
<1>4. ~ AccessMissing
  BY DEF AccessMissing
<1> QED BY <1>3, <1>4 DEF MissingFirst, KindShown

\* the instruction itself if its accesses differ,
LEMMA LeakIsAccess ==
  ASSUME NEW k \in Nat, FirstDifference = k + 1, SameInstruction(k + 1),
         NEW m \in DOMAIN exec[1][k + 1].ops \cap DOMAIN exec[2][k + 1].ops,
         exec[1][k + 1].ops[m] # exec[2][k + 1].ops[m]
  PROVE  /\ FirstLeak = [line |-> exec[1][k + 1].ip, kind |-> "memory"]
         /\ ~ AccessMissing /\ ~ MissingFirst /\ KindShown = "memory"
<1>1. FirstLeak = [line |-> exec[1][k + 1].ip, kind |-> "memory"]
  BY DEF FirstLeak
<1>2. ~ AccessMissing
  BY DEF AccessMissing
<1> QED BY <1>1, <1>2 DEF MissingFirst, KindShown

\* and it shows as a branch if one of them only makes more of them.
LEMMA LeakIsMissing ==
  ASSUME NEW k \in Nat, FirstDifference = k + 1, SameInstruction(k + 1),
         \A m \in DOMAIN exec[1][k + 1].ops \cap DOMAIN exec[2][k + 1].ops :
           exec[1][k + 1].ops[m] = exec[2][k + 1].ops[m]
  PROVE  /\ FirstLeak = [line |-> exec[1][k + 1].ip, kind |-> "memory"]
         /\ AccessMissing /\ KindShown = "branch"
         /\ MissingFirst <=> Len(exec[1][k + 1].ops) < Len(exec[2][k + 1].ops)
<1>1. FirstLeak = [line |-> exec[1][k + 1].ip, kind |-> "memory"]
  BY DEF FirstLeak
<1>2. AccessMissing
  BY DEF AccessMissing
<1> QED BY <1>1, <1>2 DEF MissingFirst, KindShown

\* what compare_trace_files answers, for each way in which its lines can differ
LEMMA BlamesTheLastShared ==
  ASSUME NEW a, NEW b, LastCommon # None,
         \/ a.kind = "I" /\ b.kind = "I" /\ a.ip # b.ip
         \/ a.kind = "end" /\ b.kind = "I"
         \/ a.kind = "I" /\ b.kind = "end"
  PROVE  Culprit(a, b) = LastCommon
  BY DEF Culprit

\* An access of the first run blames its instruction, whatever the other does.
LEMMA BlamesTheAccess ==
  ASSUME NEW a, NEW b, a.kind \in {"R", "W"}
  PROVE  Culprit(a, b) = a.ip
  BY DEF Culprit

\* An access of the second run only blames something.
LEMMA BlamesSomething ==
  ASSUME NEW a, NEW b, b.kind \in {"R", "W"}, b.ip # None,
         a.kind = "end" \/ (a.kind = "I" /\ a.ip # None)
  PROVE  Culprit(a, b) # None
  BY DEF Culprit

\* The first difference is at the first instruction the executions differ in.
LEMMA DifferInv == RInv /\ Differ => RInv'
<1> SUFFICES ASSUME RInv, Differ PROVE RInv'
  OBVIOUS
<1> USE DEF RInv
<1>1. /\ phase = "compare" /\ phase' = "judge" /\ exec' = exec /\ trace' = trace /\ pc' = pc
      /\ row' = row /\ status' = status /\ saved' = saved /\ prog' = prog /\ recent' = recent
      /\ untried' = untried /\ mode' = mode
  BY DEF Differ
<1>2. PICK k \in Nat : \E f, g : Compared(k, f, g)
  BY <1>1 DEF CompareInv
<1>3. PICK f, g : Compared(k, f, g)
  BY <1>2
<1> DEFINE x == exec[1]
           y == exec[2]
           a == Line(1)
           b == Line(2)
<1>4. x \in Seq(Instruction) /\ y \in Seq(Instruction) /\ SameEntry(x, y)
  BY <1>1 DEF ExecInv, Replaying
<1>5. trace[1] \in Seq(TraceLine) /\ trace[2] \in Seq(TraceLine) /\ pc \in Nat /\ recent \in Seq(Nat)
  BY DEF ReplayType
<1>6. /\ k <= Len(x) /\ k <= Len(y) /\ \A j \in 1..k : x[j] = y[j]
      /\ Laid(f, x, Len(x), trace[1]) /\ Laid(g, y, Len(y), trace[2])
      /\ AtInstruction(k, f, g) \/ \E m \in Nat : AtAccess(k, m, f, g)
  BY <1>3 DEF Compared
<1>7. LinesAfter(k, f, x, trace[1])
  BY <1>4, <1>5, <1>6, LaidNext
<1>8. LinesAfter(k, g, y, trace[2])
  BY <1>4, <1>5, <1>6, LaidNext
<1>9. Len(x) \in Nat /\ Len(y) \in Nat /\ Len(trace[1]) \in Nat /\ Len(trace[2]) \in Nat
  BY <1>4, <1>5
<1>10. a # b /\ div' = [a |-> a, b |-> b, culprit |-> Culprit(a, b)]
  BY DEF Differ
<1>11. /\ pc < Len(trace[1]) => a = trace[1][pc + 1]
       /\ ~ (pc < Len(trace[1])) => a = [kind |-> "end", ip |-> None]
       /\ pc < Len(trace[2]) => b = trace[2][pc + 1]
       /\ ~ (pc < Len(trace[2])) => b = [kind |-> "end", ip |-> None]
  BY DEF Line
<1> HIDE DEF x, y, a, b
<1>12. ReplayType'
  BY <1>1 DEF ReplayType
<1>13. RowInv' /\ ExecInv' /\ WritingInv'
  BY <1>1 DEF RowInv, ExecInv, WritingInv, Replaying
<1>14. ~ (row > NumRows)
  BY <1>1, ReplayAssumption DEF ReplayType, RowInv, Replaying
<1>15. ~ saved'
  BY <1>1, <1>14, Zenon DEF RowInv
<1>16. StatusMeans'
  BY <1>1, <1>15 DEF StatusMeans, JustJudged, RowInv
<1>17. FirstLeak' = FirstLeak /\ KindShown' = KindShown /\ (MissingFirst' <=> MissingFirst)
  BY <1>1, LeakUnchanged
<1>20. DOMAIN exec[1] = 1..Len(x) /\ DOMAIN exec[2] = 1..Len(y)
  BY <1>4 DEF x, y
<1>18. CASE AtInstruction(k, f, g)
  <2>1. pc = f[k] /\ pc = g[k]
    BY <1>18 DEF AtInstruction
  <2>2. k < Len(x) => /\ x[k + 1] \in Instruction /\ a = InstructionLine(x[k + 1])
                      /\ a.ip = x[k + 1].ip /\ a.kind = "I" /\ a.ip # None
    BY <1>7, <1>11, <2>1, InstructionParts DEF LinesAfter
  <2>3. k < Len(y) => /\ y[k + 1] \in Instruction /\ b = InstructionLine(y[k + 1])
                      /\ b.ip = y[k + 1].ip /\ b.kind = "I" /\ b.ip # None
    BY <1>8, <1>11, <2>1, InstructionParts DEF LinesAfter
  <2>4. ~ (k < Len(x)) => k = Len(x) /\ a.kind = "end" /\ a.ip = None /\ a = [kind |-> "end", ip |-> None]
    BY <1>6, <1>7, <1>9, <1>11, <2>1 DEF LinesAfter
  <2>5. ~ (k < Len(y)) => k = Len(y) /\ b.kind = "end" /\ b.ip = None /\ b = [kind |-> "end", ip |-> None]
    BY <1>6, <1>8, <1>9, <1>11, <2>1 DEF LinesAfter
  <2>6. k < Len(x) \/ k < Len(y)
    BY <1>10, <2>4, <2>5
  <2>7. k < Len(x) /\ k < Len(y) => x[k + 1].ip # y[k + 1].ip /\ x[k + 1] # y[k + 1]
    <3> SUFFICES ASSUME k < Len(x), k < Len(y), x[k + 1].ip = y[k + 1].ip PROVE FALSE
      OBVIOUS
    <3>1. x[k + 1] \in Instruction /\ y[k + 1] \in Instruction
      BY <2>2, <2>3
    <3>2. InstructionLine(x[k + 1]) = InstructionLine(y[k + 1])
      BY DEF InstructionLine
    <3> QED BY <1>10, <2>2, <2>3, <3>2
  <2>8. k > 0
    <3> SUFFICES ASSUME k = 0 PROVE FALSE
      OBVIOUS
    <3>1. Len(x) > 0 /\ Len(y) > 0 /\ x[1].ip = y[1].ip
      BY <1>4 DEF SameEntry
    <3> QED BY <2>7, <3>1
  <2>9. k \in 1..Len(x) /\ x[k] \in Instruction
    BY <1>4, <1>6, <1>9, <2>8
  <2>10. x[k].ip # None
    BY <2>9, InstructionParts
  <2>11. LastCommon = x[k].ip
    BY <1>18, <2>8 DEF AtInstruction, LastCommon, x
  <2>12. Culprit(a, b) = x[k].ip
    BY <2>2, <2>3, <2>4, <2>5, <2>6, <2>7, <2>10, <2>11, BlamesTheLastShared
  <2>13. a.ip # b.ip
    BY <2>2, <2>3, <2>4, <2>5, <2>6, <2>7
  <2>14. exec[1] # exec[2] /\ FirstDifference = k + 1
    <3>1. \/ k = Len(x) /\ k < Len(y)
          \/ k < Len(x) /\ k = Len(y)
          \/ k < Len(x) /\ k < Len(y) /\ x[k + 1] # y[k + 1]
      BY <2>4, <2>5, <2>6, <2>7
    <3> QED BY <1>4, <1>6, <3>1, FirstDifferenceIs DEF x, y
  <2>19. ~ SameInstruction(k + 1)
    <3>1. k + 1 \in 1..Len(x) /\ k + 1 \in 1..Len(y) => k < Len(x) /\ k < Len(y)
      BY <1>9
    <3> QED BY <1>20, <2>7, <3>1 DEF SameInstruction, x, y
  <2>15. /\ FirstLeak = [line |-> x[k].ip, kind |-> "branch"]
         /\ KindShown = "branch"
    BY <2>14, <2>19, LeakIsBranch DEF x
  <2>16. Classified' = "branch" /\ div'.culprit = x[k].ip
    BY <1>10, <2>12, <2>13 DEF Classified
  <2>17. CulpritLeaks'
    BY <1>1, <1>17, <2>14, <2>15, <2>16 DEF CulpritLeaks
  <2>18. CompareInv'
    BY <1>1, <2>10, <2>16 DEF CompareInv
  <2> QED BY <1>12, <1>13, <1>16, <2>17, <2>18
<1>19. CASE \E m \in Nat : AtAccess(k, m, f, g)
  <2>1. PICK m \in Nat : AtAccess(k, m, f, g)
    BY <1>19
  <2> DEFINE i == x[k + 1]
             j == y[k + 1]
  <2>2. /\ k < Len(x) /\ k < Len(y) /\ pc = f[k] + 1 + m /\ pc = g[k] + 1 + m
        /\ i.ip = j.ip /\ m <= Len(i.ops) /\ m <= Len(j.ops)
        /\ m < Len(i.ops) \/ m < Len(j.ops)
        /\ \A n \in 1..m : i.ops[n] = j.ops[n]
    BY <2>1 DEF AtAccess, x, y
  <2>3. i \in Instruction /\ j \in Instruction
    BY <1>7, <1>8, <2>2 DEF LinesAfter
  <2>4. /\ m < Len(i.ops) =>
             pc < Len(trace[1]) /\ m + 1 \in 1..Len(i.ops)
               /\ trace[1][pc + 1] = AccessLine(i, m + 1)
        /\ m = Len(i.ops) =>
             (pc < Len(trace[1]) => trace[1][pc + 1].kind = "I" /\ trace[1][pc + 1].ip # None)
    <3>1. LineAt(k, m, pc, f, x, trace[1])
      BY <1>4, <1>5, <1>6, <2>2, LineInside DEF i
    <3> QED BY <3>1 DEF LineAt
  <2>5. /\ m < Len(j.ops) =>
             pc < Len(trace[2]) /\ m + 1 \in 1..Len(j.ops)
               /\ trace[2][pc + 1] = AccessLine(j, m + 1)
        /\ m = Len(j.ops) =>
             (pc < Len(trace[2]) => trace[2][pc + 1].kind = "I" /\ trace[2][pc + 1].ip # None)
    <3>1. LineAt(k, m, pc, g, y, trace[2])
      BY <1>4, <1>5, <1>6, <2>2, LineInside DEF j
    <3> QED BY <3>1 DEF LineAt
  <2>6. i.ip = exec[1][k + 1].ip /\ i.ops = exec[1][k + 1].ops /\ j.ops = exec[2][k + 1].ops
    BY DEF x, y
  <2>7. SameInstruction(k + 1)
    <3>1. k + 1 \in 1..Len(x) /\ k + 1 \in 1..Len(y)
      BY <1>9, <2>2
    <3> QED BY <1>20, <2>2, <3>1 DEF SameInstruction, x, y
  <2>8. i # j => exec[1] # exec[2] /\ FirstDifference = k + 1
    BY <1>4, <1>6, <2>2, FirstDifferenceIs DEF x, y
  <2>9. /\ Len(i.ops) \in Nat /\ Len(j.ops) \in Nat /\ i.ip # None
        /\ i.ops \in Seq(Access) /\ j.ops \in Seq(Access)
    BY <2>3, InstructionParts
  <2>10. DOMAIN i.ops = 1..Len(i.ops) /\ DOMAIN j.ops = 1..Len(j.ops)
    BY <2>9
  <2>11. /\ m < Len(i.ops) => a = AccessLine(i, m + 1) /\ a.kind \in {"R", "W"} /\ a.ip = i.ip
         /\ m = Len(i.ops) => a.kind = "end" \/ (a.kind = "I" /\ a.ip # None)
    <3>1. m < Len(i.ops) => a = AccessLine(i, m + 1)
      BY <1>11, <2>4
    <3>2. m < Len(i.ops) => a.kind \in {"R", "W"} /\ a.ip = i.ip
      BY <2>3, <2>4, <3>1, AccessParts
    <3>3. m = Len(i.ops) => a.kind = "end" \/ (a.kind = "I" /\ a.ip # None)
      BY <1>11, <2>4
    <3> QED BY <3>1, <3>2, <3>3
  <2>12. /\ m < Len(j.ops) => b = AccessLine(j, m + 1) /\ b.kind \in {"R", "W"} /\ b.ip = j.ip
         /\ m = Len(j.ops) => b.kind = "end" \/ (b.kind = "I" /\ b.ip # None)
    <3>1. m < Len(j.ops) => b = AccessLine(j, m + 1)
      BY <1>11, <2>5
    <3>2. m < Len(j.ops) => b.kind \in {"R", "W"} /\ b.ip = j.ip
      BY <2>3, <2>5, <3>1, AccessParts
    <3>3. m = Len(j.ops) => b.kind = "end" \/ (b.kind = "I" /\ b.ip # None)
      BY <1>11, <2>5
    <3> QED BY <3>1, <3>2, <3>3
  <2> HIDE DEF i, j
  <2>13. CASE m < Len(i.ops) /\ m < Len(j.ops)
    <3>1. i.ops[m + 1] # j.ops[m + 1]
      BY <1>10, <2>2, <2>3, <2>4, <2>5, <2>11, <2>12, <2>13, AccessEqual
    <3>2. i # j
      BY <3>1
    <3>3. m + 1 \in DOMAIN exec[1][k + 1].ops \cap DOMAIN exec[2][k + 1].ops
      BY <2>4, <2>5, <2>6, <2>10, <2>13
    <3>4. /\ FirstLeak = [line |-> exec[1][k + 1].ip, kind |-> "memory"]
          /\ KindShown = "memory"
      BY <2>6, <2>7, <2>8, <3>1, <3>2, <3>3, LeakIsAccess
    <3>5. Culprit(a, b) = i.ip
      BY <2>11, <2>13, BlamesTheAccess
    <3>6. Classified' = "memory" /\ div'.culprit = i.ip
      BY <1>10, <2>2, <2>11, <2>12, <2>13, <3>5 DEF Classified
    <3>7. CulpritLeaks'
      BY <1>1, <1>17, <2>6, <2>8, <3>2, <3>4, <3>6 DEF CulpritLeaks
    <3>8. CompareInv'
      BY <1>1, <2>9, <3>6 DEF CompareInv
    <3> QED BY <1>12, <1>13, <1>16, <3>7, <3>8
  <2>14. CASE ~ (m < Len(i.ops) /\ m < Len(j.ops))
    <3>1. Len(i.ops) # Len(j.ops) /\ (m = Len(i.ops) \/ m = Len(j.ops))
      BY <2>2, <2>9, <2>14
    <3>2. i # j
      BY <3>1
    <3>3. \A n \in DOMAIN i.ops \cap DOMAIN j.ops : i.ops[n] = j.ops[n]
      <4>1. \A n \in (1..Len(i.ops)) \cap (1..Len(j.ops)) : n \in 1..m
        BY <2>9, <3>1
      <4> QED BY <2>2, <2>10, <4>1
    <3>4. \A n \in DOMAIN exec[1][k + 1].ops \cap DOMAIN exec[2][k + 1].ops :
            exec[1][k + 1].ops[n] = exec[2][k + 1].ops[n]
      BY <2>6, <3>3
    <3>5. /\ FirstLeak = [line |-> exec[1][k + 1].ip, kind |-> "memory"]
          /\ KindShown = "branch"
          /\ MissingFirst <=> Len(exec[1][k + 1].ops) < Len(exec[2][k + 1].ops)
      BY <2>7, <2>8, <3>2, <3>4, LeakIsMissing
    <3>6. MissingFirst <=> Len(i.ops) < Len(j.ops)
      BY <2>6, <3>5
    <3>7. Classified' = "branch"
      <4>1. ~ (a.kind \in {"R", "W"} /\ b.kind \in {"R", "W"})
        BY <2>11, <2>12, <3>1
      <4> QED BY <1>10, <4>1 DEF Classified
    <3>8. CASE m < Len(i.ops)
      <4>1. Culprit(a, b) = i.ip
        BY <2>11, <3>8, BlamesTheAccess
      <4>2. div'.culprit = i.ip
        BY <1>10, <4>1
      <4>3. CulpritLeaks'
        BY <1>1, <1>17, <2>6, <2>8, <3>2, <3>5, <3>7, <4>2 DEF CulpritLeaks
      <4>4. CompareInv'
        BY <1>1, <2>9, <4>2 DEF CompareInv
      <4> QED BY <1>12, <1>13, <1>16, <4>3, <4>4
    <3>9. CASE m = Len(i.ops)
      <4>1. m < Len(j.ops)
        BY <2>2, <2>9, <3>9
      <4>2. Culprit(a, b) # None
        BY <2>2, <2>9, <2>11, <2>12, <3>9, <4>1, BlamesSomething
      <4>3. div'.culprit # None
        BY <1>10, <4>2
      <4>4. MissingFirst
        BY <3>6, <3>9, <4>1
      <4>5. CulpritLeaks'
        BY <1>1, <1>17, <2>8, <3>2, <3>5, <3>7, <4>4 DEF CulpritLeaks
      <4>6. CompareInv'
        BY <1>1, <4>3 DEF CompareInv
      <4> QED BY <1>12, <1>13, <1>16, <4>5, <4>6
    <3> QED BY <2>2, <2>9, <3>8, <3>9
  <2> QED BY <2>13, <2>14
<1> QED BY <1>6, <1>18, <1>19

\* Files that end together are those of equal executions.
LEMMA IdenticalInv == RInv /\ Identical => RInv'
<1> SUFFICES ASSUME RInv, Identical PROVE RInv'
  OBVIOUS
<1>1. phase = "compare" /\ pc = Len(trace[1]) /\ pc = Len(trace[2]) /\ Judged("identical_trace")
  BY DEF Identical
<1>2. row <= NumRows
  BY <1>1 DEF RInv, RowInv, Replaying
<1>3. /\ ReplayType' /\ RowInv' /\ ExecInv' /\ WritingInv' /\ CompareInv' /\ CulpritLeaks'
      /\ \A s : JustJudged(s)' => s = "identical_trace"
      /\ exec' = exec /\ ~ saved' /\ (mode' = "klee" => untried' = {})
  BY <1>1, <1>2, JudgedInv
<1>4. PICK k \in Nat : \E f, g : Compared(k, f, g)
  BY <1>1 DEF RInv, CompareInv
<1>5. PICK f, g : Compared(k, f, g)
  BY <1>4
<1> DEFINE x == exec[1]
           y == exec[2]
<1>6. x \in Seq(Instruction) /\ y \in Seq(Instruction)
  BY <1>1 DEF RInv, ExecInv, Replaying
<1>7. trace[1] \in Seq(TraceLine) /\ trace[2] \in Seq(TraceLine) /\ pc \in Nat
  BY DEF RInv, ReplayType
<1>8. /\ k <= Len(x) /\ k <= Len(y) /\ \A j \in 1..k : x[j] = y[j]
      /\ Laid(f, x, Len(x), trace[1]) /\ Laid(g, y, Len(y), trace[2])
      /\ AtInstruction(k, f, g) \/ \E m \in Nat : AtAccess(k, m, f, g)
  BY <1>5 DEF Compared
<1>9. LinesAfter(k, f, x, trace[1])
  BY <1>6, <1>7, <1>8, LaidNext
<1>10. LinesAfter(k, g, y, trace[2])
  BY <1>6, <1>7, <1>8, LaidNext
<1> HIDE DEF x, y
<1>12. Len(x) \in Nat /\ Len(y) \in Nat
  BY <1>6
<1>11. ~ \E m \in Nat : AtAccess(k, m, f, g)
  <2> SUFFICES ASSUME NEW m \in Nat, AtAccess(k, m, f, g) PROVE FALSE
    OBVIOUS
  <2>1. /\ k < Len(x) /\ k < Len(y) /\ pc = f[k] + 1 + m /\ pc = g[k] + 1 + m
        /\ m <= Len(x[k + 1].ops) /\ m <= Len(y[k + 1].ops)
        /\ m < Len(x[k + 1].ops) \/ m < Len(y[k + 1].ops)
    BY DEF AtAccess, x, y
  <2>2. m < Len(x[k + 1].ops) => pc < Len(trace[1])
    BY <1>6, <1>7, <1>8, <2>1, LineInside DEF LineAt
  <2>3. m < Len(y[k + 1].ops) => pc < Len(trace[2])
    BY <1>6, <1>7, <1>8, <2>1, LineInside DEF LineAt
  <2> QED BY <1>1, <1>7, <2>1, <2>2, <2>3
<1>17. pc = f[k] /\ pc = g[k]
  BY <1>8, <1>11 DEF AtInstruction
<1>13. k = Len(x) /\ k = Len(y)
  BY <1>1, <1>7, <1>8, <1>9, <1>10, <1>12, <1>17 DEF LinesAfter
<1>14. x = y
  BY <1>6, <1>8, <1>13, SeqEqual
<1>15. exec'[1] = exec'[2]
  BY <1>3, <1>14 DEF x, y
<1>16. StatusMeans'
  BY <1>3, <1>15 DEF StatusMeans
<1> QED BY <1>3, <1>16 DEF RInv

\* The verdict on a difference.
LEMMA JudgeInv == RInv /\ Judge => RInv'
<1> SUFFICES ASSUME RInv, Judge PROVE RInv'
  OBVIOUS
<1>1. PICK line \in Lines, kind \in {"branch", "memory", "none"} :
        claim' = [line |-> line, kind |-> kind] /\ Judged(Verdict([line |-> line, kind |-> kind]))
  BY DEF Judge
<1> DEFINE c == [line |-> line, kind |-> kind]
           st == Verdict(c)
<1>2. phase = "judge" /\ claim' = c /\ Judged(st)
  BY <1>1 DEF Judge
<1>3. row <= NumRows
  BY <1>2 DEF RInv, RowInv, Replaying
<1>4. st # "not_reproduced" /\ st # "identical_trace"
  BY DEF Verdict
<1>5. st = "success" => Resolved # None /\ KindMatches(c) /\ SameStatement(prog, c.line, Resolved)
  BY DEF Verdict
<1>6. /\ exec[1] # exec[2] /\ Classified = KindShown /\ div.culprit # None
      /\ ~ MissingFirst => div.culprit = FirstLeak.line
  BY <1>2 DEF RInv, CulpritLeaks, CompareInv
<1>7. div.culprit \notin nodebug => Resolved = div.culprit
  BY <1>6 DEF Resolved
<1>9. st = "success" => c.kind \in {"none", KindShown}
  BY <1>5, <1>6 DEF KindMatches
<1>10. st = "success" =>
         \/ SameStatement(prog, c.line, FirstLeak.line)
         \/ FirstLeak.line \in nodebug \/ MissingFirst
  BY <1>5, <1>6, <1>7
<1> HIDE DEF c, st
<1>11. /\ ReplayType' /\ RowInv' /\ ExecInv' /\ WritingInv' /\ CompareInv' /\ CulpritLeaks'
       /\ \A s : JustJudged(s)' => s = st
       /\ exec' = exec /\ ~ saved' /\ (mode' = "klee" => untried' = {})
  BY <1>2, <1>3, <1>4, JudgedInv
<1>12. prog' = prog /\ nodebug' = nodebug
  BY <1>2 DEF Judged
<1>16. FirstLeak' = FirstLeak /\ KindShown' = KindShown /\ (MissingFirst' <=> MissingFirst)
  BY <1>11, LeakUnchanged
<1>13. JustJudged("identical_trace")' => FALSE
  BY <1>4, <1>11
<1>14. JustJudged("success")' =>
         /\ exec'[1] # exec'[2]
         /\ claim'.kind \in {"none", KindShown'}
         /\ \/ SameStatement(prog', claim'.line, FirstLeak'.line)
            \/ FirstLeak'.line \in nodebug' \/ MissingFirst'
  <2> SUFFICES ASSUME JustJudged("success")'
               PROVE  /\ exec'[1] # exec'[2]
                      /\ claim'.kind \in {"none", KindShown'}
                      /\ \/ SameStatement(prog', claim'.line, FirstLeak'.line)
                         \/ FirstLeak'.line \in nodebug' \/ MissingFirst'
    OBVIOUS
  <2>1. st = "success"
    BY <1>11
  <2> QED BY <1>2, <1>6, <1>9, <1>10, <1>11, <1>12, <1>16, <2>1
<1>15. StatusMeans'
  BY <1>11, <1>13, <1>14 DEF StatusMeans
<1> QED BY <1>11, <1>15 DEF RInv

\* A step of another component leaves the replay alone.
LEMMA ReplayStutters == RInv /\ UNCHANGED replayVars => RInv'
<1> SUFFICES ASSUME RInv, UNCHANGED replayVars PROVE RInv'
  OBVIOUS
<1> USE DEF RInv, replayVars
<1>1. ReplayType' /\ RowInv' /\ ExecInv'
  BY Zenon DEF ReplayType, RowInv, ExecInv, Replaying
<1>6. WritingInv'
  BY Zenon DEF WritingInv
<1>7. \A k, f, g : Compared(k, f, g) => Compared(k, f, g)'
  <2>1. \A k, f, g : AtInstruction(k, f, g) => AtInstruction(k, f, g)'
    BY DEF AtInstruction
  <2>2. \A k, m, f, g : AtAccess(k, m, f, g) => AtAccess(k, m, f, g)'
    BY DEF AtAccess
  <2>3. exec' = exec /\ trace' = trace
    OBVIOUS
  <2> QED BY <2>1, <2>2, <2>3, Zenon DEF Compared
<1>2. WritingInv' /\ CompareInv'
  BY <1>6, <1>7, Zenon DEF CompareInv
<1>3. FirstLeak' = FirstLeak /\ KindShown' = KindShown /\ (MissingFirst' <=> MissingFirst)
  BY LeakUnchanged
<1>5. Classified' = Classified
  BY DEF Classified
<1>4. CulpritLeaks' /\ StatusMeans'
  BY <1>3, <1>5, Zenon DEF CulpritLeaks, StatusMeans, JustJudged
<1> QED BY <1>1, <1>2, <1>4

\* Every step preserves the invariant of the replay.
LEMMA ReplayNextInv == RInv /\ [ReplayNext]_replayVars => RInv'
  BY StartRowInv, NoWitnessInv, SkipInv, SaveInv, TraceInv, FinishInv, TimeoutInv, PinFailsInv,
     SameLineInv, DifferInv, IdenticalInv, JudgeInv, ReplayStutters, Zenon
     DEF ReplayNext, ReplayStep

\* The invariant holds of every replay.
LEMMA ReplayInvariant == ReplaySpec => []RInv
  BY ReplayInitInv, ReplayNextInv, PTL DEF ReplaySpec

\* For all executions that begin alike, of any length and with any accesses, the comparison
\* of their traces names the first instruction they differ in, and how; a missing access is
\* taken for a branch (compare_trace_files, classify_divergence).
THEOREM ReplayCulprit == ReplaySpec => []CulpritLeaks
<1>1. RInv => CulpritLeaks
  BY DEF RInv
<1> QED BY <1>1, ReplayInvariant, PTL

\* For all of them and any number of rows, a row's status says what its replay did, and a
\* row is saved without one only if build_rows had nothing to replay (mode_dataframe).
THEOREM ReplayStatus == ReplaySpec => []StatusMeans
<1>1. RInv => StatusMeans
  BY DEF RInv
<1> QED BY <1>1, ReplayInvariant, PTL
=============================================================================
