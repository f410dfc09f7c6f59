------------------------- MODULE ParallelCopiesProofs -------------------------
(***************************************************************************)
(* Proofs about module ParallelCopies, for any number of copies, any       *)
(* output and any mixture of failed starts, exceptions and signals.        *)
(***************************************************************************)
EXTENDS ParallelCopies, TLAPS

ProcState == {"none", "running", "exited"}

CopiesType ==
  /\ pc \in LoopPc \cup {"term1", "term2", "force", "collect", "done"}
  /\ at \in 1..(NumCopies + 1)
  /\ ready \subseteq Worker \X Stream
  /\ copy \in [Worker -> ProcState] /\ copyRc \in [Worker -> Int]
  /\ cmd \in [Worker -> ProcState] /\ cmdRc \in [Worker -> Int]
  /\ copying \subseteq Worker /\ tracked \subseteq Worker /\ succeeded \subseteq Worker
  /\ holder \in [Worker -> BOOLEAN]
  /\ unread \in [Worker -> [Stream -> Nat]]
  /\ printed \in [Worker -> [Stream -> Nat]]
  /\ logged \in [Worker -> [Stream -> Nat]]
  /\ openStreams \in [Worker -> SUBSET Stream]
  /\ code \in [Worker -> Int]
  /\ finalized \in [Worker -> BOOLEAN]

\* neither a signal nor another exception has left the event loop
Normal == ~ interrupted /\ ~ raised

\* a worker goes from its copy over a successful copy to a tracked command; the loops
\* are at a worker that has not passed their step
FlowInv ==
  /\ pc \in {"assignCopy", "spawn", "assign"} => at \in Worker
  /\ pc \in {"start", "assignCopy"} =>
       \A w \in Worker : w >= at => /\ ~ finalized[w] /\ w \notin copying
                                    /\ (pc = "start" \/ w # at) => copy[w] = "none"
  /\ tracked \subseteq succeeded /\ succeeded \subseteq copying
  /\ \A w \in succeeded : copy[w] = "exited" /\ copyRc[w] = 0
  /\ \A w \in Worker \ succeeded : cmd[w] = "none"
  /\ \A w \in tracked : cmd[w] # "none"
  /\ pc \in {"spawn", "assign"} => at \in succeeded \ tracked /\ ~ finalized[at]
  /\ pc = "spawn" => cmd[at] = "none"
  /\ pc = "assign" => cmd[at] # "none"
  /\ \A w \in Worker : ~ finalized[w] => code[w] = None

\* a worker the loop finalized has no process left, and its code is 0 only if its
\* command ended with 0
FinalInv ==
  Normal => \A w \in Worker : finalized[w] =>
    /\ copy[w] # "running" /\ cmd[w] # "running"
    /\ w \in tracked => cmd[w] = "exited" /\ openStreams[w] = {}
    /\ code[w] = 0 => w \in tracked /\ cmdRc[w] = 0

\* every chunk is in the pipe or in the log, and a stream is closed only at its end
StreamInv ==
  /\ \A w \in Worker : \A s \in Stream : logged[w][s] + unread[w][s] = printed[w][s]
  /\ Normal => \A w \in tracked : \A s \in Stream \ openStreams[w] :
                 unread[w][s] = 0 /\ AtEof(w)
  /\ pc = "drain" => \A r \in ready : unread[r[1]][r[2]] > 0 \/ AtEof(r[1])

\* without a signal and an exception the loop is left when all workers are finalized
EndInv ==
  /\ (pc \in {"force", "collect", "done"} /\ Normal) => AllFinalized
  /\ ret = 0 => pc = "done" /\ Normal /\ \A w \in Worker : code[w] = 0
  /\ removed => pc = "done" /\ ~ interrupted

\* once terminate_workers has waited for a worker, no process of it that it knew of is
\* running, and no signal is sent before the first interrupt
StopInv ==
  /\ pc \in {"term1", "term2"} => interrupted
  /\ expired => interrupted
  /\ \A p \in termed : interrupted
  /\ interrupted => pc \notin {"start", "assignCopy"}
  /\ pc = "term2" => \A w \in Worker : w < at =>
       /\ w \in copying => copy[w] # "running"
       /\ w \in tracked => cmd[w] # "running"
  /\ (interrupted /\ ~ aborted /\ pc \notin {"term1", "term2"}) =>
       /\ \A w \in copying : copy[w] # "running"
       /\ \A w \in tracked \ late : cmd[w] # "running"
  /\ (interrupted /\ pc = "assign") => at \in late

PInv == CopiesType /\ FlowInv /\ FinalInv /\ StreamInv /\ EndInv /\ StopInv

-----------------------------------------------------------------------------

(* The assumption on the constants is used throughout. *)
USE CopiesAssumption

\* Workers are numbered from one, and the loops end one past the last.
LEMMA WorkerFacts ==
  /\ \A w \in Worker : w \in Nat /\ w >= 1 /\ w + 1 \in 1..(NumCopies + 1)
  /\ 1 \in 1..(NumCopies + 1)
  /\ None \in Int /\ None # 0
  BY DEF Worker, None

\* Marking one worker keeps a function of Booleans.
LEMMA MarkOne ==
  ASSUME NEW f \in [Worker -> BOOLEAN], NEW x
  PROVE  [f EXCEPT ![x] = TRUE] \in [Worker -> BOOLEAN]
  OBVIOUS

\* Changing one counter changes no other.
LEMMA SetCount ==
  ASSUME NEW f \in [Worker -> [Stream -> Nat]], NEW w \in Worker, NEW s \in Stream, NEW n \in Nat
  PROVE  /\ [f EXCEPT ![w][s] = n] \in [Worker -> [Stream -> Nat]]
         /\ [f EXCEPT ![w][s] = n][w][s] = n
         /\ \A v \in Worker : \A t \in Stream : (v # w \/ t # s) => [f EXCEPT ![w][s] = n][v][t] = f[v][t]
  OBVIOUS

\* What one read of drain_worker_streams does.
LEMMA DrainCases ==
  ASSUME CopiesType, DrainStream
  PROVE  \E w \in Worker : \E s \in Stream :
           /\ <<w, s>> \in ready /\ ready' = ready \ {<<w, s>>}
           /\ \/ /\ unread[w][s] > 0
                 /\ unread' = [unread EXCEPT ![w][s] = unread[w][s] - 1]
                 /\ logged' = [logged EXCEPT ![w][s] = logged[w][s] + 1]
                 /\ openStreams' = openStreams
              \/ /\ ~ (unread[w][s] > 0)
                 /\ openStreams' = [openStreams EXCEPT ![w] = openStreams[w] \ {s}]
                 /\ unread' = unread /\ logged' = logged
<1>1. PICK r \in ready :
        /\ ready' = ready \ {r}
        /\ \/ /\ unread[r[1]][r[2]] > 0
              /\ unread' = [unread EXCEPT ![r[1]][r[2]] = unread[r[1]][r[2]] - 1]
              /\ logged' = [logged EXCEPT ![r[1]][r[2]] = logged[r[1]][r[2]] + 1]
              /\ openStreams' = openStreams
           \/ /\ ~ (unread[r[1]][r[2]] > 0)
              /\ openStreams' = [openStreams EXCEPT ![r[1]] = openStreams[r[1]] \ {r[2]}]
              /\ unread' = unread /\ logged' = logged
  BY Zenon DEF DrainStream
<1>2. r[1] \in Worker /\ r[2] \in Stream /\ r = <<r[1], r[2]>>
  BY DEF CopiesType
<1>3. QED
  BY <1>1, <1>2

\* The recorded code is a number.
LEMMA FinalCodeType ==
  ASSUME CopiesType, NEW w \in Worker, NEW d \in Int
  PROVE  FinalCode(w, d) \in Int
<1>1. code[w] \in Int /\ cmdRc[w] \in Int /\ copyRc[w] \in Int
  BY DEF CopiesType
<1>2. QED
  BY <1>1 DEF FinalCode

\* The type of the state is preserved by every step.
LEMMA TypeStep ==
  ASSUME PInv, [Next]_vars
  PROVE  CopiesType'
<1>0. CopiesType /\ FlowInv
  BY DEF PInv
<1>1. CASE StartCopy
  <2>1. at \in Worker /\ at + 1 \in 1..(NumCopies + 1)
    BY <1>1, WorkerFacts DEF StartCopy
  <2>2. copy' \in [Worker -> ProcState] /\ code' \in [Worker -> Int]
    BY <1>0, <1>1 DEF StartCopy, CopiesType, ProcState
  <2>3. finalized' \in [Worker -> BOOLEAN]
    BY <1>0, <1>1, MarkOne DEF StartCopy, CopiesType
  <2>4. at' \in 1..(NumCopies + 1) /\ pc' \in LoopPc
    BY <1>0, <1>1, <2>1 DEF StartCopy, CopiesType, LoopPc
  <2>5. QED
    BY <1>0, <1>1, <2>2, <2>3, <2>4 DEF StartCopy, CopiesType, cmdVars
<1>2. CASE AssignCopy
  <2>1. at \in Worker /\ at + 1 \in 1..(NumCopies + 1)
    BY <1>0, <1>2, WorkerFacts DEF AssignCopy, FlowInv
  <2>2. QED
    BY <1>0, <1>2, <2>1 DEF AssignCopy, CopiesType, LoopPc, copyVars, cmdVars
<1>3. CASE StartDone
  BY <1>0, WorkerFacts, <1>3 DEF StartDone, CopiesType, ProcState, LoopPc, loopVars,
       endVars, copyVars, cmdVars, recVars
<1>4. CASE PollSkip
  BY <1>0, WorkerFacts, <1>4 DEF PollSkip, CopiesType, ProcState, LoopPc, loopVars,
       endVars, copyVars, cmdVars, recVars
<1>5. CASE PollCopy
  <2>1. at \in Worker /\ at + 1 \in 1..(NumCopies + 1) /\ copyRc[at] \in Int
    BY <1>0, <1>5, WorkerFacts DEF PollCopy, CopiesType
  <2>2. code' \in [Worker -> Int]
    <3>1. code' = code \/ code' = [code EXCEPT ![at] = copyRc[at]]
      BY <1>5 DEF PollCopy
    <3>2. QED
      BY <1>0, <2>1, <3>1 DEF CopiesType
  <2>2a. succeeded' \subseteq Worker
    <3>1. succeeded' \subseteq succeeded \cup {at}
      BY <1>5 DEF PollCopy
    <3>2. QED
      BY <1>0, <2>1, <3>1 DEF CopiesType
  <2>3. finalized' \in [Worker -> BOOLEAN]
    BY <1>0, <1>5, MarkOne DEF PollCopy, CopiesType
  <2>4. at' \in 1..(NumCopies + 1) /\ pc' \in {"poll", "spawn"}
    <3>1. (at' = at + 1 /\ pc' = pc) \/ (at' = at /\ pc' = "spawn")
      BY <1>5 DEF PollCopy
    <3>2. QED
      BY <1>0, <1>5, <2>1, <3>1 DEF PollCopy, CopiesType
  <2>5. QED
    BY <1>0, <1>5, <2>2, <2>2a, <2>3, <2>4 DEF PollCopy, CopiesType, LoopPc, copyVars, cmdVars
<1>6. CASE SpawnCommand
  <2>1. at \in Worker /\ at + 1 \in 1..(NumCopies + 1)
    BY <1>0, <1>6, WorkerFacts DEF SpawnCommand, FlowInv
  <2>2. cmd' \in [Worker -> ProcState] /\ code' \in [Worker -> Int]
    <3>1. /\ cmd' = cmd \/ cmd' = [cmd EXCEPT ![at] = "running"]
          /\ code' = code \/ code' = [code EXCEPT ![at] = 1]
      BY <1>6 DEF SpawnCommand
    <3>2. "running" \in ProcState /\ 1 \in Int
      BY DEF ProcState
    <3>3. cmd' \in [Worker -> ProcState]
      BY <1>0, <3>1, <3>2 DEF CopiesType
    <3>4. code' \in [Worker -> Int]
      BY <1>0, <3>1, <3>2 DEF CopiesType
    <3>5. QED
      BY <3>3, <3>4
  <2>3. finalized' \in [Worker -> BOOLEAN]
    BY <1>0, <1>6, MarkOne DEF SpawnCommand, CopiesType
  <2>4. at' \in 1..(NumCopies + 1) /\ pc' \in LoopPc
    BY <1>0, <1>6, <2>1 DEF SpawnCommand, CopiesType, LoopPc
  <2>5. QED
    BY <1>0, <1>6, <2>2, <2>3, <2>4 DEF SpawnCommand, CopiesType, copyVars
<1>7. CASE AssignProcess
  <2>1. at \in Worker /\ at + 1 \in 1..(NumCopies + 1)
    BY <1>0, <1>7, WorkerFacts DEF AssignProcess, FlowInv
  <2>2. openStreams' \in [Worker -> SUBSET Stream]
    BY <1>0, <1>7 DEF AssignProcess, CopiesType
  <2>3. QED
    BY <1>0, <1>7, <2>1, <2>2 DEF AssignProcess, CopiesType, LoopPc, copyVars, cmdVars
<1>8. CASE PollDone
  BY <1>0, WorkerFacts, <1>8 DEF PollDone, CopiesType, ProcState, LoopPc, loopVars,
       endVars, copyVars, cmdVars, recVars
<1>9. CASE Select
  <2>1. ready' \subseteq Worker \X Stream
    BY <1>9 DEF Select, Readable
  <2>2. QED
    BY <1>0, <1>9, <2>1 DEF Select, CopiesType, LoopPc, copyVars, cmdVars, recVars
<1>10. CASE DrainStream
  <2>1. PICK w \in Worker, s \in Stream :
          /\ ready' = ready \ {<<w, s>>}
          /\ \/ /\ unread[w][s] > 0
                /\ unread' = [unread EXCEPT ![w][s] = unread[w][s] - 1]
                /\ logged' = [logged EXCEPT ![w][s] = logged[w][s] + 1]
                /\ openStreams' = openStreams
             \/ /\ openStreams' = [openStreams EXCEPT ![w] = openStreams[w] \ {s}]
                /\ unread' = unread /\ logged' = logged
    BY <1>0, <1>10, DrainCases
  <2>2. unread[w][s] \in Nat /\ logged[w][s] + 1 \in Nat /\ (unread[w][s] > 0 => unread[w][s] - 1 \in Nat)
    BY <1>0 DEF CopiesType
  <2>3. unread' \in [Worker -> [Stream -> Nat]] /\ logged' \in [Worker -> [Stream -> Nat]]
    <3>1. unread \in [Worker -> [Stream -> Nat]] /\ logged \in [Worker -> [Stream -> Nat]]
      BY <1>0 DEF CopiesType
    <3>2. CASE unread' = unread /\ logged' = logged
      BY <3>1, <3>2
    <3>3. CASE unread[w][s] > 0 /\ unread' = [unread EXCEPT ![w][s] = unread[w][s] - 1]
               /\ logged' = [logged EXCEPT ![w][s] = logged[w][s] + 1]
      <4>1. unread[w][s] - 1 \in Nat /\ logged[w][s] + 1 \in Nat
        BY <2>2, <3>3
      <4>2. QED
        BY <3>1, <3>3, <4>1, SetCount, Zenon
    <3>4. QED
      BY <2>1, <3>2, <3>3
  <2>4. openStreams' \in [Worker -> SUBSET Stream]
    <3>1. openStreams \in [Worker -> SUBSET Stream] /\ openStreams[w] \ {s} \in SUBSET Stream
      BY <1>0 DEF CopiesType
    <3>2. openStreams' = openStreams \/ openStreams' = [openStreams EXCEPT ![w] = openStreams[w] \ {s}]
      BY <2>1
    <3>3. QED
      BY <3>1, <3>2
  <2>5. ready' \subseteq Worker \X Stream
    BY <1>0, <2>1 DEF CopiesType
  <2>6. QED
    BY <1>0, <1>10, <2>3, <2>4, <2>5 DEF DrainStream, CopiesType, copyVars
<1>11. CASE DrainDone
  BY <1>0, WorkerFacts, <1>11 DEF DrainDone, CopiesType, ProcState, LoopPc, loopVars,
       endVars, copyVars, cmdVars, recVars
<1>12. CASE FinalizeExited
  BY <1>0, WorkerFacts, <1>12 DEF FinalizeExited, CopiesType, ProcState, LoopPc,
       loopVars, endVars, copyVars, cmdVars, recVars
<1>13. CASE PassDone
  BY <1>0, WorkerFacts, <1>13 DEF PassDone, CopiesType, ProcState, LoopPc, loopVars,
       endVars, copyVars, cmdVars, recVars
<1>14. CASE SendSignals
  BY <1>0, WorkerFacts, <1>14 DEF SendSignals, Polled, CopiesType, ProcState, LoopPc, loopVars,
       endVars, copyVars, cmdVars, recVars
<1>15. CASE WaitDone
  BY <1>0, WorkerFacts, <1>15 DEF WaitDone, Polled, AllFinalized, CopiesType, ProcState, LoopPc, loopVars,
       endVars, copyVars, cmdVars, recVars
<1>16. CASE ForceFinalize
  <2>1. code' \in [Worker -> Int]
    <3>1. code' = [w \in Worker |-> IF finalized[w] THEN code[w]
                                    ELSE FinalCode(w, IF interrupted THEN 130 ELSE 1)]
      BY <1>16 DEF ForceFinalize, ForceWorkers
    <3>2. \A w \in Worker : FinalCode(w, IF interrupted THEN 130 ELSE 1) \in Int /\ code[w] \in Int
      BY <1>0, FinalCodeType DEF CopiesType
    <3>3. QED
      BY <3>1, <3>2
  <2>2. openStreams' \in [Worker -> SUBSET Stream]
    BY <1>16 DEF ForceFinalize, ForceWorkers
  <2>3. finalized' \in [Worker -> BOOLEAN]
    BY <1>16, Zenon DEF ForceFinalize, ForceWorkers
  <2>4. QED
    BY <1>0, <1>16, <2>1, <2>2, <2>3 DEF ForceFinalize, CopiesType, loopVars, copyVars, cmdVars
<1>17. CASE Collect
  BY <1>0, WorkerFacts, <1>17 DEF Collect, CopiesType, ProcState, LoopPc, loopVars,
       endVars, copyVars, cmdVars, recVars
<1>18. CASE DeadlinePasses
  BY <1>0, WorkerFacts, <1>18 DEF DeadlinePasses, CopiesType, ProcState, LoopPc,
       loopVars, endVars, copyVars, cmdVars, recVars
<1>19. CASE Interrupt
  BY <1>0, WorkerFacts, <1>19 DEF Interrupt, CopiesType, ProcState, LoopPc, loopVars,
       endVars, copyVars, cmdVars, recVars
<1>19a. CASE InterruptAgain
  BY <1>0, WorkerFacts, <1>19a DEF InterruptAgain, AllFinalized, CopiesType, ProcState, LoopPc, loopVars,
       endVars, copyVars, cmdVars, recVars
<1>19b. CASE DefaultSignal
  BY <1>0, WorkerFacts, <1>19b DEF DefaultSignal, CopiesType, ProcState, LoopPc, loopVars,
       endVars, copyVars, cmdVars, recVars
<1>20. CASE LoopRaises
  BY <1>0, WorkerFacts, <1>20 DEF LoopRaises, CopiesType, ProcState, LoopPc, loopVars,
       endVars, copyVars, cmdVars, recVars
<1>21. ASSUME NEW w \in Worker, CopyExit(w) PROVE CopiesType'
  BY <1>0, WorkerFacts, <1>21 DEF CopyExit, CopiesType, ProcState, LoopPc, loopVars,
       endVars, copyVars, cmdVars, recVars
<1>22. ASSUME NEW w \in Worker, CommandExit(w) PROVE CopiesType'
  BY <1>0, WorkerFacts, <1>22 DEF CommandExit, CopiesType, ProcState, LoopPc, loopVars,
       endVars, copyVars, cmdVars, recVars
<1>23. ASSUME NEW w \in Worker, HolderEnds(w) PROVE CopiesType'
  BY <1>0, WorkerFacts, <1>23 DEF HolderEnds, CopiesType, ProcState, LoopPc, loopVars,
       endVars, copyVars, cmdVars, recVars
<1>24. ASSUME NEW w \in Worker, KilledCopy(w) PROVE CopiesType'
  BY <1>0, WorkerFacts, <1>24 DEF KilledCopy, CopiesType, ProcState, LoopPc, loopVars,
       endVars, copyVars, cmdVars, recVars
<1>25. ASSUME NEW w \in Worker, KilledCommand(w) PROVE CopiesType'
  BY <1>0, WorkerFacts, <1>25 DEF KilledCommand, CopiesType, ProcState, LoopPc,
       loopVars, endVars, copyVars, cmdVars, recVars
<1>26. ASSUME NEW w \in Worker, NEW s \in Stream, CommandPrints(w, s) PROVE CopiesType'
  BY <1>0, WorkerFacts, <1>26 DEF CommandPrints, CopiesType, ProcState, LoopPc,
       loopVars, endVars, copyVars, cmdVars, recVars
<1>27. CASE UNCHANGED vars
  BY <1>0, WorkerFacts, <1>27 DEF vars, CopiesType, ProcState, LoopPc, loopVars,
       endVars, copyVars, cmdVars, recVars
<1>28. QED
  BY <1>1, <1>2, <1>3, <1>4, <1>5, <1>6, <1>7, <1>8, <1>9, <1>10, <1>11, <1>12, <1>13,
       <1>14, <1>15, <1>16, <1>17, <1>18, <1>19, <1>19a, <1>19b, <1>20, <1>21, <1>22, <1>23, <1>24,
       <1>25, <1>26, <1>27
     DEF Next, MainStep, Killed, Ended

\* A worker goes through copy, success and command in that order.
LEMMA FlowStep ==
  ASSUME PInv, [Next]_vars
  PROVE  FlowInv'
<1>0. CopiesType /\ FlowInv /\ StopInv
  BY DEF PInv
<1>1. CASE StartCopy
  BY <1>0, <1>1 DEF StartCopy, CopiesType, ProcState, FlowInv, StopInv, LoopPc,
       TermCopies, TermCommands, loopVars, endVars, copyVars, cmdVars, recVars
<1>2. CASE AssignCopy
  <2>1. at \in Worker /\ at \in Nat /\ at' = at + 1 /\ copying' = copying \cup {at}
        /\ pc = "assignCopy" /\ pc' = "start"
    BY <1>0, <1>2, WorkerFacts DEF AssignCopy, FlowInv
  <2>2. UNCHANGED <<copy, copyRc, cmd, tracked, succeeded, code, finalized>>
    BY <1>2 DEF AssignCopy, copyVars, cmdVars
  <2>3. \A w \in Worker : w >= at + 1 => w >= at /\ w # at
    BY <2>1, WorkerFacts
  <2>4. \A w \in Worker : w >= at' => ~ finalized[w] /\ w \notin copying' /\ copy[w] = "none"
    BY <1>0, <2>1, <2>3 DEF FlowInv
  <2>5. QED
    BY <1>0, <2>1, <2>2, <2>4 DEF FlowInv
<1>3. CASE StartDone
  BY <1>0, <1>3 DEF StartDone, CopiesType, ProcState, FlowInv, StopInv, LoopPc,
       TermCopies, TermCommands, loopVars, endVars, copyVars, cmdVars, recVars
<1>4. CASE PollSkip
  BY <1>0, <1>4 DEF PollSkip, CopiesType, ProcState, FlowInv, StopInv, LoopPc,
       TermCopies, TermCommands, loopVars, endVars, copyVars, cmdVars, recVars
<1>5. CASE PollCopy
  <2>1. /\ at \in Worker /\ ~ finalized[at] /\ at \in copying /\ copy[at] = "exited" /\ at \notin succeeded
        /\ pc = "poll" /\ UNCHANGED <<copy, copyRc, cmd, copying, tracked>>
    BY <1>5 DEF PollCopy, copyVars, cmdVars
  <2>2. CASE copyRc[at] # 0
    <3>1. /\ finalized' = [finalized EXCEPT ![at] = TRUE] /\ code' = [code EXCEPT ![at] = copyRc[at]]
          /\ pc' = "poll" /\ succeeded' = succeeded
      BY <1>5, <2>2 DEF PollCopy
    <3>2. \A w \in Worker : ~ finalized'[w] => ~ finalized[w] /\ code'[w] = code[w]
      BY <1>0, <2>1, <3>1 DEF CopiesType
    <3>3. QED
      BY <1>0, <2>1, <3>1, <3>2 DEF FlowInv
  <2>3. CASE copyRc[at] = 0
    <3>1. pc' = "spawn" /\ at' = at /\ finalized' = finalized /\ code' = code /\ succeeded' = succeeded \cup {at}
      BY <1>5, <2>3 DEF PollCopy
    <3>2. cmd[at] = "none" /\ at \notin tracked
      BY <1>0, <2>1 DEF FlowInv
    <3>3. QED
      BY <1>0, <2>1, <2>3, <3>1, <3>2 DEF FlowInv
  <2>4. QED
    BY <2>2, <2>3
<1>6. CASE SpawnCommand
  <2>1. /\ at \in succeeded \ tracked /\ ~ finalized[at] /\ cmd[at] = "none" /\ at \in Worker
        /\ pc = "spawn" /\ UNCHANGED <<copy, copyRc, copying, tracked, succeeded>>
    BY <1>0, <1>6 DEF SpawnCommand, FlowInv, copyVars
  <2>2. CASE cmd' = [cmd EXCEPT ![at] = "running"] /\ pc' = "assign" /\ UNCHANGED <<at, code, finalized>>
    <3>1. cmd'[at] = "running" /\ \A w \in Worker : w # at => cmd'[w] = cmd[w]
      BY <1>0, <2>1, <2>2 DEF CopiesType
    <3>2. QED
      BY <1>0, <2>1, <2>2, <3>1 DEF FlowInv, CopiesType
  <2>3. CASE /\ finalized' = [finalized EXCEPT ![at] = TRUE] /\ code' = [code EXCEPT ![at] = 1]
             /\ pc' = "poll" /\ cmd' = cmd
    <3>1. \A w \in Worker : ~ finalized'[w] => ~ finalized[w] /\ code'[w] = code[w]
      BY <1>0, <2>1, <2>3 DEF CopiesType
    <3>2. QED
      BY <1>0, <2>1, <2>3, <3>1 DEF FlowInv
  <2>4. QED
    BY <1>6, <2>2, <2>3 DEF SpawnCommand
<1>7. CASE AssignProcess
  BY <1>0, <1>7 DEF AssignProcess, CopiesType, ProcState, FlowInv, StopInv, LoopPc,
       TermCopies, TermCommands, loopVars, endVars, copyVars, cmdVars, recVars
<1>8. CASE PollDone
  BY <1>0, <1>8 DEF PollDone, CopiesType, ProcState, FlowInv, StopInv, LoopPc,
       TermCopies, TermCommands, loopVars, endVars, copyVars, cmdVars, recVars
<1>9. CASE Select
  BY <1>0, <1>9 DEF Select, CopiesType, ProcState, FlowInv, StopInv, LoopPc, TermCopies,
       TermCommands, loopVars, endVars, copyVars, cmdVars, recVars
<1>10. CASE DrainStream
  BY <1>0, <1>10 DEF DrainStream, CopiesType, ProcState, FlowInv, StopInv, LoopPc,
       TermCopies, TermCommands, loopVars, endVars, copyVars, cmdVars, recVars
<1>11. CASE DrainDone
  BY <1>0, <1>11 DEF DrainDone, CopiesType, ProcState, FlowInv, StopInv, LoopPc,
       TermCopies, TermCommands, loopVars, endVars, copyVars, cmdVars, recVars
<1>12. CASE FinalizeExited
  BY <1>0, <1>12 DEF FinalizeExited, CopiesType, ProcState, FlowInv, StopInv, LoopPc,
       TermCopies, TermCommands, loopVars, endVars, copyVars, cmdVars, recVars
<1>13. CASE PassDone
  BY <1>0, <1>13 DEF PassDone, CopiesType, ProcState, FlowInv, StopInv, LoopPc,
       TermCopies, TermCommands, loopVars, endVars, copyVars, cmdVars, recVars
<1>14. CASE SendSignals
  BY <1>0, <1>14 DEF SendSignals, Polled, CopiesType, ProcState, FlowInv, StopInv, LoopPc,
       TermCopies, TermCommands, loopVars, endVars, copyVars, cmdVars, recVars
<1>15. CASE WaitDone
  BY <1>0, <1>15 DEF WaitDone, Polled, AllFinalized, CopiesType, ProcState, FlowInv, StopInv, LoopPc,
       TermCopies, TermCommands, loopVars, endVars, copyVars, cmdVars, recVars
<1>16. CASE ForceFinalize
  BY <1>0, <1>16 DEF ForceFinalize, ForceWorkers, CopiesType, ProcState, FlowInv,
       StopInv, LoopPc, TermCopies, TermCommands, loopVars, endVars, copyVars, cmdVars,
       recVars
<1>17. CASE Collect
  BY <1>0, <1>17 DEF Collect, CopiesType, ProcState, FlowInv, StopInv, LoopPc,
       TermCopies, TermCommands, loopVars, endVars, copyVars, cmdVars, recVars
<1>18. CASE DeadlinePasses
  BY <1>0, <1>18 DEF DeadlinePasses, CopiesType, ProcState, FlowInv, StopInv, LoopPc,
       TermCopies, TermCommands, loopVars, endVars, copyVars, cmdVars, recVars
<1>19. CASE Interrupt
  BY <1>0, <1>19 DEF Interrupt, CopiesType, ProcState, FlowInv, StopInv, LoopPc,
       TermCopies, TermCommands, loopVars, endVars, copyVars, cmdVars, recVars
<1>19a. CASE InterruptAgain
  BY <1>0, <1>19a DEF InterruptAgain, AllFinalized, CopiesType, ProcState, FlowInv, StopInv, LoopPc,
       TermCopies, TermCommands, loopVars, endVars, copyVars, cmdVars, recVars
<1>19b. CASE DefaultSignal
  BY <1>0, <1>19b DEF DefaultSignal, CopiesType, ProcState, FlowInv, StopInv, LoopPc,
       TermCopies, TermCommands, loopVars, endVars, copyVars, cmdVars, recVars
<1>20. CASE LoopRaises
  BY <1>0, <1>20 DEF LoopRaises, CopiesType, ProcState, FlowInv, StopInv, LoopPc,
       TermCopies, TermCommands, loopVars, endVars, copyVars, cmdVars, recVars
<1>21. ASSUME NEW w \in Worker, CopyExit(w) PROVE FlowInv'
  BY <1>0, <1>21 DEF CopyExit, CopiesType, ProcState, FlowInv, StopInv, LoopPc,
       TermCopies, TermCommands, loopVars, endVars, copyVars, cmdVars, recVars
<1>22. ASSUME NEW w \in Worker, CommandExit(w) PROVE FlowInv'
  BY <1>0, <1>22 DEF CommandExit, CopiesType, ProcState, FlowInv, StopInv, LoopPc,
       TermCopies, TermCommands, loopVars, endVars, copyVars, cmdVars, recVars
<1>23. ASSUME NEW w \in Worker, HolderEnds(w) PROVE FlowInv'
  BY <1>0, <1>23 DEF HolderEnds, CopiesType, ProcState, FlowInv, StopInv, LoopPc,
       TermCopies, TermCommands, loopVars, endVars, copyVars, cmdVars, recVars
<1>24. ASSUME NEW w \in Worker, KilledCopy(w) PROVE FlowInv'
  BY <1>0, <1>24 DEF KilledCopy, CopiesType, ProcState, FlowInv, StopInv, LoopPc,
       TermCopies, TermCommands, loopVars, endVars, copyVars, cmdVars, recVars
<1>25. ASSUME NEW w \in Worker, KilledCommand(w) PROVE FlowInv'
  BY <1>0, <1>25 DEF KilledCommand, CopiesType, ProcState, FlowInv, StopInv, LoopPc,
       TermCopies, TermCommands, loopVars, endVars, copyVars, cmdVars, recVars
<1>26. ASSUME NEW w \in Worker, NEW s \in Stream, CommandPrints(w, s) PROVE FlowInv'
  BY <1>0, <1>26 DEF CommandPrints, CopiesType, ProcState, FlowInv, StopInv, LoopPc,
       TermCopies, TermCommands, loopVars, endVars, copyVars, cmdVars, recVars
<1>27. CASE UNCHANGED vars
  BY <1>0, <1>27 DEF vars, CopiesType, ProcState, FlowInv, StopInv, LoopPc, TermCopies,
       TermCommands, loopVars, endVars, copyVars, cmdVars, recVars
<1>28. QED
  BY <1>1, <1>2, <1>3, <1>4, <1>5, <1>6, <1>7, <1>8, <1>9, <1>10, <1>11, <1>12, <1>13,
       <1>14, <1>15, <1>16, <1>17, <1>18, <1>19, <1>19a, <1>19b, <1>20, <1>21, <1>22, <1>23, <1>24,
       <1>25, <1>26, <1>27
     DEF Next, MainStep, Killed, Ended

\* A worker the loop finalizes has ended, and only a command that succeeded leaves 0.
LEMMA FinalStep ==
  ASSUME PInv, [Next]_vars
  PROVE  FinalInv'
<1>0. CopiesType /\ FlowInv /\ FinalInv /\ EndInv /\ StopInv
  BY DEF PInv
<1>1. CASE StartCopy
  BY <1>0, <1>1 DEF StartCopy, CopiesType, FlowInv, FinalInv, StopInv, Normal,
       AllFinalized, LoopPc, TermCopies, TermCommands, loopVars, endVars, copyVars,
       cmdVars, recVars
<1>2. CASE AssignCopy
  BY <1>0, <1>2 DEF AssignCopy, CopiesType, FlowInv, FinalInv, StopInv, Normal,
       AllFinalized, LoopPc, TermCopies, TermCommands, loopVars, endVars, copyVars,
       cmdVars, recVars
<1>3. CASE StartDone
  BY <1>0, <1>3 DEF StartDone, CopiesType, FlowInv, FinalInv, StopInv, Normal,
       AllFinalized, LoopPc, TermCopies, TermCommands, loopVars, endVars, copyVars,
       cmdVars, recVars
<1>4. CASE PollSkip
  BY <1>0, <1>4 DEF PollSkip, CopiesType, FlowInv, FinalInv, StopInv, Normal,
       AllFinalized, LoopPc, TermCopies, TermCommands, loopVars, endVars, copyVars,
       cmdVars, recVars
<1>5. CASE PollCopy
  BY <1>0, <1>5 DEF PollCopy, CopiesType, FlowInv, FinalInv, StopInv, Normal,
       AllFinalized, LoopPc, TermCopies, TermCommands, loopVars, endVars, copyVars,
       cmdVars, recVars
<1>6. CASE SpawnCommand
  <2>1. /\ at \in succeeded \ tracked /\ ~ finalized[at] /\ cmd[at] = "none" /\ at \in Worker /\ copy[at] = "exited"
        /\ UNCHANGED <<copy, cmdRc, tracked, openStreams, interrupted, raised>>
    BY <1>0, <1>6 DEF SpawnCommand, FlowInv, copyVars, endVars
  <2>2. CASE cmd' = [cmd EXCEPT ![at] = "running"] /\ UNCHANGED <<code, finalized>>
    <3>1. \A w \in Worker : w # at => cmd'[w] = cmd[w]
      BY <1>0, <2>2 DEF CopiesType
    <3>2. QED
      BY <1>0, <2>1, <2>2, <3>1 DEF FinalInv, Normal
  <2>3. CASE finalized' = [finalized EXCEPT ![at] = TRUE] /\ code' = [code EXCEPT ![at] = 1] /\ cmd' = cmd
    <3>1. \A w \in Worker : w # at => finalized'[w] = finalized[w] /\ code'[w] = code[w]
      BY <1>0, <2>3 DEF CopiesType
    <3>2. code'[at] = 1
      BY <1>0, <2>1, <2>3 DEF CopiesType
    <3>3. QED
      BY <1>0, <2>1, <2>3, <3>1, <3>2 DEF FinalInv, Normal
  <2>4. QED
    BY <1>6, <2>2, <2>3 DEF SpawnCommand
<1>7. CASE AssignProcess
  BY <1>0, <1>7 DEF AssignProcess, CopiesType, FlowInv, FinalInv, StopInv, Normal,
       AllFinalized, LoopPc, TermCopies, TermCommands, loopVars, endVars, copyVars,
       cmdVars, recVars
<1>8. CASE PollDone
  BY <1>0, <1>8 DEF PollDone, CopiesType, FlowInv, FinalInv, StopInv, Normal,
       AllFinalized, LoopPc, TermCopies, TermCommands, loopVars, endVars, copyVars,
       cmdVars, recVars
<1>9. CASE Select
  BY <1>0, <1>9 DEF Select, CopiesType, FlowInv, FinalInv, StopInv, Normal,
       AllFinalized, LoopPc, TermCopies, TermCommands, loopVars, endVars, copyVars,
       cmdVars, recVars
<1>10. CASE DrainStream
  <2>1. \A w \in Worker : openStreams[w] = {} => openStreams'[w] = {}
    <3>1. PICK v \in Worker, s \in Stream :
            openStreams' = openStreams \/ openStreams' = [openStreams EXCEPT ![v] = openStreams[v] \ {s}]
      BY <1>0, <1>10, DrainCases
    <3>2. QED
      BY <1>0, <3>1 DEF CopiesType
  <2>2. QED
    BY <1>0, <1>10, <2>1 DEF DrainStream, FinalInv, Normal, endVars, copyVars
<1>11. CASE DrainDone
  BY <1>0, <1>11 DEF DrainDone, CopiesType, FlowInv, FinalInv, StopInv, Normal,
       AllFinalized, LoopPc, TermCopies, TermCommands, loopVars, endVars, copyVars,
       cmdVars, recVars
<1>12. CASE FinalizeExited
  BY <1>0, <1>12 DEF FinalizeExited, CopiesType, FlowInv, FinalInv, StopInv, Normal,
       AllFinalized, LoopPc, TermCopies, TermCommands, loopVars, endVars, copyVars,
       cmdVars, recVars
<1>13. CASE PassDone
  BY <1>0, <1>13 DEF PassDone, CopiesType, FlowInv, FinalInv, StopInv, Normal,
       AllFinalized, LoopPc, TermCopies, TermCommands, loopVars, endVars, copyVars,
       cmdVars, recVars
<1>14. CASE SendSignals
  BY <1>0, <1>14 DEF SendSignals, Polled, CopiesType, FlowInv, FinalInv, StopInv, Normal,
       AllFinalized, LoopPc, TermCopies, TermCommands, loopVars, endVars, copyVars,
       cmdVars, recVars
<1>15. CASE WaitDone
  BY <1>0, <1>15 DEF WaitDone, Polled, AllFinalized, CopiesType, FlowInv, FinalInv, StopInv, Normal,
       AllFinalized, LoopPc, TermCopies, TermCommands, loopVars, endVars, copyVars,
       cmdVars, recVars
<1>16. CASE ForceFinalize
  <2>1. UNCHANGED <<copy, cmd, cmdRc, tracked, interrupted, raised>> /\ pc = "force"
    BY <1>16 DEF ForceFinalize, endVars, copyVars, cmdVars
  <2>2. Normal => \A w \in Worker : finalized[w]
    BY <1>0, <2>1 DEF EndInv, AllFinalized
  <2>3. \A w \in Worker : openStreams'[w] = {} /\ (finalized[w] => code'[w] = code[w])
    BY <1>16 DEF ForceFinalize, ForceWorkers
  <2>4. QED
    BY <1>0, <2>1, <2>2, <2>3 DEF FinalInv, Normal
<1>17. CASE Collect
  BY <1>0, <1>17 DEF Collect, CopiesType, FlowInv, FinalInv, StopInv, Normal,
       AllFinalized, LoopPc, TermCopies, TermCommands, loopVars, endVars, copyVars,
       cmdVars, recVars
<1>18. CASE DeadlinePasses
  BY <1>0, <1>18 DEF DeadlinePasses, CopiesType, FlowInv, FinalInv, StopInv, Normal,
       AllFinalized, LoopPc, TermCopies, TermCommands, loopVars, endVars, copyVars,
       cmdVars, recVars
<1>19. CASE Interrupt
  BY <1>0, <1>19 DEF Interrupt, CopiesType, FlowInv, FinalInv, StopInv, Normal,
       AllFinalized, LoopPc, TermCopies, TermCommands, loopVars, endVars, copyVars,
       cmdVars, recVars
<1>19a. CASE InterruptAgain
  BY <1>0, <1>19a DEF InterruptAgain, AllFinalized, CopiesType, FlowInv, FinalInv, StopInv, Normal,
       AllFinalized, LoopPc, TermCopies, TermCommands, loopVars, endVars, copyVars,
       cmdVars, recVars
<1>19b. CASE DefaultSignal
  BY <1>0, <1>19b DEF DefaultSignal, CopiesType, FlowInv, FinalInv, StopInv, Normal,
       AllFinalized, LoopPc, TermCopies, TermCommands, loopVars, endVars, copyVars,
       cmdVars, recVars
<1>20. CASE LoopRaises
  BY <1>0, <1>20 DEF LoopRaises, CopiesType, FlowInv, FinalInv, StopInv, Normal,
       AllFinalized, LoopPc, TermCopies, TermCommands, loopVars, endVars, copyVars,
       cmdVars, recVars
<1>21. ASSUME NEW w \in Worker, CopyExit(w) PROVE FinalInv'
  BY <1>0, <1>21 DEF CopyExit, CopiesType, FlowInv, FinalInv, StopInv, Normal,
       AllFinalized, LoopPc, TermCopies, TermCommands, loopVars, endVars, copyVars,
       cmdVars, recVars
<1>22. ASSUME NEW w \in Worker, CommandExit(w) PROVE FinalInv'
  BY <1>0, <1>22 DEF CommandExit, CopiesType, FlowInv, FinalInv, StopInv, Normal,
       AllFinalized, LoopPc, TermCopies, TermCommands, loopVars, endVars, copyVars,
       cmdVars, recVars
<1>23. ASSUME NEW w \in Worker, HolderEnds(w) PROVE FinalInv'
  BY <1>0, <1>23 DEF HolderEnds, CopiesType, FlowInv, FinalInv, StopInv, Normal,
       AllFinalized, LoopPc, TermCopies, TermCommands, loopVars, endVars, copyVars,
       cmdVars, recVars
<1>24. ASSUME NEW w \in Worker, KilledCopy(w) PROVE FinalInv'
  BY <1>0, <1>24 DEF KilledCopy, CopiesType, FlowInv, FinalInv, StopInv, Normal,
       AllFinalized, LoopPc, TermCopies, TermCommands, loopVars, endVars, copyVars,
       cmdVars, recVars
<1>25. ASSUME NEW w \in Worker, KilledCommand(w) PROVE FinalInv'
  BY <1>0, <1>25 DEF KilledCommand, CopiesType, FlowInv, FinalInv, StopInv, Normal,
       AllFinalized, LoopPc, TermCopies, TermCommands, loopVars, endVars, copyVars,
       cmdVars, recVars
<1>26. ASSUME NEW w \in Worker, NEW s \in Stream, CommandPrints(w, s) PROVE FinalInv'
  BY <1>0, <1>26 DEF CommandPrints, CopiesType, FlowInv, FinalInv, StopInv, Normal,
       AllFinalized, LoopPc, TermCopies, TermCommands, loopVars, endVars, copyVars,
       cmdVars, recVars
<1>27. CASE UNCHANGED vars
  BY <1>0, <1>27 DEF vars, CopiesType, FlowInv, FinalInv, StopInv, Normal, AllFinalized,
       LoopPc, TermCopies, TermCommands, loopVars, endVars, copyVars, cmdVars, recVars
<1>28. QED
  BY <1>1, <1>2, <1>3, <1>4, <1>5, <1>6, <1>7, <1>8, <1>9, <1>10, <1>11, <1>12, <1>13,
       <1>14, <1>15, <1>16, <1>17, <1>18, <1>19, <1>19a, <1>19b, <1>20, <1>21, <1>22, <1>23, <1>24,
       <1>25, <1>26, <1>27
     DEF Next, MainStep, Killed, Ended

\* No output is lost, and a stream is closed only when it can have no more.
LEMMA StreamStep ==
  ASSUME PInv, [Next]_vars
  PROVE  StreamInv'
<1>0. CopiesType /\ FlowInv /\ FinalInv /\ StreamInv /\ EndInv /\ StopInv
  BY DEF PInv
<1>1. CASE StartCopy
  BY <1>0, <1>1 DEF StartCopy, CopiesType, FlowInv, StreamInv, AtEof, Normal, LoopPc,
       TermCopies, TermCommands, loopVars, endVars, copyVars, cmdVars, recVars
<1>2. CASE AssignCopy
  BY <1>0, <1>2 DEF AssignCopy, CopiesType, FlowInv, StreamInv, AtEof, Normal, LoopPc,
       TermCopies, TermCommands, loopVars, endVars, copyVars, cmdVars, recVars
<1>3. CASE StartDone
  BY <1>0, <1>3 DEF StartDone, CopiesType, FlowInv, StreamInv, AtEof, Normal, LoopPc,
       TermCopies, TermCommands, loopVars, endVars, copyVars, cmdVars, recVars
<1>4. CASE PollSkip
  BY <1>0, <1>4 DEF PollSkip, CopiesType, FlowInv, StreamInv, AtEof, Normal, LoopPc,
       TermCopies, TermCommands, loopVars, endVars, copyVars, cmdVars, recVars
<1>5. CASE PollCopy
  BY <1>0, <1>5 DEF PollCopy, CopiesType, FlowInv, StreamInv, AtEof, Normal, LoopPc,
       TermCopies, TermCommands, loopVars, endVars, copyVars, cmdVars, recVars
<1>6. CASE SpawnCommand
  BY <1>0, <1>6 DEF SpawnCommand, CopiesType, FlowInv, StreamInv, AtEof, Normal, LoopPc,
       TermCopies, TermCommands, loopVars, endVars, copyVars, cmdVars, recVars
<1>7. CASE AssignProcess
  BY <1>0, <1>7 DEF AssignProcess, CopiesType, FlowInv, StreamInv, AtEof, Normal,
       LoopPc, TermCopies, TermCommands, loopVars, endVars, copyVars, cmdVars, recVars
<1>8. CASE PollDone
  BY <1>0, <1>8 DEF PollDone, CopiesType, FlowInv, StreamInv, AtEof, Normal, LoopPc,
       TermCopies, TermCommands, loopVars, endVars, copyVars, cmdVars, recVars
<1>9. CASE Select
  <2>1. ready' = Readable /\ pc' = "drain" /\ UNCHANGED <<interrupted, raised, cmd, holder, unread, printed, logged, openStreams, tracked>>
    BY <1>9 DEF Select, endVars, cmdVars, recVars
  <2>2. \A r \in Readable : unread[r[1]][r[2]] > 0 \/ AtEof(r[1])
    BY DEF Readable
  <2>3. \A w : AtEof(w)' = AtEof(w)
    BY <2>1 DEF AtEof
  <2>4. QED
    BY <1>0, <2>1, <2>2, <2>3 DEF StreamInv, Normal
<1>10. CASE DrainStream
  <2>1. PICK w \in Worker, s \in Stream :
          /\ <<w, s>> \in ready /\ ready' = ready \ {<<w, s>>}
          /\ \/ /\ unread[w][s] > 0
                /\ unread' = [unread EXCEPT ![w][s] = unread[w][s] - 1]
                /\ logged' = [logged EXCEPT ![w][s] = logged[w][s] + 1]
                /\ openStreams' = openStreams
             \/ /\ ~ (unread[w][s] > 0)
                /\ openStreams' = [openStreams EXCEPT ![w] = openStreams[w] \ {s}]
                /\ unread' = unread /\ logged' = logged
    BY <1>0, <1>10, DrainCases
  <2>2. /\ unread \in [Worker -> [Stream -> Nat]] /\ logged \in [Worker -> [Stream -> Nat]]
        /\ printed \in [Worker -> [Stream -> Nat]] /\ openStreams \in [Worker -> SUBSET Stream]
        /\ ready \subseteq Worker \X Stream /\ tracked \subseteq Worker
    BY <1>0 DEF CopiesType
  <2>3. UNCHANGED <<pc, interrupted, raised, cmd, holder, printed, tracked>> /\ pc = "drain"
    BY <1>10 DEF DrainStream, endVars
  <2>4. (\A v : AtEof(v)' = AtEof(v)) /\ Normal' = Normal
    BY <2>3 DEF AtEof, Normal
  <2>5. unread[w][s] > 0 \/ AtEof(w)
    BY <1>0, <2>1, <2>3 DEF StreamInv
  <2>6. CASE /\ unread[w][s] > 0
             /\ unread' = [unread EXCEPT ![w][s] = unread[w][s] - 1]
             /\ logged' = [logged EXCEPT ![w][s] = logged[w][s] + 1]
             /\ openStreams' = openStreams
    <3>1. unread[w][s] \in Nat /\ logged[w][s] \in Nat /\ unread[w][s] - 1 \in Nat /\ logged[w][s] + 1 \in Nat
      BY <2>2, <2>6
    <3>2. unread'[w][s] = unread[w][s] - 1 /\ logged'[w][s] = logged[w][s] + 1
      BY <2>2, <2>6, <3>1, SetCount
    <3>3. \A v \in Worker : \A t \in Stream : (v # w \/ t # s) =>
             unread'[v][t] = unread[v][t] /\ logged'[v][t] = logged[v][t]
      BY <2>2, <2>6, <3>1, SetCount
    <3>4. \A v \in Worker : \A t \in Stream : logged'[v][t] + unread'[v][t] = printed'[v][t]
      <4>1. SUFFICES ASSUME NEW v \in Worker, NEW t \in Stream
                     PROVE  logged'[v][t] + unread'[v][t] = printed'[v][t]
        OBVIOUS
      <4>2. logged[v][t] + unread[v][t] = printed[v][t] /\ printed' = printed
        BY <1>0, <2>3 DEF StreamInv
      <4>3. CASE v = w /\ t = s
        BY <3>1, <3>2, <4>2, <4>3
      <4>4. CASE v # w \/ t # s
        BY <3>3, <4>2, <4>4
      <4>5. QED
        BY <4>3, <4>4
    <3>5. Normal => \A v \in tracked : \A t \in Stream \ openStreams[v] : unread'[v][t] = 0 /\ AtEof(v)
      <4>1. SUFFICES ASSUME Normal, NEW v \in tracked, NEW t \in Stream \ openStreams[v]
                     PROVE  unread'[v][t] = 0 /\ AtEof(v)
        OBVIOUS
      <4>2. unread[v][t] = 0 /\ AtEof(v) /\ v \in Worker
        BY <1>0, <2>2, <4>1 DEF StreamInv
      <4>3. v # w \/ t # s
        BY <2>6, <4>2
      <4>4. QED
        BY <3>3, <4>2, <4>3
    <3>6. \A r \in ready' : unread'[r[1]][r[2]] > 0 \/ AtEof(r[1])
      <4>1. TAKE r \in ready'
      <4>2. r \in ready /\ r # <<w, s>> /\ r[1] \in Worker /\ r[2] \in Stream /\ r = <<r[1], r[2]>>
        BY <2>1, <2>2
      <4>3. r[1] # w \/ r[2] # s
        BY <4>2
      <4>4. unread'[r[1]][r[2]] = unread[r[1]][r[2]]
        BY <3>3, <4>2, <4>3
      <4>5. QED
        BY <1>0, <2>3, <4>2, <4>4 DEF StreamInv
    <3>7. QED
      BY <2>3, <2>4, <2>6, <3>4, <3>5, <3>6 DEF StreamInv
  <2>7. CASE /\ ~ (unread[w][s] > 0)
             /\ openStreams' = [openStreams EXCEPT ![w] = openStreams[w] \ {s}]
             /\ unread' = unread /\ logged' = logged
    <3>1. unread[w][s] = 0 /\ AtEof(w)
      BY <2>2, <2>5, <2>7
    <3>2. \A v \in Worker : \A t \in Stream : t \notin openStreams'[v] =>
             t \notin openStreams[v] \/ (v = w /\ t = s)
      BY <2>2, <2>7
    <3>3. Normal => \A v \in tracked : \A t \in Stream \ openStreams'[v] : unread[v][t] = 0 /\ AtEof(v)
      BY <1>0, <2>2, <3>1, <3>2 DEF StreamInv
    <3>4. QED
      BY <1>0, <2>1, <2>3, <2>4, <2>7, <3>3 DEF StreamInv
  <2>8. QED
    BY <2>1, <2>6, <2>7
<1>11. CASE DrainDone
  BY <1>0, <1>11 DEF DrainDone, CopiesType, FlowInv, StreamInv, AtEof, Normal, LoopPc,
       TermCopies, TermCommands, loopVars, endVars, copyVars, cmdVars, recVars
<1>12. CASE FinalizeExited
  BY <1>0, <1>12 DEF FinalizeExited, CopiesType, FlowInv, StreamInv, AtEof, Normal,
       LoopPc, TermCopies, TermCommands, loopVars, endVars, copyVars, cmdVars, recVars
<1>13. CASE PassDone
  BY <1>0, <1>13 DEF PassDone, CopiesType, FlowInv, StreamInv, AtEof, Normal, LoopPc,
       TermCopies, TermCommands, loopVars, endVars, copyVars, cmdVars, recVars
<1>14. CASE SendSignals
  BY <1>0, <1>14 DEF SendSignals, Polled, CopiesType, FlowInv, StreamInv, AtEof, Normal, LoopPc,
       TermCopies, TermCommands, loopVars, endVars, copyVars, cmdVars, recVars
<1>15. CASE WaitDone
  BY <1>0, <1>15 DEF WaitDone, Polled, AllFinalized, CopiesType, FlowInv, StreamInv, AtEof, Normal, LoopPc,
       TermCopies, TermCommands, loopVars, endVars, copyVars, cmdVars, recVars
<1>16. CASE ForceFinalize
  <2>1. pc = "force" /\ pc' = "collect" /\ UNCHANGED <<interrupted, raised, cmd, holder, unread, printed, logged, tracked>>
    BY <1>16 DEF ForceFinalize, endVars, cmdVars
  <2>2. (\A v : AtEof(v)' = AtEof(v)) /\ Normal' = Normal
    BY <2>1 DEF AtEof, Normal
  <2>3. Normal => \A v \in tracked : openStreams[v] = {}
    BY <1>0, <2>1 DEF FinalInv, EndInv, AllFinalized, CopiesType
  <2>4. QED
    BY <1>0, <2>1, <2>2, <2>3 DEF StreamInv
<1>17. CASE Collect
  BY <1>0, <1>17 DEF Collect, CopiesType, FlowInv, StreamInv, AtEof, Normal, LoopPc,
       TermCopies, TermCommands, loopVars, endVars, copyVars, cmdVars, recVars
<1>18. CASE DeadlinePasses
  BY <1>0, <1>18 DEF DeadlinePasses, CopiesType, FlowInv, StreamInv, AtEof, Normal,
       LoopPc, TermCopies, TermCommands, loopVars, endVars, copyVars, cmdVars, recVars
<1>19. CASE Interrupt
  BY <1>0, <1>19 DEF Interrupt, CopiesType, FlowInv, StreamInv, AtEof, Normal, LoopPc,
       TermCopies, TermCommands, loopVars, endVars, copyVars, cmdVars, recVars
<1>19a. CASE InterruptAgain
  BY <1>0, <1>19a DEF InterruptAgain, AllFinalized, CopiesType, FlowInv, StreamInv, AtEof, Normal, LoopPc,
       TermCopies, TermCommands, loopVars, endVars, copyVars, cmdVars, recVars
<1>19b. CASE DefaultSignal
  BY <1>0, <1>19b DEF DefaultSignal, CopiesType, FlowInv, StreamInv, AtEof, Normal, LoopPc,
       TermCopies, TermCommands, loopVars, endVars, copyVars, cmdVars, recVars
<1>20. CASE LoopRaises
  BY <1>0, <1>20 DEF LoopRaises, CopiesType, FlowInv, StreamInv, AtEof, Normal, LoopPc,
       TermCopies, TermCommands, loopVars, endVars, copyVars, cmdVars, recVars
<1>21. ASSUME NEW w \in Worker, CopyExit(w) PROVE StreamInv'
  BY <1>0, <1>21 DEF CopyExit, CopiesType, FlowInv, StreamInv, AtEof, Normal, LoopPc,
       TermCopies, TermCommands, loopVars, endVars, copyVars, cmdVars, recVars
<1>22. ASSUME NEW w \in Worker, CommandExit(w) PROVE StreamInv'
  BY <1>0, <1>22 DEF CommandExit, CopiesType, FlowInv, StreamInv, AtEof, Normal, LoopPc,
       TermCopies, TermCommands, loopVars, endVars, copyVars, cmdVars, recVars
<1>23. ASSUME NEW w \in Worker, HolderEnds(w) PROVE StreamInv'
  BY <1>0, <1>23 DEF HolderEnds, CopiesType, FlowInv, StreamInv, AtEof, Normal, LoopPc,
       TermCopies, TermCommands, loopVars, endVars, copyVars, cmdVars, recVars
<1>24. ASSUME NEW w \in Worker, KilledCopy(w) PROVE StreamInv'
  BY <1>0, <1>24 DEF KilledCopy, CopiesType, FlowInv, StreamInv, AtEof, Normal, LoopPc,
       TermCopies, TermCommands, loopVars, endVars, copyVars, cmdVars, recVars
<1>25. ASSUME NEW w \in Worker, KilledCommand(w) PROVE StreamInv'
  BY <1>0, <1>25 DEF KilledCommand, CopiesType, FlowInv, StreamInv, AtEof, Normal,
       LoopPc, TermCopies, TermCommands, loopVars, endVars, copyVars, cmdVars, recVars
<1>26. ASSUME NEW w \in Worker, NEW s \in Stream, CommandPrints(w, s) PROVE StreamInv'
  BY <1>0, <1>26 DEF CommandPrints, CopiesType, FlowInv, StreamInv, AtEof, Normal,
       LoopPc, TermCopies, TermCommands, loopVars, endVars, copyVars, cmdVars, recVars
<1>27. CASE UNCHANGED vars
  BY <1>0, <1>27 DEF vars, CopiesType, FlowInv, StreamInv, AtEof, Normal, LoopPc,
       TermCopies, TermCommands, loopVars, endVars, copyVars, cmdVars, recVars
<1>28. QED
  BY <1>1, <1>2, <1>3, <1>4, <1>5, <1>6, <1>7, <1>8, <1>9, <1>10, <1>11, <1>12, <1>13,
       <1>14, <1>15, <1>16, <1>17, <1>18, <1>19, <1>19a, <1>19b, <1>20, <1>21, <1>22, <1>23, <1>24,
       <1>25, <1>26, <1>27
     DEF Next, MainStep, Killed, Ended

\* The finally block is reached with every worker finalized, a signal or an exception.
LEMMA EndStep ==
  ASSUME PInv, [Next]_vars
  PROVE  EndInv'
<1>0. CopiesType /\ FlowInv /\ EndInv /\ StopInv
  BY DEF PInv
<1>1. CASE StartCopy
  BY <1>0, <1>1 DEF StartCopy, CopiesType, EndInv, StopInv, Normal, AllFinalized,
       LoopPc, None, loopVars, endVars, copyVars, cmdVars, recVars
<1>2. CASE AssignCopy
  BY <1>0, <1>2 DEF AssignCopy, CopiesType, EndInv, StopInv, Normal, AllFinalized,
       LoopPc, None, loopVars, endVars, copyVars, cmdVars, recVars
<1>3. CASE StartDone
  BY <1>0, <1>3 DEF StartDone, CopiesType, EndInv, StopInv, Normal, AllFinalized,
       LoopPc, None, loopVars, endVars, copyVars, cmdVars, recVars
<1>4. CASE PollSkip
  BY <1>0, <1>4 DEF PollSkip, CopiesType, EndInv, StopInv, Normal, AllFinalized, LoopPc,
       None, loopVars, endVars, copyVars, cmdVars, recVars
<1>5. CASE PollCopy
  BY <1>0, <1>5 DEF PollCopy, CopiesType, EndInv, StopInv, Normal, AllFinalized, LoopPc,
       None, loopVars, endVars, copyVars, cmdVars, recVars
<1>6. CASE SpawnCommand
  BY <1>0, <1>6 DEF SpawnCommand, CopiesType, EndInv, StopInv, Normal, AllFinalized,
       LoopPc, None, loopVars, endVars, copyVars, cmdVars, recVars
<1>7. CASE AssignProcess
  BY <1>0, <1>7 DEF AssignProcess, CopiesType, EndInv, StopInv, Normal, AllFinalized,
       LoopPc, None, loopVars, endVars, copyVars, cmdVars, recVars
<1>8. CASE PollDone
  BY <1>0, <1>8 DEF PollDone, CopiesType, EndInv, StopInv, Normal, AllFinalized, LoopPc,
       None, loopVars, endVars, copyVars, cmdVars, recVars
<1>9. CASE Select
  BY <1>0, <1>9 DEF Select, CopiesType, EndInv, StopInv, Normal, AllFinalized, LoopPc,
       None, loopVars, endVars, copyVars, cmdVars, recVars
<1>10. CASE DrainStream
  BY <1>0, <1>10 DEF DrainStream, CopiesType, EndInv, StopInv, Normal, AllFinalized,
       LoopPc, None, loopVars, endVars, copyVars, cmdVars, recVars
<1>11. CASE DrainDone
  BY <1>0, <1>11 DEF DrainDone, CopiesType, EndInv, StopInv, Normal, AllFinalized,
       LoopPc, None, loopVars, endVars, copyVars, cmdVars, recVars
<1>12. CASE FinalizeExited
  BY <1>0, <1>12 DEF FinalizeExited, CopiesType, EndInv, StopInv, Normal, AllFinalized,
       LoopPc, None, loopVars, endVars, copyVars, cmdVars, recVars
<1>13. CASE PassDone
  BY <1>0, <1>13 DEF PassDone, CopiesType, EndInv, StopInv, Normal, AllFinalized,
       LoopPc, None, loopVars, endVars, copyVars, cmdVars, recVars
<1>14. CASE SendSignals
  BY <1>0, <1>14 DEF SendSignals, Polled, CopiesType, EndInv, StopInv, Normal, AllFinalized,
       LoopPc, None, loopVars, endVars, copyVars, cmdVars, recVars
<1>15. CASE WaitDone
  BY <1>0, <1>15 DEF WaitDone, Polled, AllFinalized, CopiesType, EndInv, StopInv, Normal, AllFinalized,
       LoopPc, None, loopVars, endVars, copyVars, cmdVars, recVars
<1>16. CASE ForceFinalize
  <2>1. \A w \in Worker : finalized'[w]
    BY <1>16 DEF ForceFinalize, ForceWorkers
  <2>2. pc = "force" /\ pc' = "collect" /\ ret' = ret /\ removed' = removed
    BY <1>16 DEF ForceFinalize, endVars
  <2>3. QED
    BY <1>0, <2>1, <2>2 DEF EndInv, AllFinalized
<1>17. CASE Collect
  <2>1. /\ pc = "collect" /\ pc' = "done" /\ UNCHANGED <<interrupted, raised, code, finalized>>
        /\ removed' = ~ interrupted
    BY <1>17 DEF Collect, recVars
  <2>2. ret' = 0 => ~ interrupted /\ ~ raised /\ \A w \in Worker : code[w] = 0
    BY <1>17 DEF Collect
  <2>3. QED
    BY <1>0, <2>1, <2>2 DEF EndInv, AllFinalized, Normal
<1>18. CASE DeadlinePasses
  BY <1>0, <1>18 DEF DeadlinePasses, CopiesType, EndInv, StopInv, Normal, AllFinalized,
       LoopPc, None, loopVars, endVars, copyVars, cmdVars, recVars
<1>19. CASE Interrupt
  BY <1>0, <1>19 DEF Interrupt, CopiesType, EndInv, StopInv, Normal, AllFinalized,
       LoopPc, None, loopVars, endVars, copyVars, cmdVars, recVars
<1>19a. CASE InterruptAgain
  BY <1>0, <1>19a DEF InterruptAgain, AllFinalized, CopiesType, EndInv, StopInv, Normal, AllFinalized,
       LoopPc, None, loopVars, endVars, copyVars, cmdVars, recVars
<1>19b. CASE DefaultSignal
  BY <1>0, <1>19b DEF DefaultSignal, CopiesType, EndInv, StopInv, Normal, AllFinalized,
       LoopPc, None, loopVars, endVars, copyVars, cmdVars, recVars
<1>20. CASE LoopRaises
  BY <1>0, <1>20 DEF LoopRaises, CopiesType, EndInv, StopInv, Normal, AllFinalized,
       LoopPc, None, loopVars, endVars, copyVars, cmdVars, recVars
<1>21. ASSUME NEW w \in Worker, CopyExit(w) PROVE EndInv'
  BY <1>0, <1>21 DEF CopyExit, CopiesType, EndInv, StopInv, Normal, AllFinalized,
       LoopPc, None, loopVars, endVars, copyVars, cmdVars, recVars
<1>22. ASSUME NEW w \in Worker, CommandExit(w) PROVE EndInv'
  BY <1>0, <1>22 DEF CommandExit, CopiesType, EndInv, StopInv, Normal, AllFinalized,
       LoopPc, None, loopVars, endVars, copyVars, cmdVars, recVars
<1>23. ASSUME NEW w \in Worker, HolderEnds(w) PROVE EndInv'
  BY <1>0, <1>23 DEF HolderEnds, CopiesType, EndInv, StopInv, Normal, AllFinalized,
       LoopPc, None, loopVars, endVars, copyVars, cmdVars, recVars
<1>24. ASSUME NEW w \in Worker, KilledCopy(w) PROVE EndInv'
  BY <1>0, <1>24 DEF KilledCopy, CopiesType, EndInv, StopInv, Normal, AllFinalized,
       LoopPc, None, loopVars, endVars, copyVars, cmdVars, recVars
<1>25. ASSUME NEW w \in Worker, KilledCommand(w) PROVE EndInv'
  BY <1>0, <1>25 DEF KilledCommand, CopiesType, EndInv, StopInv, Normal, AllFinalized,
       LoopPc, None, loopVars, endVars, copyVars, cmdVars, recVars
<1>26. ASSUME NEW w \in Worker, NEW s \in Stream, CommandPrints(w, s) PROVE EndInv'
  BY <1>0, <1>26 DEF CommandPrints, CopiesType, EndInv, StopInv, Normal, AllFinalized,
       LoopPc, None, loopVars, endVars, copyVars, cmdVars, recVars
<1>27. CASE UNCHANGED vars
  BY <1>0, <1>27 DEF vars, CopiesType, EndInv, StopInv, Normal, AllFinalized, LoopPc,
       None, loopVars, endVars, copyVars, cmdVars, recVars
<1>28. QED
  BY <1>1, <1>2, <1>3, <1>4, <1>5, <1>6, <1>7, <1>8, <1>9, <1>10, <1>11, <1>12, <1>13,
       <1>14, <1>15, <1>16, <1>17, <1>18, <1>19, <1>19a, <1>19b, <1>20, <1>21, <1>22, <1>23, <1>24,
       <1>25, <1>26, <1>27
     DEF Next, MainStep, Killed, Ended

\* After a signal only a late command can be running.
LEMMA StopStep ==
  ASSUME PInv, [Next]_vars
  PROVE  StopInv'
<1>0. CopiesType /\ FlowInv /\ EndInv /\ StopInv
  BY DEF PInv
<1>1. CASE StartCopy
  BY <1>0, <1>1 DEF StartCopy, CopiesType, FlowInv, StopInv, LoopPc, loopVars, endVars,
       copyVars, cmdVars, recVars
<1>2. CASE AssignCopy
  BY <1>0, <1>2 DEF AssignCopy, CopiesType, FlowInv, StopInv, LoopPc, loopVars, endVars,
       copyVars, cmdVars, recVars
<1>3. CASE StartDone
  BY <1>0, <1>3 DEF StartDone, CopiesType, FlowInv, StopInv, LoopPc, loopVars, endVars,
       copyVars, cmdVars, recVars
<1>4. CASE PollSkip
  BY <1>0, <1>4 DEF PollSkip, CopiesType, FlowInv, StopInv, LoopPc, loopVars, endVars,
       copyVars, cmdVars, recVars
<1>5. CASE PollCopy
  BY <1>0, <1>5 DEF PollCopy, CopiesType, FlowInv, StopInv, LoopPc, loopVars, endVars,
       copyVars, cmdVars, recVars
<1>6. CASE SpawnCommand
  BY <1>0, <1>6 DEF SpawnCommand, CopiesType, FlowInv, StopInv, LoopPc, loopVars,
       endVars, copyVars, cmdVars, recVars
<1>7. CASE AssignProcess
  BY <1>0, <1>7 DEF AssignProcess, CopiesType, FlowInv, StopInv, LoopPc, loopVars,
       endVars, copyVars, cmdVars, recVars
<1>8. CASE PollDone
  BY <1>0, <1>8 DEF PollDone, CopiesType, FlowInv, StopInv, LoopPc, loopVars, endVars,
       copyVars, cmdVars, recVars
<1>9. CASE Select
  BY <1>0, <1>9 DEF Select, CopiesType, FlowInv, StopInv, LoopPc, loopVars, endVars,
       copyVars, cmdVars, recVars
<1>10. CASE DrainStream
  BY <1>0, <1>10 DEF DrainStream, CopiesType, FlowInv, StopInv, LoopPc, loopVars,
       endVars, copyVars, cmdVars, recVars
<1>11. CASE DrainDone
  BY <1>0, <1>11 DEF DrainDone, CopiesType, FlowInv, StopInv, LoopPc, loopVars, endVars,
       copyVars, cmdVars, recVars
<1>12. CASE FinalizeExited
  BY <1>0, <1>12 DEF FinalizeExited, CopiesType, FlowInv, StopInv, LoopPc, loopVars,
       endVars, copyVars, cmdVars, recVars
<1>13. CASE PassDone
  BY <1>0, <1>13 DEF PassDone, CopiesType, FlowInv, StopInv, LoopPc, loopVars, endVars,
       copyVars, cmdVars, recVars
<1>14. CASE SendSignals
  <2>1. /\ interrupted /\ pc = "term1" /\ pc' \in {"term1", "term2"}
        /\ pc' = "term2" => at' = 1
        /\ UNCHANGED <<interrupted, expired>>
    BY <1>0, <1>14 DEF SendSignals, StopInv
  <2>2. \A w \in Worker : ~ (w < 1)
    BY WorkerFacts
  <2>3. QED
    BY <1>0, <2>1, <2>2 DEF StopInv
<1>15. CASE WaitDone
  <2>1. /\ interrupted /\ pc = "term2" /\ at \in Worker
        /\ at \notin TermCopies /\ at \notin TermCommands
        /\ at = NumCopies => pc' \in {"force", "poll"}
        /\ at # NumCopies => pc' = "term2" /\ at' = at + 1
        /\ UNCHANGED <<interrupted, aborted, termed, expired, copy, cmd, copying, tracked, late>>
    BY <1>0, <1>15 DEF WaitDone, StopInv, endVars, copyVars, cmdVars
  <2>2. \A w \in Worker : w <= at => (/\ w \in copying => copy[w] # "running"
                                      /\ w \in tracked => cmd[w] # "running")
    <3>1. TAKE w \in Worker
    <3>2. w <= at => w < at \/ w = at
      BY <2>1, WorkerFacts
    <3>3. QED
      BY <1>0, <2>1, <3>2 DEF StopInv, TermCopies, TermCommands
  <2>a. /\ interrupted' /\ aborted' = aborted /\ termed' = termed /\ copy' = copy /\ cmd' = cmd
        /\ copying' = copying /\ tracked' = tracked /\ late' = late
    BY <2>1
  <2>b. copying \subseteq Worker /\ tracked \subseteq Worker
    BY <1>0 DEF CopiesType
  <2>3. CASE at = NumCopies
    <3>1. \A w \in Worker : w <= at
      BY <2>3 DEF Worker
    <3>2. (\A w \in copying : copy[w] # "running") /\ (\A w \in tracked : cmd[w] # "running")
      BY <2>2, <2>b, <3>1, Zenon
    <3>3. pc' \notin {"term1", "term2", "start", "assignCopy", "assign"}
      BY <2>1, <2>3
    <3>4. QED
      BY <2>a, <3>2, <3>3, Zenon DEF StopInv
  <2>4. CASE at # NumCopies
    <3>1. \A w \in Worker : w < at + 1 => w <= at
      BY <2>1 DEF Worker
    <3>2. /\ pc' = "term2"
          /\ \A w \in Worker : w < at' => (/\ w \in copying => copy[w] # "running"
                                           /\ w \in tracked => cmd[w] # "running")
      BY <2>1, <2>2, <2>4, <3>1
    <3>3. pc' \notin {"start", "assignCopy", "assign"} /\ pc' \in {"term1", "term2"}
      BY <3>2
    <3>4. QED
      BY <2>a, <3>2, <3>3, Zenon DEF StopInv
  <2>5. QED
    BY <2>3, <2>4
<1>16. CASE ForceFinalize
  BY <1>0, <1>16 DEF ForceFinalize, ForceWorkers, CopiesType, FlowInv, StopInv, LoopPc,
       loopVars, endVars, copyVars, cmdVars, recVars
<1>17. CASE Collect
  BY <1>0, <1>17 DEF Collect, CopiesType, FlowInv, StopInv, LoopPc, loopVars, endVars,
       copyVars, cmdVars, recVars
<1>18. CASE DeadlinePasses
  BY <1>0, <1>18 DEF DeadlinePasses, CopiesType, FlowInv, StopInv, LoopPc, loopVars,
       endVars, copyVars, cmdVars, recVars
<1>19. CASE Interrupt
  BY <1>0, <1>19 DEF Interrupt, CopiesType, FlowInv, StopInv, LoopPc, loopVars, endVars,
       copyVars, cmdVars, recVars
<1>19a. CASE InterruptAgain
  BY <1>0, <1>19a DEF InterruptAgain, AllFinalized, CopiesType, FlowInv, StopInv, LoopPc, loopVars, endVars,
       copyVars, cmdVars, recVars
<1>19b. CASE DefaultSignal
  BY <1>0, <1>19b DEF DefaultSignal, CopiesType, FlowInv, StopInv, LoopPc, loopVars, endVars,
       copyVars, cmdVars, recVars
<1>20. CASE LoopRaises
  BY <1>0, <1>20 DEF LoopRaises, CopiesType, FlowInv, StopInv, LoopPc, loopVars,
       endVars, copyVars, cmdVars, recVars
<1>21. ASSUME NEW w \in Worker, CopyExit(w) PROVE StopInv'
  BY <1>0, <1>21 DEF CopyExit, CopiesType, FlowInv, StopInv, LoopPc, loopVars, endVars,
       copyVars, cmdVars, recVars
<1>22. ASSUME NEW w \in Worker, CommandExit(w) PROVE StopInv'
  BY <1>0, <1>22 DEF CommandExit, CopiesType, FlowInv, StopInv, LoopPc, loopVars,
       endVars, copyVars, cmdVars, recVars
<1>23. ASSUME NEW w \in Worker, HolderEnds(w) PROVE StopInv'
  BY <1>0, <1>23 DEF HolderEnds, CopiesType, FlowInv, StopInv, LoopPc, loopVars,
       endVars, copyVars, cmdVars, recVars
<1>24. ASSUME NEW w \in Worker, KilledCopy(w) PROVE StopInv'
  BY <1>0, <1>24 DEF KilledCopy, CopiesType, FlowInv, StopInv, LoopPc, loopVars,
       endVars, copyVars, cmdVars, recVars
<1>25. ASSUME NEW w \in Worker, KilledCommand(w) PROVE StopInv'
  BY <1>0, <1>25 DEF KilledCommand, CopiesType, FlowInv, StopInv, LoopPc, loopVars,
       endVars, copyVars, cmdVars, recVars
<1>26. ASSUME NEW w \in Worker, NEW s \in Stream, CommandPrints(w, s) PROVE StopInv'
  BY <1>0, <1>26 DEF CommandPrints, CopiesType, FlowInv, StopInv, LoopPc, loopVars,
       endVars, copyVars, cmdVars, recVars
<1>27. CASE UNCHANGED vars
  BY <1>0, <1>27 DEF vars, CopiesType, FlowInv, StopInv, LoopPc, loopVars, endVars,
       copyVars, cmdVars, recVars
<1>28. QED
  BY <1>1, <1>2, <1>3, <1>4, <1>5, <1>6, <1>7, <1>8, <1>9, <1>10, <1>11, <1>12, <1>13,
       <1>14, <1>15, <1>16, <1>17, <1>18, <1>19, <1>19a, <1>19b, <1>20, <1>21, <1>22, <1>23, <1>24,
       <1>25, <1>26, <1>27
     DEF Next, MainStep, Killed, Ended

\* Only one worker's status is written at a time, and only one that has none yet.
LEMMA StatusStep ==
  ASSUME PInv, [Next]_vars
  PROVE  \A w \in Worker : finalized[w] => finalized'[w] /\ code'[w] = code[w]
<1> DEFINE Stable == \A w \in Worker : finalized[w] => finalized'[w] /\ code'[w] = code[w]
<1>0. CopiesType /\ FlowInv
  BY DEF PInv
<1>1. ASSUME NEW x, ~ finalized[x], finalized' = [finalized EXCEPT ![x] = TRUE],
             NEW c, code' = [code EXCEPT ![x] = c]
      PROVE  Stable
  BY <1>0, <1>1 DEF CopiesType
<1>2. CASE UNCHANGED <<finalized, code>>
  BY <1>2
<1>3. CASE StartCopy
  <2>1. ~ finalized[at]
    BY <1>0, <1>3, WorkerFacts DEF StartCopy, FlowInv
  <2>2. QED
    BY <1>1, <1>2, <1>3, <2>1 DEF StartCopy
<1>4. CASE PollCopy
  BY <1>1, <1>2, <1>4 DEF PollCopy
<1>5. CASE SpawnCommand
  <2>1. ~ finalized[at]
    BY <1>0, <1>5 DEF SpawnCommand, FlowInv
  <2>2. QED
    BY <1>1, <1>2, <1>5, <2>1 DEF SpawnCommand
<1>6. CASE FinalizeExited
  <2>1. CASE UNCHANGED <<finalized, code>>
    BY <1>2, <2>1
  <2>2. CASE /\ ~ finalized[at] /\ finalized' = [finalized EXCEPT ![at] = TRUE]
             /\ code' = [code EXCEPT ![at] = IF code[at] = None THEN cmdRc[at] ELSE code[at]]
    BY <1>1, <2>2
  <2>3. QED
    BY <1>6, <2>1, <2>2 DEF FinalizeExited
<1>7. CASE ForceFinalize
  BY <1>7 DEF ForceFinalize, ForceWorkers
<1>8. CASE AssignCopy \/ StartDone \/ PollSkip \/ AssignProcess \/ PollDone \/ Select \/ DrainStream \/ DrainDone
  BY <1>2, <1>8 DEF AssignCopy, StartDone, PollSkip, AssignProcess, PollDone, Select,
       DrainStream, DrainDone, recVars
<1>9. CASE PassDone \/ SendSignals \/ WaitDone \/ Collect \/ DeadlinePasses \/ Interrupt \/ InterruptAgain
          \/ DefaultSignal \/ LoopRaises
  BY <1>2, <1>9 DEF PassDone, SendSignals, WaitDone, Collect, DeadlinePasses, Interrupt,
       InterruptAgain, DefaultSignal,
       LoopRaises, recVars
<1>10. ASSUME NEW w \in Worker, CopyExit(w) \/ CommandExit(w) \/ HolderEnds(w) \/ Killed(w) PROVE Stable
  BY <1>2, <1>10 DEF CopyExit, CommandExit, HolderEnds, Killed, KilledCopy, KilledCommand, recVars
<1>11. ASSUME NEW w \in Worker, NEW s \in Stream, CommandPrints(w, s) PROVE Stable
  BY <1>2, <1>11 DEF CommandPrints, recVars
<1>12. CASE UNCHANGED vars
  BY <1>2, <1>12 DEF vars, recVars
<1>13. QED
  BY <1>3, <1>4, <1>5, <1>6, <1>7, <1>8, <1>9, <1>10, <1>11, <1>12 DEF Next, MainStep, Ended

\* The invariant holds initially.
LEMMA InitInv == Init => PInv
<1>1. SUFFICES ASSUME Init PROVE PInv
  OBVIOUS
<1>2. CopiesType
  <2>1. /\ unread \in [Worker -> [Stream -> Nat]] /\ printed \in [Worker -> [Stream -> Nat]]
        /\ logged \in [Worker -> [Stream -> Nat]]
    BY <1>1 DEF Init
  <2>2. finalized \in [Worker -> BOOLEAN] /\ holder \in [Worker -> BOOLEAN]
    BY <1>1, Zenon DEF Init
  <2>3. copy \in [Worker -> ProcState] /\ cmd \in [Worker -> ProcState]
    BY <1>1 DEF Init, ProcState
  <2>4. copyRc \in [Worker -> Int] /\ cmdRc \in [Worker -> Int] /\ code \in [Worker -> Int]
    BY <1>1, WorkerFacts DEF Init
  <2>5. openStreams \in [Worker -> SUBSET Stream]
    BY <1>1 DEF Init
  <2>6. pc \in LoopPc /\ at \in 1..(NumCopies + 1) /\ ready = {} /\ copying = {} /\ tracked = {} /\ succeeded = {}
    BY <1>1, WorkerFacts DEF Init, LoopPc
  <2>7. QED
    BY <2>1, <2>2, <2>3, <2>4, <2>5, <2>6 DEF CopiesType
<1>3. FlowInv /\ FinalInv /\ EndInv /\ StopInv
  BY <1>1, WorkerFacts DEF Init, FlowInv, FinalInv, EndInv, StopInv
<1>4. StreamInv
  BY <1>1 DEF Init, StreamInv
<1>5. QED
  BY <1>2, <1>3, <1>4 DEF PInv

\* Every step preserves the invariant.
LEMMA NextInv == PInv /\ [Next]_vars => PInv'
  BY TypeStep, FlowStep, FinalStep, StreamStep, EndStep, StopStep DEF PInv

\* The invariant holds for any number of copies and whatever fails.
THEOREM CopiesInvariant == Spec => []PInv
  BY InitInv, NextInv, PTL DEF Spec

\* The invariant gives what a result of 0 means.
LEMMA SuccessFromInv ==
  ASSUME PInv
  PROVE  SuccessMeansAll
<1>1. SUFFICES ASSUME ret = 0, NEW w \in Worker
               PROVE  /\ copy[w] = "exited" /\ copyRc[w] = 0
                      /\ cmd[w] = "exited" /\ cmdRc[w] = 0
                      /\ \A s \in Stream : logged[w][s] = printed[w][s]
  BY DEF SuccessMeansAll
<1>2. Normal /\ finalized[w] /\ code[w] = 0
  BY <1>1 DEF PInv, EndInv, AllFinalized
<1>3. w \in tracked /\ cmd[w] = "exited" /\ cmdRc[w] = 0 /\ openStreams[w] = {}
  BY <1>2 DEF PInv, FinalInv
<1>4. copy[w] = "exited" /\ copyRc[w] = 0
  BY <1>3 DEF PInv, FlowInv
<1>5. ASSUME NEW s \in Stream PROVE logged[w][s] = printed[w][s]
  <2>1. unread[w][s] = 0 /\ logged[w][s] + unread[w][s] = printed[w][s] /\ logged[w][s] \in Nat
    BY <1>2, <1>3 DEF PInv, StreamInv, CopiesType
  <2>2. QED
    BY <2>1
<1>6. QED
  BY <1>3, <1>4, <1>5

\* main() returns 0 only when every copy was made, every command ran and ended with 0,
\* and both of its streams are in the logs to the last chunk.
THEOREM CopiesSuccess == Spec => []SuccessMeansAll
  BY CopiesInvariant, SuccessFromInv, PTL

\* finalize_exited_workers never closes a worker whose command could still print or
\* whose output is not in its logs.
THEOREM CopiesDrained == Spec => []FinalizedDrained
<1>1. ASSUME PInv PROVE FinalizedDrained
  <2>1. SUFFICES ASSUME NEW w \in tracked, finalized[w], Normal
                 PROVE  cmd[w] = "exited" /\ \A s \in Stream : logged[w][s] = printed[w][s]
    BY DEF FinalizedDrained, Normal
  <2>2. w \in Worker /\ cmd[w] = "exited" /\ openStreams[w] = {}
    BY <1>1, <2>1 DEF PInv, FinalInv, CopiesType
  <2>3. ASSUME NEW s \in Stream PROVE logged[w][s] = printed[w][s]
    <3>1. unread[w][s] = 0 /\ logged[w][s] + unread[w][s] = printed[w][s] /\ logged[w][s] \in Nat
      BY <1>1, <2>1, <2>2 DEF PInv, StreamInv, CopiesType
    <3>2. QED
      BY <3>1
  <2>4. QED
    BY <2>2, <2>3
<1>2. QED
  BY <1>1, CopiesInvariant, PTL

\* The temporary copies are removed only when no cp and no command is running, unless
\* an unexpected exception ended the loop.
THEOREM CopiesKept == Spec => []CopiesOutliveCommands
<1>1. ASSUME PInv PROVE CopiesOutliveCommands
  BY <1>1 DEF PInv, EndInv, FinalInv, Normal, AllFinalized, CopiesOutliveCommands
<1>2. QED
  BY <1>1, CopiesInvariant, PTL

\* After a signal, terminate_workers leaves no process running that it could know of,
\* unless another signal cuts it short.
THEOREM CopiesInterrupt == Spec => []InterruptStopsTracked
<1>1. ASSUME PInv PROVE InterruptStopsTracked
  BY <1>1 DEF PInv, StopInv, InterruptStopsTracked
<1>2. QED
  BY <1>1, CopiesInvariant, PTL

\* A status that has been written is never rewritten, by the drain after a signal or
\* by force_finalize_workers.
THEOREM CopiesStatusStable == Spec => StatusStable
<1>1. PInv /\ [Next]_vars => [\A w \in Worker : finalized[w] => finalized'[w] /\ code'[w] = code[w]]_vars
  BY StatusStep
<1>2. QED
  BY <1>1, CopiesInvariant, PTL DEF Spec, StatusStable

-----------------------------------------------------------------------------
(* The commands as a pool without a limit *)

\* main() has its result only once it is done.
DecidedInv == ret # None => pc = "done"

\* The result is decided by collect_results alone, and then nothing moves it.
LEMMA DecidedStep ==
  ASSUME PInv, DecidedInv, [Next]_vars
  PROVE  DecidedInv'
<1> USE DEF DecidedInv, LoopPc, endVars
<1>1. CASE StartCopy \/ AssignCopy \/ StartDone \/ PollSkip \/ PollCopy \/ SpawnCommand \/ AssignProcess \/ PollDone
  BY <1>1 DEF StartCopy, AssignCopy, StartDone, PollSkip, PollCopy, SpawnCommand, AssignProcess, PollDone
<1>2. CASE Select \/ DrainStream \/ DrainDone \/ FinalizeExited \/ PassDone
  BY <1>2 DEF Select, DrainStream, DrainDone, FinalizeExited, PassDone
<1>3. CASE SendSignals \/ WaitDone \/ ForceFinalize \/ Collect \/ DeadlinePasses \/ Interrupt \/ InterruptAgain
          \/ DefaultSignal \/ LoopRaises
  BY <1>3 DEF SendSignals, Polled, WaitDone, ForceFinalize, Collect, DeadlinePasses,
       Interrupt, InterruptAgain, DefaultSignal, LoopRaises
<1>4. ASSUME NEW w \in Worker, CopyExit(w) \/ CommandExit(w) \/ HolderEnds(w) \/ Killed(w) PROVE UNCHANGED <<pc, ret>>
  BY <1>4 DEF CopyExit, CommandExit, HolderEnds, Killed, KilledCopy, KilledCommand
<1>5. ASSUME NEW w \in Worker, NEW s \in Stream, CommandPrints(w, s) PROVE UNCHANGED <<pc, ret>>
  BY <1>5 DEF CommandPrints
<1>6. CASE UNCHANGED vars
  BY <1>6 DEF vars
<1> QED
  BY <1>1, <1>2, <1>3, <1>4, <1>5, <1>6 DEF Next, MainStep, Ended

\* start_worker_process starts a command that has not run, or fails and starts none.
LEMMA SpawnRefines ==
  ASSUME PInv, DecidedInv, SpawnCommand
  PROVE  [Pool!Next]_(Pool!vars)
<1>1. at \in Worker /\ cmd[at] = "none" /\ ret = None /\ cmd \in [Worker -> ProcState]
  BY DEF PInv, FlowInv, CopiesType, DecidedInv, SpawnCommand
<1>2. CopiesVerdict' = CopiesVerdict /\ CopiesVerdict = "none" /\ cmdRc' = cmdRc
  BY <1>1 DEF SpawnCommand, endVars, CopiesVerdict
<1>3. CASE cmd' = cmd
  BY <1>2, <1>3 DEF Pool!vars, CommandLife
<1>4. CASE cmd' = [cmd EXCEPT ![at] = "running"]
  <2>1. \A w \in Worker : cmd'[w] = IF w = at THEN "running" ELSE cmd[w]
    BY <1>1, <1>4
  <2>2. \A w \in Worker : CommandLife'[w] = IF w = at THEN "running" ELSE CommandLife[w]
    BY <1>2, <2>1 DEF CommandLife
  <2>3. CommandLife' = [CommandLife EXCEPT ![at] = "running"]
    BY <2>2 DEF CommandLife
  <2>4. CommandLife[at] = "waiting"
    BY <1>1 DEF CommandLife
  <2>5. Pool!Launch(at)
    BY <1>2, <2>3, <2>4 DEF Pool!Launch, Pool!Room
  <2> QED BY <1>1, <2>5 DEF Pool!Next
<1> QED BY <1>3, <1>4 DEF SpawnCommand

\* A command that exits, or is killed by terminate_workers, ends in the pool.
LEMMA EndRefines ==
  ASSUME PInv, NEW w \in Worker, CommandExit(w) \/ KilledCommand(w)
  PROVE  Pool!Next
<1>1. PICK c \in {0, 1, -15} : cmdRc' = [cmdRc EXCEPT ![w] = c]
  BY DEF CommandExit, KilledCommand
<1>2. cmd[w] = "running" /\ cmd' = [cmd EXCEPT ![w] = "exited"]
  BY DEF CommandExit, KilledCommand, TermCommands
<1>3. cmd \in [Worker -> ProcState] /\ cmdRc \in [Worker -> Int]
  BY DEF PInv, CopiesType
<1>4. CopiesVerdict' = CopiesVerdict
  BY DEF CommandExit, KilledCommand, endVars, CopiesVerdict
<1> DEFINE how == IF c = 0 THEN "succeeded" ELSE "failed"
<1>5. \A v \in Worker : /\ cmd'[v] = IF v = w THEN "exited" ELSE cmd[v]
                        /\ cmdRc'[v] = IF v = w THEN c ELSE cmdRc[v]
  BY <1>1, <1>2, <1>3
<1>6. \A v \in Worker : CommandLife'[v] = IF v = w THEN how ELSE CommandLife[v]
  BY <1>5 DEF CommandLife
<1>7. CommandLife' = [CommandLife EXCEPT ![w] = how]
  BY <1>6 DEF CommandLife
<1>8. CommandLife[w] = "running" /\ how \in {"succeeded", "failed"}
  BY <1>2 DEF CommandLife
<1>9. Pool!End(w)
  BY <1>4, <1>7, <1>8 DEF Pool!End
<1> QED BY <1>9 DEF Pool!Next

\* The value main() returns is the verdict: 0 only when every command succeeded.
LEMMA CollectRefines ==
  ASSUME PInv, PInv', DecidedInv, Collect
  PROVE  Pool!Next
<1>1. ret = None /\ ret' \in {0, 1, 130} /\ UNCHANGED <<cmd, cmdRc>>
  BY DEF Collect, DecidedInv, cmdVars
<1>2. CommandLife' = CommandLife /\ CopiesVerdict = "none"
  BY <1>1 DEF CommandLife, CopiesVerdict
<1>3. CASE ret' = 0
  <2>1. SuccessMeansAll'
    BY SuccessFromInv, PTL
  <2>2. \A w \in Worker : cmd'[w] = "exited" /\ cmdRc'[w] = 0
    BY <1>3, <2>1 DEF SuccessMeansAll
  <2>3. \A w \in Worker : CommandLife[w] = "succeeded"
    BY <1>1, <2>2 DEF CommandLife
  <2>4. CopiesVerdict' = "success"
    BY <1>3, WorkerFacts DEF CopiesVerdict
  <2> QED BY <1>2, <2>3, <2>4 DEF Pool!Next, Pool!Succeed
<1>4. CASE ret' # 0
  <2>1. CopiesVerdict' = "failure"
    BY <1>1, <1>4 DEF CopiesVerdict, None
  <2> QED BY <1>2, <2>1 DEF Pool!Next, Pool!Fail
<1> QED BY <1>3, <1>4

\* parallel_klee_copies.py implements WorkerPool for any number of copies, whatever
\* fails and whenever a signal comes: every step starts a command that has not run,
\* ends one, decides the result, or is no step of the pool.
THEOREM CopiesRefinesPool == Spec => PoolSpec
<1>1. Init => Pool!Init /\ DecidedInv
  BY DEF Init, Pool!Init, CommandLife, CopiesVerdict, DecidedInv
<1>2. ASSUME PInv, PInv', DecidedInv, [Next]_vars PROVE [Pool!Next]_(Pool!vars)
  <2>1. CASE SpawnCommand
    BY <1>2, <2>1, SpawnRefines
  <2>2. CASE Collect
    BY <1>2, <2>2, CollectRefines
  <2>3. ASSUME NEW w \in Worker, CommandExit(w) \/ KilledCommand(w) PROVE Pool!Next
    BY <1>2, <2>3, EndRefines
  <2>4. CASE UNCHANGED <<cmd, cmdRc, ret>>
    BY <2>4 DEF Pool!vars, CommandLife, CopiesVerdict
  <2>5. CASE StartCopy \/ AssignCopy \/ StartDone \/ PollSkip \/ PollCopy \/ AssignProcess \/ PollDone
    BY <2>4, <2>5 DEF StartCopy, AssignCopy, StartDone, PollSkip, PollCopy, AssignProcess,
         PollDone, cmdVars, endVars
  <2>6. CASE Select \/ DrainStream \/ DrainDone \/ FinalizeExited \/ PassDone \/ SendSignals \/ WaitDone
    BY <2>4, <2>6 DEF Select, DrainStream, DrainDone, FinalizeExited, PassDone, SendSignals,
         WaitDone, cmdVars, endVars
  <2>7. CASE ForceFinalize \/ DeadlinePasses \/ Interrupt \/ InterruptAgain \/ LoopRaises
    BY <2>4, <2>7 DEF ForceFinalize, DeadlinePasses, Interrupt, InterruptAgain, LoopRaises,
         cmdVars, endVars
  <2>7a. CASE DefaultSignal
    <3>1. CommandLife' = CommandLife /\ CopiesVerdict' = "failure"
      BY <2>7a DEF DefaultSignal, CommandLife, CopiesVerdict, None, cmdVars
    <3>2. QED
      BY <3>1 DEF Pool!Next, Pool!Fail
  <2>8. ASSUME NEW w \in Worker, CopyExit(w) \/ HolderEnds(w) \/ KilledCopy(w)
        PROVE  UNCHANGED <<cmd, cmdRc, ret>>
    BY <2>8 DEF CopyExit, HolderEnds, KilledCopy, cmdVars, endVars
  <2>9. ASSUME NEW w \in Worker, NEW s \in Stream, CommandPrints(w, s)
        PROVE  UNCHANGED <<cmd, cmdRc, ret>>
    BY <2>9 DEF CommandPrints, endVars
  <2>10. CASE UNCHANGED vars
    BY <2>4, <2>10 DEF vars, cmdVars, endVars
  <2> QED
    BY <1>2, <2>1, <2>2, <2>3, <2>4, <2>5, <2>6, <2>7, <2>7a, <2>8, <2>9, <2>10
       DEF Next, MainStep, Killed, Ended
<1>3. PInv /\ DecidedInv /\ [Next]_vars => DecidedInv'
  BY DecidedStep
<1> QED
  BY <1>1, <1>2, <1>3, CopiesInvariant, PTL DEF Spec, PoolSpec, Pool!Spec
=============================================================================
