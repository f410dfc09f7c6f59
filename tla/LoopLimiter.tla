----------------------------- MODULE LoopLimiter -----------------------------
(***************************************************************************)
(* loop-limiter/LoopLimiter.cpp: the pass over the loops of one function,  *)
(* and then the function as the pass leaves it, running.                   *)
(*                                                                         *)
(* A loop's shape says where its own exit test is:                         *)
(*   "pre"     in the header, before the body (while)                      *)
(*   "post"    after the body, outside the header (do-while)               *)
(*   "single"  the loop is one block: header, body, test and latch         *)
(* What the input makes a loop do is the number of iterations it wants     *)
(* each time it is entered (trip).                                         *)
(***************************************************************************)
EXTENDS Integers, FiniteSets

CONSTANTS
  NumLoops,       \* loops of the function
  Parent,         \* the loop around each loop, 0 for none
  Half,           \* 2^31 in the code: the counters are integers modulo 2 * Half
  MaxIterations,  \* the unsigned option -max-iterations
  Shapes,         \* the shapes a loop may have
  MaxTrip         \* bound: iterations a loop may want; one more stands for "no end"

Loop == 1..NumLoops
Children(l) == {c \in Loop : Parent[c] = l}
Forever == MaxTrip + 1

ASSUME LimiterAssumption ==
  /\ NumLoops \in Nat \ {0}
  /\ Parent \in [Loop -> 0..NumLoops]
  /\ \A l \in Loop : Parent[l] < l
  /\ Half \in Nat \ {0}
  /\ MaxIterations \in 0..(2 * Half - 1)
  /\ Shapes \subseteq {"pre", "post", "single"}
  /\ MaxTrip \in Nat /\ MaxTrip > MaxIterations + 1   \* so that ran can pass every bound

VARIABLES
  phase,     \* "count", "instrument", "run", then "left", "cut" or "fatal"
  shape, preheader,       \* the loops of the function
  breakMode, lists, listed,   \* -break; the lists that are given; F is in the list
  worklist, mode,         \* the pass: loops to visit; "none", "exit" or "break"
  total, changed, excluded,   \* its statistics
  at, where, \* the block that runs: of which loop, and which one
  counter,   \* loop.counter.<n>
  trip,      \* iterations each loop wants since it was entered
  ran,       \* how often its body has run since then, up to MaxTrip
  open,      \* loops entered and not left
  left       \* loops left and not entered again

progVars == <<shape, preheader, breakMode, lists, listed>>
passVars == <<worklist, mode, total, changed, excluded>>
runVars  == <<at, where, counter, trip, ran, open, left>>
vars == <<phase, progVars, passVars, runVars>>

Init ==
  /\ phase = "count"
  /\ shape \in [Loop -> Shapes]
  /\ \A l \in Loop : shape[l] = "single" => Children(l) = {}
  /\ preheader \in SUBSET Loop
  /\ breakMode \in BOOLEAN
  /\ lists \in SUBSET {"white", "black"} /\ listed \in BOOLEAN
  /\ (lists = {} => ~ listed)
  /\ worklist = {} /\ mode = [l \in Loop |-> "none"]
  /\ total = 0 /\ changed = 0 /\ excluded = 0
  /\ at = 1 /\ where = "entry"
  /\ counter = [l \in Loop |-> 0] /\ trip = [l \in Loop |-> 0] /\ ran = [l \in Loop |-> 0]
  /\ open = {} /\ left = {}

-----------------------------------------------------------------------------
(* The pass *)

BothLists ==
  /\ phase = "count" /\ lists = {"white", "black"}
  /\ phase' = "fatal"
  /\ UNCHANGED <<progVars, passVars, runVars>>

Allowed == CASE "white" \in lists -> listed
             [] "black" \in lists /\ "white" \notin lists -> ~ listed
             [] OTHER -> TRUE

\* the statistics, the whitelist or blacklist, and the outermost loops to visit
CountLoops ==
  /\ phase = "count" /\ lists # {"white", "black"}
  /\ total' = total + NumLoops
  /\ IF Allowed
       THEN phase' = "instrument" /\ worklist' = Children(0) /\ UNCHANGED excluded
       ELSE phase' = "run" /\ excluded' = excluded + NumLoops /\ UNCHANGED worklist
  /\ UNCHANGED <<progVars, mode, changed, runVars>>

\* break mode needs a header that branches into and out of the loop
ModeOf(l) ==
  CASE l \notin preheader -> "none"
    [] l \in preheader /\ breakMode /\ shape[l] # "post" -> "break"
    [] OTHER -> "exit"

\* one element of the worklist (their order only names the counters)
Instrument(l) ==
  /\ phase = "instrument" /\ l \in worklist
  /\ worklist' = (worklist \ {l}) \cup Children(l)
  /\ mode' = [mode EXCEPT ![l] = ModeOf(l)]
  /\ changed' = IF ModeOf(l) = "none" THEN changed ELSE changed + 1
  /\ UNCHANGED <<phase, progVars, total, excluded, runVars>>

PassDone ==
  /\ phase = "instrument" /\ worklist = {}
  /\ phase' = "run"
  /\ UNCHANGED <<progVars, passVars, runVars>>

-----------------------------------------------------------------------------
(* Moving between the blocks of the function *)

\* control reaches the preheader of c
GoInto(c, nowOpen, nowLeft) ==
  /\ at' = c /\ where' = "preheader"
  /\ open' = nowOpen \cup {c} /\ left' = nowLeft \ {c}
  /\ phase' = phase

\* the body of l: some inner loop first, or none
StartBody(l) ==
  \/ \E c \in Children(l) : GoInto(c, open, left)
  \/ at' = l /\ where' = "latch" /\ UNCHANGED <<open, left, phase>>

\* l is left: a later loop of the same body follows, or none
Leave(l) ==
  \/ \E s \in Children(Parent[l]) : s > l /\ GoInto(s, open \ {l}, left \cup {l})
  \/ /\ open' = open \ {l} /\ left' = left \cup {l}
     /\ IF Parent[l] = 0
          THEN at' = l /\ where' = "end" /\ phase' = "left"
          ELSE at' = Parent[l] /\ where' = "latch" /\ phase' = phase

Wants(l, n) == n < trip[l]      \* the loop's own test after n iterations
RanOnce(l) == IF ran[l] < MaxTrip THEN ran[l] + 1 ELSE ran[l]

FunctionEntry ==
  /\ phase = "run" /\ where = "entry"
  /\ \E c \in Children(0) : GoInto(c, open, left)
  /\ UNCHANGED <<progVars, passVars, counter, trip, ran>>

-----------------------------------------------------------------------------
(* What the pass inserts *)

Signed(x) == IF x >= Half THEN x - 2 * Half ELSE x
AtBoundStrict(l) == Signed(counter[l]) > Signed(MaxIterations)
AtBound(l) == Signed(counter[l]) >= Signed(MaxIterations)   \* ICmpSGE
\* CreateAdd, modulo 2 * Half
Bumped(l) == IF mode[l] = "none" THEN counter
             ELSE [counter EXCEPT ![l] = IF @ + 1 = 2 * Half THEN 0 ELSE @ + 1]

\* the counters are set once, at the start of the function
PreheaderNoReset ==
  /\ phase = "run" /\ where = "preheader"
  /\ where' = "header"
  /\ \E n \in (IF shape[at] = "pre" THEN 0 ELSE 1)..Forever : trip' = [trip EXCEPT ![at] = n]
  /\ ran' = [ran EXCEPT ![at] = 0]
  /\ UNCHANGED <<phase, progVars, passVars, at, counter, open, left>>

\* the store of 0 before the loop
Preheader ==
  /\ phase = "run" /\ where = "preheader"
  /\ where' = "header"
  /\ counter' = IF mode[at] = "none" THEN counter ELSE [counter EXCEPT ![at] = 0]
  /\ \E n \in (IF shape[at] = "pre" THEN 0 ELSE 1)..Forever : trip' = [trip EXCEPT ![at] = n]
  /\ ran' = [ran EXCEPT ![at] = 0]
  /\ UNCHANGED <<phase, progVars, passVars, at, open, left>>

\* the header goes on to what it held before the split
HeaderRest ==
  IF shape[at] = "pre"
    THEN where' = "test" /\ UNCHANGED <<phase, at, ran, open, left>>
    ELSE ran' = [ran EXCEPT ![at] = RanOnce(at)] /\ StartBody(at)

HeaderPlain ==
  /\ phase = "run" /\ where = "header" /\ mode[at] = "none"
  /\ HeaderRest
  /\ UNCHANGED <<progVars, passVars, counter, trip>>

\* exit mode: klee.exit.bb at the bound.  In a one-block loop the latch is the
\* header, so that the increment is here as well.
HeaderExit ==
  /\ phase = "run" /\ where = "header" /\ mode[at] = "exit"
  /\ IF AtBound(at)
       THEN phase' = "cut" /\ UNCHANGED <<at, where, ran, open, left>>
       ELSE HeaderRest
  /\ counter' = IF shape[at] = "single" THEN Bumped(at) ELSE counter
  /\ UNCHANGED <<progVars, passVars, trip>>

\* the two predicates are joined the wrong way
HeaderBreakOr ==
  /\ phase = "run" /\ where = "header" /\ mode[at] = "break" /\ shape[at] = "pre"
  /\ IF Wants(at, ran[at]) \/ ~ AtBound(at)
       THEN ran' = [ran EXCEPT ![at] = RanOnce(at)] /\ StartBody(at)
       ELSE Leave(at) /\ UNCHANGED ran
  /\ UNCHANGED <<progVars, passVars, counter, trip>>

\* break mode, test before the body: the exit predicate is widened
HeaderBreak ==
  /\ phase = "run" /\ where = "header" /\ mode[at] = "break" /\ shape[at] = "pre"
  /\ IF Wants(at, ran[at]) /\ ~ AtBound(at)
       THEN ran' = [ran EXCEPT ![at] = RanOnce(at)] /\ StartBody(at)
       ELSE Leave(at) /\ UNCHANGED ran
  /\ UNCHANGED <<progVars, passVars, counter, trip>>

\* break mode, one block: the body has run when the predicate is evaluated
BlockBreak ==
  /\ phase = "run" /\ where = "header" /\ mode[at] = "break" /\ shape[at] = "single"
  /\ ran' = [ran EXCEPT ![at] = RanOnce(at)]
  /\ counter' = Bumped(at)
  /\ IF Wants(at, RanOnce(at)) /\ ~ AtBound(at)
       THEN UNCHANGED <<phase, at, where, open, left>>
       ELSE Leave(at)
  /\ UNCHANGED <<progVars, passVars, trip>>

\* the loop's own test in the header, behind the bound check
Test ==
  /\ phase = "run" /\ where = "test"
  /\ IF Wants(at, ran[at])
       THEN ran' = [ran EXCEPT ![at] = RanOnce(at)] /\ StartBody(at)
       ELSE Leave(at) /\ UNCHANGED ran
  /\ UNCHANGED <<progVars, passVars, counter, trip>>

\* a back edge without an increment
LatchNoBump ==
  /\ phase = "run" /\ where = "latch"
  /\ IF shape[at] = "pre" \/ Wants(at, ran[at])
       THEN where' = "header" /\ UNCHANGED <<phase, at, open, left>>
       ELSE Leave(at)
  /\ UNCHANGED <<progVars, passVars, counter, trip, ran>>

\* the increment before the back edge, and the test of a loop that has it here
Latch ==
  /\ phase = "run" /\ where = "latch"
  /\ counter' = IF shape[at] = "single" THEN counter ELSE Bumped(at)
  /\ IF shape[at] = "pre" \/ Wants(at, ran[at])
       THEN where' = "header" /\ UNCHANGED <<phase, at, open, left>>
       ELSE Leave(at)
  /\ UNCHANGED <<progVars, passVars, trip, ran>>

-----------------------------------------------------------------------------
PassStep == BothLists \/ CountLoops \/ PassDone \/ \E l \in Loop : Instrument(l)
RunStep  == \/ FunctionEntry \/ Preheader \/ HeaderPlain \/ HeaderExit \/ HeaderBreak
            \/ BlockBreak \/ Test \/ Latch
Over == phase \in {"left", "cut", "fatal"}
Ended == Over /\ UNCHANGED vars
Next == PassStep \/ RunStep \/ Ended

(* The pass and the instrumented function are sequential programs that go on. *)
Fairness == WF_vars(PassStep \/ RunStep)

Spec == Init /\ [][Next]_vars /\ Fairness

-----------------------------------------------------------------------------
(* Properties *)

\* The type invariant of the pass and of the running function.
TypeOK ==
  /\ phase \in {"count", "instrument", "run", "left", "cut", "fatal"}
  /\ shape \in [Loop -> Shapes] /\ preheader \subseteq Loop
  /\ breakMode \in BOOLEAN /\ lists \subseteq {"white", "black"} /\ listed \in BOOLEAN
  /\ worklist \subseteq Loop /\ mode \in [Loop -> {"none", "exit", "break"}]
  /\ total \in Nat /\ changed \in Nat /\ excluded \in Nat
  /\ at \in Loop
  /\ where \in {"entry", "preheader", "header", "test", "latch", "end"}
  /\ counter \in [Loop -> 0..(2 * Half - 1)]
  /\ trip \in [Loop -> 0..Forever] /\ ran \in [Loop -> 0..MaxTrip]
  /\ open \subseteq Loop /\ left \subseteq Loop

\* Each time an instrumented loop is entered its body runs at most MaxIterations
\* times, however often that happens inside an outer loop; a one-block loop in break
\* mode, whose widened predicate follows the body, runs it at most once more.
BodyBound ==
  \A l \in Loop : mode[l] # "none" =>
    ran[l] <= MaxIterations + (IF mode[l] = "break" /\ shape[l] = "single" THEN 1 ELSE 0)

\* A path is cut only by a loop that has just run its body MaxIterations times.
CutOnlyAtBound ==
  phase = "cut" => mode[at] = "exit" /\ ran[at] = MaxIterations /\ trip[at] >= MaxIterations

\* A loop that was left has run as often as the input wants, or it is in break mode,
\* wanted more, and has reached the bound: below the bound nothing changes.
LeftExact ==
  \A l \in left : \/ ran[l] = trip[l]
                  \/ mode[l] = "break" /\ MaxIterations <= ran[l] /\ ran[l] < trip[l]

\* If every loop is instrumented, the function ends whatever the input wants.
Bounded == (phase = "run" /\ \A l \in Loop : mode[l] # "none") ~> Over

\* "When a loop exceeds a configured iteration bound the pass inserts a call to
\* klee_silent_exit(1)": only a loop that wants more than the bound ends the path.
CutOnlyBeyondBound == phase = "cut" => trip[at] > MaxIterations

\* "when MaxIterations == N the body will not run for the (N+1)-th iteration": in no
\* loop that the pass instruments.
BodyStopsAtBound == \A l \in Loop : mode[l] # "none" => ran[l] <= MaxIterations
=============================================================================
