--------------------------- MODULE LoopLimiterProofs ---------------------------
(***************************************************************************)
(* Proofs about module LoopLimiter, for every nest of loops, every shape   *)
(* of each loop and every counter width, when the bound fits the signed    *)
(* comparison.                                                             *)
(***************************************************************************)
EXTENDS LoopLimiter, TLAPS

\* the loops entered and not left are the one that runs and the loops around it
NestOk(o, a) ==
  /\ a \in o
  /\ \A l \in o : Parent[l] = 0 \/ Parent[l] \in o
  /\ \A l \in o : \A k \in o : Parent[l] = Parent[k] => l = k
  /\ \A l \in o : Parent[l] # a

\* where control is in an open loop: a loop around the running one is in its body
Pos(l) == IF l = at THEN where ELSE "latch"

\* what the counter, the iterations run and the iterations wanted have to do with
\* each other at each block of an open loop
LoopInv(l) ==
  /\ Pos(l) = "header" =>
       /\ ran[l] <= trip[l] /\ (shape[l] # "pre" => ran[l] < trip[l])
       /\ mode[l] # "none" => ran[l] = counter[l] /\ counter[l] <= MaxIterations
  /\ Pos(l) = "test" =>
       /\ ran[l] <= trip[l] /\ shape[l] = "pre" /\ mode[l] # "break"
       /\ mode[l] # "none" => ran[l] = counter[l] /\ counter[l] < MaxIterations
  /\ Pos(l) = "latch" =>
       /\ ran[l] <= trip[l]
       /\ (mode[l] # "none" /\ shape[l] = "single") =>
            mode[l] = "exit" /\ ran[l] = counter[l] /\ counter[l] <= MaxIterations
       /\ (mode[l] # "none" /\ shape[l] # "single") =>
            ran[l] = counter[l] + 1 /\ counter[l] < MaxIterations

StartInv == where = "entry" => open = {} /\ left = {} /\ \A l \in Loop : ran[l] = 0

PhaseInv ==
  /\ phase \in {"count", "instrument", "fatal"} => where = "entry"
  /\ (phase = "run" /\ where # "entry") =>
       where # "end" /\ NestOk(open, at) /\ \A l \in open : LoopInv(l)

ModeInv == \A l \in Loop : /\ mode[l] = "break" => shape[l] # "post"
                           /\ shape[l] = "single" => Children(l) = {}

IInv == /\ TypeOK /\ StartInv /\ PhaseInv /\ ModeInv
        /\ open \cap left = {}
        /\ BodyBound /\ CutOnlyAtBound /\ LeftExact

-----------------------------------------------------------------------------
USE LimiterAssumption

\* Loops are numbered from one, and a loop comes before the loops inside it.
LEMMA LoopFacts == Loop \subseteq Nat \ {0} /\ \A l \in Loop : Parent[l] \in Nat /\ Parent[l] < l
  BY DEF Loop

\* Entering an inner loop of the running one.
LEMMA EnterNest ==
  ASSUME NEW o \in SUBSET Loop, NEW a \in Loop, NestOk(o, a), NEW c \in Children(a)
  PROVE  c \in Loop /\ c \notin o /\ NestOk(o \cup {c}, c)
<1>1. c \in Loop /\ Parent[c] = a /\ c \notin o
  BY DEF Children, NestOk
<1>2. \A l \in o \cup {c} : Parent[l] # c
  BY <1>1, LoopFacts DEF NestOk
<1>3. QED
  BY <1>1, <1>2 DEF NestOk

\* Leaving the running loop for a later one in the same body.
LEMMA SiblingNest ==
  ASSUME NEW o \in SUBSET Loop, NEW a \in Loop, NestOk(o, a),
         NEW s \in Children(Parent[a]), s # a
  PROVE  s \in Loop /\ s \notin o /\ NestOk((o \ {a}) \cup {s}, s)
<1>1. s \in Loop /\ Parent[s] = Parent[a] /\ s \notin o
  BY DEF Children, NestOk
<1>2. \A l \in (o \ {a}) \cup {s} : Parent[l] = 0 \/ Parent[l] \in (o \ {a}) \cup {s}
  BY <1>1, LoopFacts DEF NestOk
<1>3. \A l \in (o \ {a}) \cup {s} : Parent[l] # s
  BY <1>1, LoopFacts DEF NestOk
<1>4. \A l \in (o \ {a}) \cup {s} : \A k \in (o \ {a}) \cup {s} : Parent[l] = Parent[k] => l = k
  BY <1>1 DEF NestOk
<1>5. QED
  BY <1>1, <1>2, <1>3, <1>4 DEF NestOk

\* Leaving the running loop for the rest of the body around it.
LEMMA ParentNest ==
  ASSUME NEW o \in SUBSET Loop, NEW a \in Loop, NestOk(o, a), Parent[a] # 0
  PROVE  Parent[a] \in o \ {a} /\ NestOk(o \ {a}, Parent[a])
<1>1. Parent[a] \in o \ {a}
  BY LoopFacts DEF NestOk
<1>2. QED
  BY <1>1 DEF NestOk

\* What StartBody does to the nest.
LEMMA BodyMove ==
  ASSUME TypeOK, NestOk(open, at), open \cap left = {}, StartBody(at)
  PROVE  /\ phase' = phase /\ at' \in Loop /\ open' \subseteq Loop /\ left' \subseteq left
         /\ open' \cap left' = {} /\ open' = open \cup {at'} /\ NestOk(open', at')
         /\ \/ where' = "latch" /\ at' = at
            \/ where' = "preheader" /\ at' \in Children(at) /\ at' \notin open
<1>0. at \in Loop /\ open \in SUBSET Loop /\ left \in SUBSET Loop /\ at \in open
  BY DEF TypeOK, NestOk
<1>1. CASE \E c \in Children(at) : GoInto(c, open, left)
  <2>1. PICK c \in Children(at) : GoInto(c, open, left)
    BY <1>1
  <2>2. c \in Loop /\ c \notin open /\ NestOk(open \cup {c}, c)
    BY <1>0, EnterNest
  <2>3. QED
    BY <1>0, <2>1, <2>2 DEF GoInto
<1>2. CASE at' = at /\ where' = "latch" /\ UNCHANGED <<open, left, phase>>
  BY <1>0, <1>2
<1>3. QED
  BY <1>1, <1>2 DEF StartBody

\* What Leave does to the nest.
LEMMA LeaveMove ==
  ASSUME TypeOK, phase = "run", NestOk(open, at), open \cap left = {}, Leave(at)
  PROVE  /\ at' \in Loop /\ open' \subseteq Loop /\ left' \subseteq left \cup {at}
         /\ open' \cap left' = {} /\ at \notin open'
         /\ \/ phase' = "left" /\ where' = "end"
            \/ /\ phase' = "run" /\ where' = "preheader" /\ NestOk(open', at')
               /\ at' \notin open /\ open' = (open \ {at}) \cup {at'}
            \/ /\ phase' = "run" /\ where' = "latch" /\ NestOk(open', at')
               /\ open' = open \ {at}
<1>0. at \in Loop /\ open \in SUBSET Loop /\ left \in SUBSET Loop /\ at \in open
  BY DEF TypeOK, NestOk
<1>1. CASE \E s \in Children(Parent[at]) : s > at /\ GoInto(s, open \ {at}, left \cup {at})
  <2>1. PICK s \in Children(Parent[at]) : s > at /\ GoInto(s, open \ {at}, left \cup {at})
    BY <1>1
  <2>2. s # at
    BY <1>0, <2>1, LoopFacts
  <2>3. s \in Loop /\ s \notin open /\ NestOk((open \ {at}) \cup {s}, s)
    BY <1>0, <2>2, SiblingNest
  <2>4. QED
    BY <1>0, <2>1, <2>2, <2>3 DEF GoInto
<1>2. CASE /\ open' = open \ {at} /\ left' = left \cup {at}
           /\ Parent[at] = 0 /\ at' = at /\ where' = "end" /\ phase' = "left"
  BY <1>0, <1>2
<1>3. CASE /\ open' = open \ {at} /\ left' = left \cup {at}
           /\ Parent[at] # 0 /\ at' = Parent[at] /\ where' = "latch" /\ phase' = phase
  <2>1. Parent[at] \in open \ {at} /\ NestOk(open \ {at}, Parent[at])
    BY <1>0, <1>3, ParentNest
  <2>2. QED
    BY <1>0, <1>3, <2>1
<1>4. QED
  BY <1>1, <1>2, <1>3 DEF Leave

\* Below the sign bit the comparison and the increment are the ones on numbers.
LEMMA CounterFacts ==
  ASSUME MaxIterations < Half, TypeOK, NEW l \in Loop, counter[l] <= MaxIterations
  PROVE  /\ AtBound(l) <=> counter[l] = MaxIterations
         /\ mode[l] # "none" => Bumped(l) = [counter EXCEPT ![l] = counter[l] + 1]
<1>1. counter[l] \in Nat /\ MaxIterations \in Nat /\ Half \in Nat /\ Half > 0
  BY DEF TypeOK
<1>2. Signed(counter[l]) = counter[l] /\ Signed(MaxIterations) = MaxIterations
  BY <1>1 DEF Signed
<1>3. counter[l] + 1 < 2 * Half
  BY <1>1
<1>4. AtBound(l) <=> counter[l] = MaxIterations
  BY <1>1, <1>2 DEF AtBound
<1>5. mode[l] # "none" => Bumped(l) = [counter EXCEPT ![l] = counter[l] + 1]
  <2>1. (IF counter[l] + 1 = 2 * Half THEN 0 ELSE counter[l] + 1) = counter[l] + 1
    BY <1>1, <1>3
  <2>2. mode[l] # "none" =>
          Bumped(l) = [counter EXCEPT ![l] = IF counter[l] + 1 = 2 * Half THEN 0 ELSE counter[l] + 1]
    BY DEF Bumped
  <2>3. QED
    BY <2>1, <2>2
<1>6. QED
  BY <1>4, <1>5

\* Counting a run of the body stays within what the loop wants.
LEMMA RanFacts ==
  ASSUME TypeOK, NEW l \in Loop
  PROVE  /\ RanOnce(l) \in 0..MaxTrip
         /\ ran[l] < trip[l] => RanOnce(l) <= trip[l]
         /\ ran[l] <= MaxIterations => RanOnce(l) = ran[l] + 1
<1>1. ran[l] \in 0..MaxTrip /\ trip[l] \in 0..Forever /\ MaxIterations \in Nat
  BY DEF TypeOK
<1>2. QED
  BY <1>1 DEF RanOnce, Forever

\* The counters keep their width.
LEMMA BumpedType ==
  ASSUME TypeOK, NEW l \in Loop
  PROVE  Bumped(l) \in [Loop -> 0..(2 * Half - 1)] /\ \A k \in Loop \ {l} : Bumped(l)[k] = counter[k]
<1>1. counter \in [Loop -> 0..(2 * Half - 1)] /\ Half \in Nat \ {0}
  BY DEF TypeOK
<1>2. (IF counter[l] + 1 = 2 * Half THEN 0 ELSE counter[l] + 1) \in 0..(2 * Half - 1)
  BY <1>1
<1>3. QED
  BY <1>1, <1>2 DEF Bumped

\* A loop around the running one is not touched by a step that enters or leaves the
\* running one, and stays in its body.
LEMMA OthersKeep ==
  ASSUME TypeOK, NEW l \in open, l # at, LoopInv(l), at' # l \/ where' = "latch",
         ran'[l] = ran[l], trip'[l] = trip[l], counter'[l] = counter[l],
         mode'[l] = mode[l], shape'[l] = shape[l]
  PROVE  LoopInv(l)'
<1>1. Pos(l) = "latch" /\ Pos(l)' = "latch"
  BY DEF Pos
<1>2. QED
  BY <1>1 DEF LoopInv

\* The invariant holds at the start.
LEMMA InitInv == Init => IInv
<1> SUFFICES ASSUME Init PROVE IInv
  OBVIOUS
<1>1. TypeOK
  BY DEF Init, TypeOK, Loop, Forever
<1>2. StartInv /\ PhaseInv /\ ModeInv /\ open \cap left = {}
  BY DEF Init, StartInv, PhaseInv, ModeInv
<1>3. BodyBound /\ CutOnlyAtBound /\ LeftExact
  BY DEF Init, BodyBound, CutOnlyAtBound, LeftExact
<1>4. QED
  BY <1>1, <1>2, <1>3 DEF IInv

\* The steps of the pass: the function does not run yet.
LEMMA PassInv ==
  ASSUME IInv, PassStep
  PROVE  IInv'
<1>0. TypeOK /\ where = "entry" /\ open = {} /\ left = {} /\ \A l \in Loop : ran[l] = 0
  BY DEF IInv, PassStep, BothLists, CountLoops, PassDone, Instrument, PhaseInv, StartInv
<1>1. UNCHANGED <<progVars, runVars>> /\ phase' \in {"fatal", "instrument", "run"}
  BY DEF PassStep, BothLists, CountLoops, PassDone, Instrument
<1>2. TypeOK'
  <2>1. worklist' \subseteq Loop
    BY <1>0 DEF PassStep, BothLists, CountLoops, PassDone, Instrument, Children, TypeOK, passVars
  <2>2. mode' \in [Loop -> {"none", "exit", "break"}]
    BY <1>0 DEF PassStep, BothLists, CountLoops, PassDone, Instrument, ModeOf, TypeOK, passVars
  <2>3. total' \in Nat /\ excluded' \in Nat
    BY <1>0 DEF PassStep, BothLists, CountLoops, PassDone, Instrument, TypeOK, passVars
  <2>4. changed' \in Nat
    BY <1>0 DEF PassStep, BothLists, CountLoops, PassDone, Instrument, TypeOK, passVars
  <2>5. QED
    BY <1>0, <1>1, <2>1, <2>2, <2>3, <2>4 DEF TypeOK, progVars, runVars
<1>3. ModeInv'
  <2>1. \A l \in Loop : mode'[l] = "break" => shape[l] # "post"
    BY <1>0 DEF IInv, ModeInv, TypeOK, PassStep, BothLists, CountLoops, PassDone, Instrument,
         ModeOf, passVars
  <2>2. QED
    BY <1>1, <2>1 DEF IInv, ModeInv, progVars
<1>4. BodyBound'
  BY <1>0, <1>1 DEF BodyBound, runVars
<1>5. QED
  BY <1>0, <1>1, <1>2, <1>3, <1>4 DEF IInv, StartInv, PhaseInv, CutOnlyAtBound, LeftExact,
       runVars

\* The first loop of the function is entered.
LEMMA EntryInv ==
  ASSUME IInv, FunctionEntry
  PROVE  IInv'
<1>0. TypeOK /\ open = {} /\ left = {} /\ phase = "run" /\ \A l \in Loop : ran[l] = 0
  BY DEF IInv, StartInv, FunctionEntry
<1>1. PICK c \in Children(0) : GoInto(c, open, left)
  BY DEF FunctionEntry
<1>2. c \in Loop /\ Parent[c] = 0 /\ c # 0
  BY LoopFacts DEF Children
<1>3. open' = {c} /\ left' = {} /\ at' = c /\ where' = "preheader" /\ phase' = "run"
  BY <1>0, <1>1 DEF GoInto
<1>4. UNCHANGED <<progVars, passVars, counter, trip, ran>>
  BY DEF FunctionEntry
<1>5. TypeOK'
  BY <1>0, <1>2, <1>3, <1>4 DEF TypeOK, progVars, passVars
<1>6. NestOk(open', at') /\ \A l \in open' : LoopInv(l)'
  BY <1>2, <1>3 DEF NestOk, LoopInv, Pos
<1>7. QED
  BY <1>0, <1>3, <1>4, <1>5, <1>6 DEF IInv, StartInv, PhaseInv, ModeInv, BodyBound,
       CutOnlyAtBound, LeftExact, progVars, passVars

\* What is known when the function runs, inside a loop.
LEMMA Inside ==
  ASSUME IInv, phase = "run", where # "entry"
  PROVE  /\ TypeOK /\ at \in Loop /\ at \in open /\ open \subseteq Loop /\ NestOk(open, at)
         /\ open \cap left = {} /\ at \notin left /\ \A l \in open : LoopInv(l)
  BY DEF IInv, PhaseInv, TypeOK, NestOk

\* The part of the invariant that a step of the running function can only disturb
\* for the loop it is at.
LEMMA Frame ==
  ASSUME IInv, phase = "run", where # "entry", where' # "entry", TypeOK',
         UNCHANGED <<progVars, passVars>>, phase' # "cut", phase' \in {"run", "left"},
         open' \cap left' = {}, left' \subseteq left \cup {at},
         \A l \in Loop \ {at} : ran'[l] = ran[l] /\ trip'[l] = trip[l],
         at \in left' => \/ ran'[at] = trip'[at]
                         \/ mode[at] = "break" /\ MaxIterations <= ran'[at] /\ ran'[at] < trip'[at],
         mode[at] # "none" => ran'[at] <= MaxIterations
                    + (IF mode[at] = "break" /\ shape[at] = "single" THEN 1 ELSE 0),
         phase' = "run" => where' # "end" /\ NestOk(open', at') /\ \A l \in open' : LoopInv(l)'
  PROVE  IInv'
<1>0. mode' = mode /\ shape' = shape /\ at \in Loop
  BY Inside DEF progVars, passVars
<1>1. LeftExact'
  <2> SUFFICES ASSUME NEW l \in left'
               PROVE  \/ ran'[l] = trip'[l]
                      \/ mode'[l] = "break" /\ MaxIterations <= ran'[l] /\ ran'[l] < trip'[l]
    BY DEF LeftExact
  <2>1. CASE l = at
    BY <1>0, <2>1
  <2>2. CASE l # at
    <3>1. l \in left /\ l \in Loop
      BY <2>2 DEF IInv, TypeOK
    <3>2. QED
      BY <1>0, <2>2, <3>1 DEF IInv, LeftExact
  <2>3. QED
    BY <2>1, <2>2
<1>2. BodyBound'
  <2> SUFFICES ASSUME NEW l \in Loop, mode[l] # "none"
               PROVE  ran'[l] <= MaxIterations
                        + (IF mode[l] = "break" /\ shape[l] = "single" THEN 1 ELSE 0)
    BY <1>0 DEF BodyBound
  <2>1. CASE l = at
    BY <2>1
  <2>2. CASE l # at
    BY <2>2 DEF IInv, BodyBound
  <2>3. QED
    BY <2>1, <2>2
<1>3. StartInv' /\ PhaseInv' /\ ModeInv' /\ CutOnlyAtBound'
  BY <1>0 DEF IInv, StartInv, PhaseInv, ModeInv, CutOnlyAtBound
<1>4. QED
  BY <1>1, <1>2, <1>3 DEF IInv

\* The loops around the running one when control goes into the body or leaves.
LEMMA AroundBody ==
  ASSUME IInv, phase = "run", where # "entry", StartBody(at), UNCHANGED <<progVars, passVars, trip>>,
         \A l \in Loop \ {at} : ran'[l] = ran[l] /\ counter'[l] = counter[l]
  PROVE  \A l \in open' \ {at} : LoopInv(l)'
<1>0. /\ TypeOK /\ at \in Loop /\ open \subseteq Loop /\ NestOk(open, at)
      /\ open \cap left = {} /\ \A l \in open : LoopInv(l)
  BY Inside
<1>1. /\ open' = open \cup {at'}
      /\ \/ where' = "latch" /\ at' = at
         \/ where' = "preheader" /\ at' \in Children(at) /\ at' \notin open
  BY <1>0, BodyMove
<1>2. ASSUME NEW l \in open', l # at PROVE LoopInv(l)'
  <2>1. CASE l \in open
    BY <1>0, <1>1, <1>2, <2>1, OthersKeep DEF progVars, passVars
  <2>2. CASE l \notin open
    BY <1>1, <1>2, <2>2 DEF LoopInv, Pos
  <2>3. QED
    BY <2>1, <2>2
<1>3. QED
  BY <1>2

\* The same when the running loop is left.
LEMMA AroundLeave ==
  ASSUME IInv, phase = "run", where # "entry", Leave(at), UNCHANGED <<progVars, passVars, trip>>,
         \A l \in Loop \ {at} : ran'[l] = ran[l] /\ counter'[l] = counter[l],
         phase' = "run"
  PROVE  NestOk(open', at') /\ \A l \in open' : LoopInv(l)'
<1>0. /\ TypeOK /\ at \in Loop /\ open \subseteq Loop /\ NestOk(open, at)
      /\ open \cap left = {} /\ \A l \in open : LoopInv(l)
  BY Inside
<1>1. /\ NestOk(open', at') /\ at \notin open'
      /\ \/ where' = "preheader" /\ at' \notin open /\ open' = (open \ {at}) \cup {at'}
         \/ where' = "latch" /\ open' = open \ {at}
  BY <1>0, LeaveMove
<1>2. ASSUME NEW l \in open' PROVE LoopInv(l)'
  <2>1. CASE l \in open
    BY <1>0, <1>1, <1>2, <2>1, OthersKeep DEF progVars, passVars
  <2>2. CASE l \notin open
    BY <1>1, <1>2, <2>2 DEF LoopInv, Pos
  <2>3. QED
    BY <2>1, <2>2
<1>3. QED
  BY <1>1, <1>2

\* A loop is entered: its counter and its count start again.
LEMMA PreheaderInv ==
  ASSUME MaxIterations < Half, IInv, Preheader
  PROVE  IInv'
<1>0. /\ TypeOK /\ at \in Loop /\ at \in open /\ open \subseteq Loop /\ NestOk(open, at)
      /\ open \cap left = {} /\ at \notin left /\ \A l \in open : LoopInv(l)
  BY Inside DEF Preheader
<1>1. /\ phase' = "run" /\ where' = "header" /\ UNCHANGED <<progVars, passVars, at, open, left>>
      /\ ran' = [ran EXCEPT ![at] = 0]
      /\ counter' = IF mode[at] = "none" THEN counter ELSE [counter EXCEPT ![at] = 0]
  BY DEF Preheader
<1>2. PICK n \in (IF shape[at] = "pre" THEN 0 ELSE 1)..Forever : trip' = [trip EXCEPT ![at] = n]
  BY DEF Preheader
<1>3. n \in 0..Forever /\ (shape[at] # "pre" => n > 0) /\ MaxTrip \in Nat /\ MaxIterations \in Nat
  BY <1>2 DEF Forever
<1>4. TypeOK'
  BY <1>0, <1>1, <1>2, <1>3 DEF TypeOK, progVars, passVars
<1>5. \A l \in Loop \ {at} : ran'[l] = ran[l] /\ trip'[l] = trip[l] /\ counter'[l] = counter[l]
  BY <1>0, <1>1, <1>2 DEF TypeOK
<1>6. ran'[at] = 0 /\ trip'[at] = n /\ (mode[at] # "none" => counter'[at] = 0)
  BY <1>0, <1>1, <1>2 DEF TypeOK
<1>7. LoopInv(at)'
  BY <1>1, <1>3, <1>6 DEF LoopInv, Pos, progVars, passVars
<1>8. ASSUME NEW l \in open, l # at PROVE LoopInv(l)'
  BY <1>0, <1>1, <1>5, <1>8, OthersKeep DEF progVars, passVars
<1>9. mode[at] # "none" => ran'[at] <= MaxIterations
                    + (IF mode[at] = "break" /\ shape[at] = "single" THEN 1 ELSE 0)
  BY <1>3, <1>6
<1>10. phase = "run" /\ where # "entry"
  BY DEF Preheader
<1>11. QED
  BY <1>0, <1>1, <1>4, <1>5, <1>7, <1>8, <1>9, <1>10, Frame

\* Control goes into the body of the running loop, which is counted.
LEMMA IntoBody ==
  ASSUME MaxIterations < Half, IInv, phase = "run", where # "entry", StartBody(at),
         UNCHANGED <<progVars, passVars, trip>>, ran' = [ran EXCEPT ![at] = RanOnce(at)],
         counter' \in [Loop -> 0..(2 * Half - 1)],
         \A l \in Loop \ {at} : counter'[l] = counter[l],
         ran[at] < trip[at],
         (mode[at] # "none" /\ shape[at] # "single") =>
            ran[at] = counter[at] /\ counter[at] < MaxIterations /\ counter'[at] = counter[at],
         (mode[at] # "none" /\ shape[at] = "single") =>
            /\ mode[at] = "exit" /\ ran[at] = counter[at]
            /\ counter[at] < MaxIterations /\ counter'[at] = counter[at] + 1
  PROVE  IInv'
<1>0. /\ TypeOK /\ at \in Loop /\ at \in open /\ open \subseteq Loop /\ NestOk(open, at)
      /\ open \cap left = {} /\ at \notin left
  BY Inside
<1>1. /\ phase' = phase /\ at' \in Loop /\ open' \subseteq Loop /\ left' \subseteq left
      /\ open' \cap left' = {} /\ open' = open \cup {at'} /\ NestOk(open', at')
      /\ \/ where' = "latch" /\ at' = at
         \/ where' = "preheader" /\ at' \in Children(at) /\ at' \notin open
  BY <1>0, BodyMove
<1>2. /\ RanOnce(at) \in 0..MaxTrip /\ RanOnce(at) <= trip[at]
      /\ mode[at] # "none" => RanOnce(at) = ran[at] + 1
      /\ ran[at] \in Nat /\ counter[at] \in Nat /\ MaxIterations \in Nat
  BY <1>0, RanFacts DEF TypeOK
<1>3. TypeOK'
  BY <1>0, <1>1, <1>2 DEF TypeOK, progVars, passVars
<1>4. ran'[at] = RanOnce(at) /\ \A l \in Loop \ {at} : ran'[l] = ran[l] /\ trip'[l] = trip[l]
  BY <1>0 DEF TypeOK
<1>5. \A l \in open' \ {at} : LoopInv(l)'
  BY <1>4, AroundBody
<1>6. ASSUME NEW l \in open', l = at PROVE LoopInv(l)'
  <2>1. Pos(l)' = "latch"
    BY <1>0, <1>1, <1>6 DEF Pos
  <2>2. shape'[l] = shape[at] /\ mode'[l] = mode[at] /\ trip'[l] = trip[at]
    BY <1>6 DEF progVars, passVars
  <2>3. QED
    BY <1>2, <1>4, <1>6, <2>1, <2>2 DEF LoopInv
<1>7. mode[at] # "none" => ran'[at] <= MaxIterations
                    + (IF mode[at] = "break" /\ shape[at] = "single" THEN 1 ELSE 0)
  BY <1>2, <1>4
<1>8. \A l \in open' : LoopInv(l)'
  BY <1>5, <1>6
<1>9. QED
  BY <1>0, <1>1, <1>3, <1>4, <1>7, <1>8, Frame

\* The running loop is left after what it has run.
LEMMA OutOfLoop ==
  ASSUME MaxIterations < Half, IInv, phase = "run", where # "entry", Leave(at),
         UNCHANGED <<progVars, passVars, trip>>,
         ran' \in [Loop -> 0..MaxTrip], counter' \in [Loop -> 0..(2 * Half - 1)],
         \A l \in Loop \ {at} : ran'[l] = ran[l] /\ counter'[l] = counter[l],
         \/ ran'[at] = trip[at]
         \/ mode[at] = "break" /\ MaxIterations <= ran'[at] /\ ran'[at] < trip[at],
         mode[at] # "none" => ran'[at] <= MaxIterations
                    + (IF mode[at] = "break" /\ shape[at] = "single" THEN 1 ELSE 0)
  PROVE  IInv'
<1>0. /\ TypeOK /\ at \in Loop /\ at \in open /\ open \subseteq Loop /\ NestOk(open, at)
      /\ open \cap left = {} /\ at \notin left
  BY Inside
<1>1. /\ at' \in Loop /\ open' \subseteq Loop /\ left' \subseteq left \cup {at}
      /\ open' \cap left' = {} /\ phase' \in {"run", "left"}
      /\ where' \in {"end", "preheader", "latch"} /\ (phase' = "run" => where' # "end")
  BY <1>0, LeaveMove
<1>2. TypeOK'
  BY <1>0, <1>1 DEF TypeOK, progVars, passVars
<1>3. phase' = "run" => NestOk(open', at') /\ \A l \in open' : LoopInv(l)'
  BY AroundLeave
<1>4. QED
  BY <1>0, <1>1, <1>2, <1>3, Frame

\* A loop of the "pre" shape goes from its bound check to its own test.
LEMMA ToTest ==
  ASSUME IInv, phase = "run", where = "header", where' = "test", shape[at] = "pre",
         mode[at] # "break", UNCHANGED <<phase, progVars, passVars, at, counter, trip, ran, open, left>>,
         mode[at] # "none" => ran[at] = counter[at] /\ counter[at] < MaxIterations
  PROVE  IInv'
<1>0. /\ TypeOK /\ at \in Loop /\ at \in open /\ open \subseteq Loop /\ NestOk(open, at)
      /\ open \cap left = {} /\ at \notin left /\ \A l \in open : LoopInv(l)
  BY Inside
<1>1. TypeOK'
  BY <1>0 DEF TypeOK, progVars, passVars
<1>2. LoopInv(at)'
  BY <1>0 DEF LoopInv, Pos, progVars, passVars
<1>3. ASSUME NEW l \in open, l # at PROVE LoopInv(l)'
  BY <1>0, <1>3, OthersKeep DEF progVars, passVars
<1>4. mode[at] # "none" => ran'[at] <= MaxIterations
                    + (IF mode[at] = "break" /\ shape[at] = "single" THEN 1 ELSE 0)
  BY <1>0 DEF IInv, BodyBound
<1>5. QED
  BY <1>0, <1>1, <1>2, <1>3, <1>4, Frame

\* The header of a loop that is not instrumented.
LEMMA PlainInv ==
  ASSUME MaxIterations < Half, IInv, HeaderPlain
  PROVE  IInv'
<1>0. /\ TypeOK /\ at \in Loop /\ at \in open /\ open \subseteq Loop /\ NestOk(open, at)
      /\ open \cap left = {} /\ at \notin left /\ \A l \in open : LoopInv(l)
  BY Inside DEF HeaderPlain
<1>1. /\ phase = "run" /\ where = "header" /\ mode[at] = "none" /\ HeaderRest
      /\ UNCHANGED <<progVars, passVars, counter, trip>>
  BY DEF HeaderPlain
<1>2. CASE shape[at] = "pre"
  BY <1>1, <1>2, ToTest DEF HeaderRest
<1>3. CASE shape[at] # "pre"
  <2>1. ran[at] < trip[at]
    BY <1>0, <1>1, <1>3 DEF LoopInv, Pos
  <2>2. QED
    BY <1>0, <1>1, <1>3, <2>1, IntoBody DEF HeaderRest, TypeOK
<1>4. QED
  BY <1>2, <1>3

\* The header of a loop in exit mode: it cuts the path exactly at the bound.
LEMMA ExitInv ==
  ASSUME MaxIterations < Half, IInv, HeaderExit
  PROVE  IInv'
<1>0. /\ TypeOK /\ at \in Loop /\ at \in open /\ open \subseteq Loop /\ NestOk(open, at)
      /\ open \cap left = {} /\ at \notin left /\ \A l \in open : LoopInv(l)
  BY Inside DEF HeaderExit
<1>1. /\ phase = "run" /\ where = "header" /\ mode[at] = "exit"
      /\ UNCHANGED <<progVars, passVars, trip>>
      /\ counter' = IF shape[at] = "single" THEN Bumped(at) ELSE counter
  BY DEF HeaderExit
<1>2. /\ ran[at] <= trip[at] /\ (shape[at] # "pre" => ran[at] < trip[at])
      /\ ran[at] = counter[at] /\ counter[at] <= MaxIterations
  BY <1>0, <1>1 DEF LoopInv, Pos
<1>3. /\ AtBound(at) <=> counter[at] = MaxIterations
      /\ Bumped(at) = [counter EXCEPT ![at] = counter[at] + 1]
  BY <1>0, <1>1, <1>2, CounterFacts
<1>4. counter' \in [Loop -> 0..(2 * Half - 1)] /\ \A l \in Loop \ {at} : counter'[l] = counter[l]
  BY <1>0, <1>1, BumpedType DEF TypeOK
<1>5. counter[at] \in Nat /\ MaxIterations \in Nat /\ trip[at] \in Nat
  BY <1>0 DEF TypeOK, Forever
<1>6. CASE AtBound(at)
  <2>1. phase' = "cut" /\ UNCHANGED <<at, where, ran, open, left>>
    BY <1>6 DEF HeaderExit
  <2>2. TypeOK'
    BY <1>0, <1>1, <1>4, <2>1 DEF TypeOK, progVars, passVars
  <2>3. CutOnlyAtBound'
    BY <1>1, <1>2, <1>3, <1>5, <1>6, <2>1 DEF CutOnlyAtBound, progVars, passVars
  <2>4. BodyBound' /\ LeftExact' /\ ModeInv' /\ StartInv' /\ PhaseInv'
    BY <1>1, <2>1 DEF IInv, BodyBound, LeftExact, ModeInv, StartInv, PhaseInv, progVars, passVars
  <2>5. QED
    BY <1>0, <2>1, <2>2, <2>3, <2>4 DEF IInv
<1>7. CASE ~ AtBound(at)
  <2>1. counter[at] < MaxIterations
    BY <1>2, <1>3, <1>5, <1>7
  <2>2. HeaderRest
    BY <1>7 DEF HeaderExit
  <2>3. CASE shape[at] = "pre"
    BY <1>1, <1>2, <2>1, <2>2, <2>3, ToTest DEF HeaderRest
  <2>4. CASE shape[at] # "pre"
    <3>1. shape[at] = "single" => counter'[at] = counter[at] + 1
      BY <1>0, <1>1, <1>3 DEF TypeOK
    <3>2. QED
      BY <1>0, <1>1, <1>2, <1>4, <2>1, <2>2, <2>4, <3>1, IntoBody DEF HeaderRest
  <2>5. QED
    BY <2>3, <2>4
<1>8. QED
  BY <1>6, <1>7

\* The widened exit predicate of a loop in break mode.
LEMMA BreakInv ==
  ASSUME MaxIterations < Half, IInv, HeaderBreak
  PROVE  IInv'
<1>0. /\ TypeOK /\ at \in Loop /\ at \in open /\ open \subseteq Loop /\ NestOk(open, at)
      /\ open \cap left = {} /\ at \notin left /\ \A l \in open : LoopInv(l)
  BY Inside DEF HeaderBreak
<1>1. /\ phase = "run" /\ where = "header" /\ mode[at] = "break" /\ shape[at] = "pre"
      /\ UNCHANGED <<progVars, passVars, counter, trip>>
  BY DEF HeaderBreak
<1>2. ran[at] <= trip[at] /\ ran[at] = counter[at] /\ counter[at] <= MaxIterations
  BY <1>0, <1>1 DEF LoopInv, Pos
<1>3. AtBound(at) <=> counter[at] = MaxIterations
  BY <1>0, <1>2, CounterFacts
<1>4. /\ counter[at] \in Nat /\ MaxIterations \in Nat /\ trip[at] \in Nat
      /\ counter \in [Loop -> 0..(2 * Half - 1)] /\ ran \in [Loop -> 0..MaxTrip]
  BY <1>0 DEF TypeOK, Forever
<1>5. CASE Wants(at, ran[at]) /\ ~ AtBound(at)
  <2>1. ran' = [ran EXCEPT ![at] = RanOnce(at)] /\ StartBody(at)
    BY <1>5 DEF HeaderBreak
  <2>2. ran[at] < trip[at] /\ counter[at] < MaxIterations
    BY <1>2, <1>3, <1>4, <1>5 DEF Wants
  <2>3. QED
    BY <1>1, <1>2, <1>4, <2>1, <2>2, IntoBody
<1>6. CASE ~ (Wants(at, ran[at]) /\ ~ AtBound(at))
  <2>1. ran' = ran /\ Leave(at)
    BY <1>6 DEF HeaderBreak
  <2>2. ran[at] = trip[at] \/ (MaxIterations <= ran[at] /\ ran[at] < trip[at])
    BY <1>2, <1>3, <1>4, <1>6 DEF Wants
  <2>3. QED
    BY <1>1, <1>2, <1>4, <2>1, <2>2, OutOfLoop
<1>7. QED
  BY <1>5, <1>6

\* A one-block loop in break mode.
LEMMA BlockInv ==
  ASSUME MaxIterations < Half, IInv, BlockBreak
  PROVE  IInv'
<1>0. /\ TypeOK /\ at \in Loop /\ at \in open /\ open \subseteq Loop /\ NestOk(open, at)
      /\ open \cap left = {} /\ at \notin left /\ \A l \in open : LoopInv(l)
  BY Inside DEF BlockBreak
<1>1. /\ phase = "run" /\ where = "header" /\ mode[at] = "break" /\ shape[at] = "single"
      /\ UNCHANGED <<progVars, passVars, trip>>
      /\ ran' = [ran EXCEPT ![at] = RanOnce(at)] /\ counter' = Bumped(at)
  BY DEF BlockBreak
<1>2. ran[at] < trip[at] /\ ran[at] = counter[at] /\ counter[at] <= MaxIterations
  BY <1>0, <1>1 DEF LoopInv, Pos
<1>3. /\ AtBound(at) <=> counter[at] = MaxIterations
      /\ Bumped(at) = [counter EXCEPT ![at] = counter[at] + 1]
  BY <1>0, <1>1, <1>2, CounterFacts
<1>4. counter' \in [Loop -> 0..(2 * Half - 1)] /\ \A l \in Loop \ {at} : counter'[l] = counter[l]
  BY <1>0, <1>1, BumpedType
<1>5. counter[at] \in Nat /\ MaxIterations \in Nat /\ trip[at] \in Nat
  BY <1>0 DEF TypeOK, Forever
<1>6. RanOnce(at) \in 0..MaxTrip /\ RanOnce(at) = ran[at] + 1
  BY <1>0, <1>2, RanFacts
<1>7. /\ ran'[at] = ran[at] + 1 /\ counter'[at] = counter[at] + 1
      /\ ran' \in [Loop -> 0..MaxTrip] /\ \A l \in Loop \ {at} : ran'[l] = ran[l]
  BY <1>0, <1>1, <1>3, <1>6 DEF TypeOK
<1>8. CASE Wants(at, RanOnce(at)) /\ ~ AtBound(at)
  <2>1. UNCHANGED <<phase, at, where, open, left>>
    BY <1>8 DEF BlockBreak
  <2>2. /\ ran'[at] <= trip[at] /\ ran'[at] < trip[at]
        /\ counter'[at] <= MaxIterations /\ ran'[at] = counter'[at]
    BY <1>2, <1>3, <1>5, <1>6, <1>7, <1>8 DEF Wants
  <2>3. TypeOK'
    BY <1>0, <1>1, <1>4, <1>7, <2>1 DEF TypeOK, progVars, passVars
  <2>4. LoopInv(at)'
    BY <1>1, <1>5, <2>1, <2>2 DEF LoopInv, Pos, progVars, passVars
  <2>5. ASSUME NEW l \in open, l # at PROVE LoopInv(l)'
    BY <1>0, <1>1, <1>4, <1>7, <2>1, <2>5, OthersKeep DEF progVars, passVars
  <2>6. mode[at] # "none" => ran'[at] <= MaxIterations
                    + (IF mode[at] = "break" /\ shape[at] = "single" THEN 1 ELSE 0)
    BY <1>1, <1>2, <1>5, <1>7
  <2>7. QED
    BY <1>0, <1>1, <1>7, <2>1, <2>3, <2>4, <2>5, <2>6, Frame
<1>9. CASE ~ (Wants(at, RanOnce(at)) /\ ~ AtBound(at))
  <2>1. Leave(at)
    BY <1>9 DEF BlockBreak
  <2>2. ran'[at] = trip[at] \/ (MaxIterations <= ran'[at] /\ ran'[at] < trip[at])
    BY <1>2, <1>3, <1>5, <1>6, <1>7, <1>9 DEF Wants
  <2>3. ran'[at] <= MaxIterations + 1
    BY <1>2, <1>5, <1>7
  <2>4. QED
    BY <1>1, <1>4, <1>7, <2>1, <2>2, <2>3, OutOfLoop
<1>10. QED
  BY <1>8, <1>9

\* The loop's own test in the header.
LEMMA TestInv ==
  ASSUME MaxIterations < Half, IInv, Test
  PROVE  IInv'
<1>0. /\ TypeOK /\ at \in Loop /\ at \in open /\ open \subseteq Loop /\ NestOk(open, at)
      /\ open \cap left = {} /\ at \notin left /\ \A l \in open : LoopInv(l)
  BY Inside DEF Test
<1>1. /\ phase = "run" /\ where = "test" /\ UNCHANGED <<progVars, passVars, counter, trip>>
  BY DEF Test
<1>2. /\ ran[at] <= trip[at] /\ shape[at] = "pre" /\ mode[at] # "break"
      /\ mode[at] # "none" => ran[at] = counter[at] /\ counter[at] < MaxIterations
  BY <1>0, <1>1 DEF LoopInv, Pos
<1>3. /\ counter[at] \in Nat /\ MaxIterations \in Nat /\ trip[at] \in Nat /\ ran[at] \in Nat
      /\ counter \in [Loop -> 0..(2 * Half - 1)] /\ ran \in [Loop -> 0..MaxTrip]
  BY <1>0 DEF TypeOK, Forever
<1>4. CASE Wants(at, ran[at])
  <2>1. ran' = [ran EXCEPT ![at] = RanOnce(at)] /\ StartBody(at)
    BY <1>4 DEF Test
  <2>2. ran[at] < trip[at]
    BY <1>4 DEF Wants
  <2>3. QED
    BY <1>1, <1>2, <1>3, <2>1, <2>2, IntoBody
<1>5. CASE ~ Wants(at, ran[at])
  <2>1. ran' = ran /\ Leave(at)
    BY <1>5 DEF Test
  <2>2. ran[at] = trip[at]
    BY <1>2, <1>3, <1>5 DEF Wants
  <2>3. QED
    BY <1>1, <1>2, <1>3, <2>1, <2>2, OutOfLoop
<1>6. QED
  BY <1>4, <1>5

\* The back edge: the count catches up with the body that has run.
LEMMA LatchInv ==
  ASSUME MaxIterations < Half, IInv, Latch
  PROVE  IInv'
<1>0. /\ TypeOK /\ at \in Loop /\ at \in open /\ open \subseteq Loop /\ NestOk(open, at)
      /\ open \cap left = {} /\ at \notin left /\ \A l \in open : LoopInv(l)
  BY Inside DEF Latch
<1>1. /\ phase = "run" /\ where = "latch" /\ UNCHANGED <<progVars, passVars, trip, ran>>
      /\ counter' = IF shape[at] = "single" THEN counter ELSE Bumped(at)
  BY DEF Latch
<1>2. /\ ran[at] <= trip[at]
      /\ (mode[at] # "none" /\ shape[at] = "single") =>
           mode[at] = "exit" /\ ran[at] = counter[at] /\ counter[at] <= MaxIterations
      /\ (mode[at] # "none" /\ shape[at] # "single") =>
           ran[at] = counter[at] + 1 /\ counter[at] < MaxIterations
  BY <1>0, <1>1 DEF LoopInv, Pos
<1>3. /\ counter[at] \in Nat /\ MaxIterations \in Nat /\ trip[at] \in Nat /\ ran[at] \in Nat
      /\ counter \in [Loop -> 0..(2 * Half - 1)] /\ ran \in [Loop -> 0..MaxTrip]
  BY <1>0 DEF TypeOK, Forever
<1>4. counter' \in [Loop -> 0..(2 * Half - 1)] /\ \A l \in Loop \ {at} : counter'[l] = counter[l]
  BY <1>0, <1>1, <1>3, BumpedType
<1>5. mode[at] # "none" => ran[at] = counter'[at] /\ counter'[at] <= MaxIterations
  <2>1. CASE mode[at] # "none" /\ shape[at] # "single"
    <3>1. Bumped(at) = [counter EXCEPT ![at] = counter[at] + 1]
      BY <1>0, <1>2, <1>3, <2>1, CounterFacts
    <3>2. counter'[at] = counter[at] + 1
      BY <1>0, <1>1, <1>3, <2>1, <3>1
    <3>3. QED
      BY <1>2, <1>3, <2>1, <3>2
  <2>2. CASE mode[at] # "none" /\ shape[at] = "single"
    BY <1>1, <1>2, <2>2
  <2>3. QED
    BY <2>1, <2>2
<1>6. mode[at] # "none" => ran'[at] <= MaxIterations
                    + (IF mode[at] = "break" /\ shape[at] = "single" THEN 1 ELSE 0)
  BY <1>0, <1>1 DEF IInv, BodyBound
<1>7. CASE shape[at] = "pre" \/ Wants(at, ran[at])
  <2>1. where' = "header" /\ UNCHANGED <<phase, at, open, left>>
    BY <1>7 DEF Latch
  <2>2. shape[at] # "pre" => ran[at] < trip[at]
    BY <1>7 DEF Wants
  <2>3. TypeOK'
    BY <1>0, <1>1, <1>4, <2>1 DEF TypeOK, progVars, passVars
  <2>4. LoopInv(at)'
    BY <1>1, <1>2, <1>5, <2>1, <2>2 DEF LoopInv, Pos, progVars, passVars
  <2>5. ASSUME NEW l \in open, l # at PROVE LoopInv(l)'
    BY <1>0, <1>1, <1>4, <2>1, <2>5, OthersKeep DEF progVars, passVars
  <2>6. QED
    BY <1>0, <1>1, <1>6, <2>1, <2>3, <2>4, <2>5, Frame
<1>8. CASE ~ (shape[at] = "pre" \/ Wants(at, ran[at]))
  <2>1. Leave(at)
    BY <1>8 DEF Latch
  <2>2. ran[at] = trip[at]
    BY <1>2, <1>3, <1>8 DEF Wants
  <2>3. QED
    BY <1>1, <1>3, <1>4, <1>6, <2>1, <2>2, OutOfLoop
<1>9. QED
  BY <1>7, <1>8

\* A step that changes nothing.
LEMMA StutterInv ==
  ASSUME IInv, UNCHANGED vars
  PROVE  IInv'
<1>1. UNCHANGED <<phase, progVars, passVars, runVars>>
  BY DEF vars
<1>2. TypeOK' /\ StartInv' /\ ModeInv' /\ (open \cap left = {})'
  BY <1>1 DEF IInv, TypeOK, StartInv, ModeInv, progVars, passVars, runVars
<1>3. PhaseInv'
  BY <1>1 DEF IInv, PhaseInv, NestOk, LoopInv, Pos, progVars, passVars, runVars
<1>4. BodyBound' /\ CutOnlyAtBound' /\ LeftExact'
  BY <1>1 DEF IInv, BodyBound, CutOnlyAtBound, LeftExact, progVars, passVars, runVars
<1>5. QED
  BY <1>2, <1>3, <1>4 DEF IInv

\* IInv is an invariant when the bound fits the signed comparison.
THEOREM LimiterInvariant ==
  ASSUME MaxIterations < Half
  PROVE  Spec => []IInv
<1>1. Init => IInv
  BY InitInv
<1>2. IInv /\ [Next]_vars => IInv'
  <2> SUFFICES ASSUME IInv, [Next]_vars PROVE IInv'
    OBVIOUS
  <2>1. CASE PassStep
    BY <2>1, PassInv
  <2>2. CASE RunStep
    BY <2>2, EntryInv, PreheaderInv, PlainInv, ExitInv, BreakInv, BlockInv, TestInv, LatchInv
       DEF RunStep
  <2>3. CASE Ended \/ UNCHANGED vars
    BY <2>3, StutterInv DEF Ended
  <2>4. QED
    BY <2>1, <2>2, <2>3 DEF Next
<1>3. QED
  BY <1>1, <1>2, PTL DEF Spec

\* The state of the pass and of the running function is well typed.
THEOREM LimiterType == ASSUME MaxIterations < Half PROVE Spec => []TypeOK
<1>1. IInv => TypeOK
  BY DEF IInv
<1>2. QED
  BY <1>1, LimiterInvariant, PTL

\* The inserted counters bound every entry of every instrumented loop, in every nest.
THEOREM LimiterBound == ASSUME MaxIterations < Half PROVE Spec => []BodyBound
<1>1. IInv => BodyBound
  BY DEF IInv
<1>2. QED
  BY <1>1, LimiterInvariant, PTL

\* klee_silent_exit is called only by a loop that has used up its bound.
THEOREM LimiterCut == ASSUME MaxIterations < Half PROVE Spec => []CutOnlyAtBound
<1>1. IInv => CutOnlyAtBound
  BY DEF IInv
<1>2. QED
  BY <1>1, LimiterInvariant, PTL

\* Below the bound the instrumented function does what the original one does.
THEOREM LimiterExact == ASSUME MaxIterations < Half PROVE Spec => []LeftExact
<1>1. IInv => LeftExact
  BY DEF IInv
<1>2. QED
  BY <1>1, LimiterInvariant, PTL
=============================================================================
