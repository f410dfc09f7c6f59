------------------------------ MODULE ReplayTrace ------------------------------
(***************************************************************************)
(* Reproducing reported leaks (pin-tracer/replay_trace.cpp with            *)
(* tools/postprocess/reproduce_positives.py and build_rows of              *)
(* tools/converters/binsec_toml_to_json.py).  For every reported row the   *)
(* replay executable runs twice under Pin, once per value of the witness;  *)
(* the tracer writes one line per instruction and per memory access; the   *)
(* two files are compared line by line; the first difference decides the   *)
(* row's status.  What the programs execute is a parameter.                *)
(***************************************************************************)
EXTENDS Integers, Sequences, FiniteSets

CONSTANTS
  Executions,   \* program -> its input files -> what it executes, for each of its secrets
  NoDebugOf,    \* program -> lines its build may leave without DWARF, as sets
  StatementsOf, \* program -> its statements of several lines, as sets of lines
  Lookback,     \* TRACE_LOOKBACK
  NumRows       \* bound: reported rows

None      == 0              \* no address, no event
NoOperand == <<"none", 0>>

Access == [kind : {"R", "W"}, at : STRING \X Int]

\* an executed instruction: its address and the accesses it makes.  The calls that record
\* them are predicated: an instruction that did not access memory this time (a conditional
\* move, a rep with count zero) has none of them, whatever its operands are
Instruction == [ip : Nat \ {None}, ops : Seq(Access)]

\* two executions of one program begin at its entry point
SameEntry(x, y) == x # << >> /\ y # << >> /\ x[1].ip = y[1].ip

ASSUME ReplayAssumption ==
  /\ Lookback \in Nat \ {0} /\ NumRows \in Nat
  /\ \A p \in DOMAIN Executions : \A w \in DOMAIN Executions[p] :
       \A e, f \in Executions[p][w] :
         e.code \in Seq(Instruction) /\ SameEntry(e.code, f.code)

VARIABLES
  mode,     \* "klee" (mode_dataframe) or "binsec" (build_rows)
  prog,     \* the replay executable
  nodebug,  \* lines whose instructions have no DWARF line
  row,      \* the row being reproduced
  claim,    \* the line and kind it reports, once they are compared
  sec,      \* run -> the secret of its witness
  setup,    \* how the files of the witness suit the program
  exec,     \* run -> the instructions it executes
  phase,
  pc,       \* instructions traced
  trace,    \* run -> lines of the trace file
  recent,   \* recent_ips
  div,      \* what compare_trace_files found
  status,   \* row -> reproduced_status
  untried,  \* rows build_rows had nothing to replay for
  saved     \* save_combined_json was reached

replayVars ==
  <<mode, prog, nodebug, row, claim, sec, setup, exec, phase, pc, trace, recent, div, status, untried,
    saved>>

Run == {1, 2}

NoClaim == [line |-> None, kind |-> "none"]
NoDiv   == [a |-> None, b |-> None, culprit |-> None]

ReplayInit ==
  /\ mode \in {"klee", "binsec"} /\ prog \in DOMAIN Executions
  /\ nodebug \in {{}} \cup NoDebugOf[prog]
  /\ row = 1 /\ claim = NoClaim
  /\ sec = <<0, 0>> /\ setup = "ok" /\ exec = << << >>, << >> >>
  /\ phase = "next"
  /\ pc = 0 /\ trace = << << >>, << >> >>
  /\ recent = << >> /\ div = NoDiv
  /\ status = [k \in 1..NumRows |-> "not_reproduced"] /\ untried = {} /\ saved = FALSE

-----------------------------------------------------------------------------
(* Rows *)

\* the files of analyze_input_bytes
StartRow ==
  /\ phase = "next" /\ row <= NumRows
  /\ setup' \in DOMAIN Executions[prog]
  /\ \E e1, e2 \in Executions[prog][setup'] :
       sec' = <<e1.secret, e2.secret>> /\ exec' = <<e1.code, e2.code>>
  /\ claim' = NoClaim
  /\ phase' = "run1"
  /\ UNCHANGED <<mode, prog, nodebug, row, pc, trace, recent, div, status, untried, saved>>

\* the traces are in a directory that goes with the row
Judged(st) ==
  /\ status' = [status EXCEPT ![row] = st]
  /\ phase' = "next" /\ row' = row + 1
  /\ pc' = 0 /\ trace' = << << >>, << >> >> /\ recent' = << >> /\ div' = NoDiv
  /\ UNCHANGED <<mode, prog, nodebug, sec, setup, exec, untried, saved>>

\* a KLEE row without inst_id, kind, ktest file or value in it
NoWitness ==
  /\ mode = "klee" /\ phase = "next" /\ row <= NumRows
  /\ Judged("location_mismatch") /\ UNCHANGED claim

\* a Binsec row without a counterexample or without a location
Skip ==
  /\ mode = "binsec" /\ phase = "next" /\ row <= NumRows
  /\ untried' = untried \cup {row} /\ row' = row + 1
  /\ UNCHANGED <<mode, prog, nodebug, claim, sec, setup, exec, phase, pc, trace, recent, div, status, saved>>

\* save_combined_json, or the converter's output
Save ==
  /\ phase = "next" /\ row > NumRows
  /\ phase' = "done" /\ saved' = TRUE
  /\ UNCHANGED <<mode, prog, nodebug, row, claim, sec, setup, exec, pc, trace, recent, div, status, untried>>

-----------------------------------------------------------------------------
(* The tracer *)

Running(r) == phase = IF r = 1 THEN "run1" ELSE "run2"

InstructionLine(ins) == [kind |-> "I", ip |-> ins.ip, at |-> NoOperand]
AccessLine(ins, m)   == [kind |-> ins.ops[m].kind, ip |-> ins.ip, at |-> ins.ops[m].at]

\* instrument_instruction: record_instruction, then record_read or record_write per access
Recorded(ins) ==
  <<InstructionLine(ins)>> \o [m \in 1..Len(ins.ops) |-> AccessLine(ins, m)]

Trace(r) ==
  /\ Running(r) /\ pc < Len(exec[r])
  /\ trace' = [trace EXCEPT ![r] = @ \o Recorded(exec[r][pc + 1])]
  /\ pc' = pc + 1
  /\ UNCHANGED <<mode, prog, nodebug, row, claim, sec, setup, exec, phase, recent, div, status, untried, saved>>

\* the program exits, with whatever code; finish() closes the file
Finish(r) ==
  /\ Running(r) /\ pc = Len(exec[r])
  /\ phase' = (IF r = 1 THEN "run2" ELSE "compare") /\ pc' = 0
  /\ UNCHANGED <<mode, prog, nodebug, row, claim, sec, setup, exec, trace, recent, div, status, untried, saved>>

\* subprocess.run kills Pin: TimeoutExpired
Timeout(r) == Running(r) /\ Judged("timeout") /\ UNCHANGED claim

\* main() of the tracer returns 1: PIN_Init or the output file.  The trace is
\* not there, run_pin_trace raises, and the rows reproduced so far are not saved
PinFails(r) ==
  /\ Running(r) /\ pc = 0
  /\ phase' = "failed"
  /\ UNCHANGED <<mode, prog, nodebug, row, claim, sec, setup, exec, pc, trace, recent, div, status, untried, saved>>

-----------------------------------------------------------------------------
(* compare_trace_files: pc lines of each file have been read *)

Line(r) == IF pc < Len(trace[r]) THEN trace[r][pc + 1] ELSE [kind |-> "end", ip |-> None]

SameLineStays ==
  /\ phase = "compare" /\ Line(1) = Line(2) /\ pc < Len(trace[1])
  /\ UNCHANGED replayVars

SameLine ==
  /\ phase = "compare" /\ Line(1) = Line(2) /\ pc < Len(trace[1])
  /\ recent' = LET all == Append(recent, Line(1).ip)
               IN IF Len(all) > Lookback THEN Tail(all) ELSE all
  /\ pc' = pc + 1
  /\ UNCHANGED <<mode, prog, nodebug, row, claim, sec, setup, exec, phase, trace, div, status, untried, saved>>

LastCommon == IF recent = << >> THEN None ELSE recent[Len(recent)]

CulpritAlwaysEvent(a, b) == IF a.kind # "end" THEN a.ip ELSE b.ip

\* two different instructions blame the last shared one, anything else the event
Culprit(a, b) ==
  LET alone(e) == IF e.kind # "I" \/ LastCommon = None THEN e.ip ELSE LastCommon
  IN CASE a.kind = "end" -> alone(b)
       [] b.kind = "end" -> alone(a)
       [] a.kind = "I" /\ b.kind = "I" /\ a.ip # b.ip -> LastCommon
       [] OTHER -> a.ip

Differ ==
  /\ phase = "compare" /\ Line(1) # Line(2)
  /\ div' = [a |-> Line(1), b |-> Line(2), culprit |-> Culprit(Line(1), Line(2))]
  /\ phase' = "judge"
  /\ UNCHANGED <<mode, prog, nodebug, row, claim, sec, setup, exec, pc, trace, recent, status, untried, saved>>

\* both files end; the runs may have failed alike before they used the secret
Identical ==
  /\ phase = "compare" /\ pc = Len(trace[1]) /\ pc = Len(trace[2])
  /\ Judged("identical_trace") /\ UNCHANGED claim

-----------------------------------------------------------------------------
(* The verdict *)

\* classify_divergence
Classified ==
  IF /\ div.a.ip = div.b.ip
     /\ div.a.kind \in {"R", "W"} /\ div.b.kind \in {"R", "W"}
    THEN "memory" ELSE "branch"

\* resolve_divergence_location: the culprit, else the latest line that has DWARF
Resolved ==
  LET known == {k \in DOMAIN recent : recent[k] \notin nodebug}
  IN IF div.culprit # None /\ div.culprit \notin nodebug THEN div.culprit
     ELSE IF known = {} THEN None
     ELSE recent[CHOOSE k \in known : \A j \in known : j <= k]

\* location_matches: the same line, or a line of the same statement (_statement_bounds)
SameStatement(p, expected, actual) ==
  expected = actual \/ \E lines \in StatementsOf[p] : {expected, actual} \subseteq lines

KindMatches(c) == c.kind = "none" \/ c.kind = Classified

VerdictIgnoresKind(c) ==
  IF Resolved # None /\ SameStatement(prog, c.line, Resolved) THEN "success" ELSE "location_mismatch"

\* mode_dataframe looks at the location first, validate_input_values at the kind
Verdict(c) ==
  CASE Resolved = None /\ (mode = "klee" \/ KindMatches(c)) -> "location_mismatch"
    [] Resolved # None /\ KindMatches(c) ->
         IF SameStatement(prog, c.line, Resolved) THEN "success" ELSE "location_mismatch"
    [] OTHER -> "kind_mismatch"

\* lines the runs execute; 1 stands for every other line
Lines == {1} \cup UNION {{exec[r][k].ip : k \in DOMAIN exec[r]} : r \in Run}

\* the row reports some line of the program; a leak Binsec did not time has no kind
Judge ==
  /\ phase = "judge"
  /\ \E line \in Lines, kind \in {"branch", "memory", "none"} :
       /\ kind = "none" => mode = "binsec"
       /\ claim' = [line |-> line, kind |-> kind]
       /\ Judged(Verdict([line |-> line, kind |-> kind]))

\* what happens to a row that was started
ReplayStep ==
  \/ \E r \in Run : Trace(r) \/ Finish(r) \/ Timeout(r) \/ PinFails(r)
  \/ SameLine \/ Differ \/ Identical \/ Judge

ReplayNext == StartRow \/ NoWitness \/ Skip \/ Save \/ ReplayStep

ReplaySpec == ReplayInit /\ [][ReplayNext]_replayVars

-----------------------------------------------------------------------------
(* Properties *)

\* the first place at which two executions show something different; a run that is over
\* shows nothing
FirstDifference ==
  LET x == exec[1]
      y == exec[2]
      differ == {k \in DOMAIN x \cup DOMAIN y : k \notin DOMAIN x \cap DOMAIN y \/ x[k] # y[k]}
  IN CHOOSE j \in differ : \A i \in differ : j <= i

\* both runs are at the same instruction there and their accesses differ
SameInstruction(k) == k \in DOMAIN exec[1] \cap DOMAIN exec[2] /\ exec[1][k].ip = exec[2][k].ip

\* the instruction that leaks: the one whose accesses differ, else the branch before
FirstLeak ==
  LET k == FirstDifference
  IN IF SameInstruction(k) THEN [line |-> exec[1][k].ip, kind |-> "memory"]
                           ELSE [line |-> exec[1][k - 1].ip, kind |-> "branch"]

\* the accesses both runs make there agree, but one run makes fewer (a predicate is false)
AccessMissing ==
  LET k == FirstDifference IN
    /\ SameInstruction(k)
    /\ \A m \in DOMAIN exec[1][k].ops \cap DOMAIN exec[2][k].ops :
         exec[1][k].ops[m] = exec[2][k].ops[m]

\* the kind the comparison can find: a missing access looks like a branch
KindShown == IF AccessMissing THEN "branch" ELSE FirstLeak.kind

\* the second run makes the accesses that are missing from the first
MissingFirst ==
  AccessMissing /\ Len(exec[1][FirstDifference].ops) < Len(exec[2][FirstDifference].ops)

(* The comparison of two traces finds the leak (record_instruction, record_read, *)
(* record_write, compare_trace_files, classify_divergence): the culprit is the   *)
(* first instruction the two executions differ in, the branch itself and not a   *)
(* line of one of its sides, and the kind is that of its difference.  Where an   *)
(* instruction makes an access in one run only, its difference is taken for a    *)
(* branch, and unless that was the first run the culprit may be another one.     *)
CulpritLeaks ==
  phase = "judge" =>
    /\ exec[1] # exec[2] /\ Classified = KindShown
    /\ ~ MissingFirst => div.culprit = FirstLeak.line

(* The reproducer maps the first diverging instruction back to source            *)
(* (pin-tracer/README.md:24): the culprit of compare_trace_files is the          *)
(* instruction the two executions first differ in.                               *)
FirstDiverging == phase = "judge" => div.culprit = FirstLeak.line

\* the row that was judged last
JustJudged(st) == phase \in {"next", "done"} /\ row > 1 /\ status[row - 1] = st

(* A status says what happened (mode_dataframe, validate_input_values,           *)
(* build_rows): identical_trace only when no instruction differs, success only   *)
(* when they differ first in the reported statement and in the reported way.     *)
(* The exceptions are a culprit without a DWARF line, which is reported as the   *)
(* latest common instruction that has one, and an access the first run did not   *)
(* make, which is a branch at some other line.  A row that is saved without a    *)
(* verdict is one build_rows had nothing to replay for, never one of KLEE's: a   *)
(* replay that fails ends the reproduction.                                      *)
StatusMeans ==
  /\ JustJudged("identical_trace") => exec[1] = exec[2]
  /\ JustJudged("success") =>
       /\ exec[1] # exec[2]
       /\ claim.kind \in {"none", KindShown}
       /\ \/ SameStatement(prog, claim.line, FirstLeak.line)
          \/ FirstLeak.line \in nodebug \/ MissingFirst
  /\ saved => \A k \in 1..NumRows : status[k] = "not_reproduced" <=> k \in untried
  /\ mode = "klee" => untried = {}

(* A row whose replay was started is judged or the reproduction fails: each run *)
(* of Pin ends or is timed out, and the comparison reaches a difference or the   *)
(* end of both files (run_pin_trace, compare_trace_files).                       *)
Reproduced == phase = "run1" ~> phase \in {"next", "failed"}
=============================================================================
