-------------------------------- MODULE Runner --------------------------------
(***************************************************************************)
(* A benchmark harness (include/runner.h, with the header that             *)
(* tools/generate_runner_artifacts.py writes) from an analysis to its      *)
(* replay.  One executable is analysed under KLEE, Binsec or Abacus; the   *)
(* witness of a leak (two values of every secret, one of every symbolic    *)
(* public) is turned into files by the reproducer or the Binsec converter; *)
(* the replay build of the same program then runs main() once per value.   *)
(* The program is a wrapped one: driver_main serves its read() calls from  *)
(* the input buffers (StdinRunner).                                        *)
(***************************************************************************)
EXTENDS StdinRunner, Sequences

CONSTANTS
  InputOrder,   \* the inputs of the runner config, in order
  Secret,       \* those of kind "secret"
  InSize,       \* input -> size of its buffer
  Segments,     \* the buffers driver_main passes to runner_io_reset
  Declared,     \* the secret_inputs and public_inputs an experiment config may have
  Base,         \* bound: values of a byte
  Preset,       \* public input -> the bytes of the preset
  Seed,         \* secret input -> the bytes Abacus starts from
  MaxCalls      \* bound: calls of read() and write() of one run

Input == {InputOrder[k] : k \in DOMAIN InputOrder}
Public == Input \ Secret
Bytes(n) == [1..n -> 0..(Base - 1)]

ASSUME RunnerAssumption ==
  /\ \A d \in Declared : DOMAIN d = {"secrets", "publics"}
  /\ InputOrder \in Seq(Input) /\ Secret \subseteq Input
  /\ \A i \in Input : InSize[i] \in Nat \ {0}
  /\ Count = Len(Segments)
  /\ \A k \in DOMAIN Segments : Segments[k] \in Input /\ Size[k - 1] = InSize[Segments[k]]
  /\ \A i \in Public : Preset[i] \in Bytes(InSize[i])
  /\ \A i \in Secret : Seed[i] \in Bytes(InSize[i])
  /\ Base \in Nat \ {0, 1} /\ MaxCalls \in Nat

VARIABLES
  tool,     \* the macro the analysed executable is built with
  fix,      \* config fix_pub: CONCRETE_PUBS is defined
  decl,     \* what the experiment config declares
  stage,    \* where the analysis, the conversion or the replay is
  run,      \* which of the two replays
  world,    \* the buffers in the two executions the analysis compares
  witness,  \* the values in the ktest file or the Binsec model
  argv,     \* run -> the input files of the replay
  mem,      \* the buffers of the replay that is running
  calls,    \* calls of read() and write() it has made
  code,     \* run -> exit code; -1 before
  reached,  \* runs whose driver_main was called
  outcome   \* how a conversion that fails is reported

pipeVars == <<tool, fix, decl, stage, run, world, witness, argv, mem, calls, code, reached, outcome>>
harnessVars == <<pipeVars, ioVars>>

Replays == {1, 2}
\* the inputs of a kind, in the order of the config
Ids(kind) ==
  LET ids[k \in 0..Len(InputOrder)] ==
        IF k = 0 THEN << >>
        ELSE IF InputOrder[k] \in kind THEN Append(ids[k - 1], InputOrder[k]) ELSE ids[k - 1]
  IN ids[Len(InputOrder)]
SecretIds == Ids(Secret)
PublicIds == Ids(Public)
ZeroMem == [i \in Input |-> [k \in 1..InSize[i] |-> 0]]

\* the build flag, or the ABACUS block of runner.h
ConcretePubs == fix \/ tool = "ABACUS"

HarnessInit ==
  /\ tool \in {"KLEE_CF", "BINSEC", "ABACUS"} /\ fix \in BOOLEAN
  /\ decl \in Declared
  /\ stage = "analyse" /\ run = 1
  /\ world = [r \in Replays |-> ZeroMem]
  /\ witness = << >> /\ argv = [r \in Replays |-> << >>]
  /\ mem = ZeroMem /\ calls = 0 /\ code = [r \in Replays |-> -1]
  /\ reached = {} /\ outcome = "none"
  /\ IoInit

-----------------------------------------------------------------------------
(* the analysed executable: main() up to driver_main *)

\* runner_copy_bytes
runner_copy_bytes(src, size) == [k \in 1..size |-> src[k]]

runner_apply_preset(m) ==
  [i \in Input |-> IF i \in Public THEN runner_copy_bytes(Preset[i], InSize[i]) ELSE m[i]]

\* runner_make_klee_secret_inputs, the cfg's "secret global", or Abacus's seeds,
\* which it then treats as symbolic: any pair of values
SymbolicSecrets == [Secret -> UNION {Bytes(InSize[i]) : i \in Secret}]

\* publics: the preset; or symbolic and the same in both executions, through
\* runner_make_klee_public_inputs or "public global"
Analyse ==
  /\ stage = "analyse"
  /\ \E s1, s2 \in {f \in SymbolicSecrets : \A i \in Secret : f[i] \in Bytes(InSize[i])} :
     \E p \in {f \in [Public -> UNION {Bytes(InSize[i]) : i \in Public}] :
                 \A i \in Public : f[i] \in Bytes(InSize[i])} :
       LET start(s) == [i \in Input |-> IF i \in Secret THEN s[i] ELSE p[i]]
           made(s) == IF ConcretePubs THEN runner_apply_preset(start(s)) ELSE start(s)
       IN /\ ConcretePubs => \A i \in Public : p[i] = Preset[i]
          /\ s1 # s2
          /\ world' = [r \in Replays |-> IF r = 1 THEN made(s1) ELSE made(s2)]
  /\ stage' = IF tool = "ABACUS" THEN "done" ELSE "report"
  /\ UNCHANGED <<tool, fix, decl, run, witness, argv, mem, calls, code, reached, outcome, ioVars>>

-----------------------------------------------------------------------------
(* byte orders *)

Reversed(b) == [k \in 1..Len(b) |-> b[Len(b) + 1 - k]]

FromBig(b) ==
  LET value[k \in 0..Len(b)] == IF k = 0 THEN 0 ELSE value[k - 1] * Base + b[k]
  IN value[Len(b)]

ToBig(n, size) ==
  LET rest[j \in 0..size] == IF j = 0 THEN n ELSE rest[j - 1] \div Base
  IN [k \in 1..size |-> rest[size - k] % Base]

FromLittle(b) == FromBig(Reversed(b))
ToLittle(n, size) == Reversed(ToBig(n, size))

CanonicalizeNothing(n, size) == n

\* _canonicalize_input_value: the model's number is little-endian memory, the
\* number in the JSON file is the same bytes read big-endian
CanonicalizeInputValue(n, size) == FromBig(ToLittle(n, size))

-----------------------------------------------------------------------------
(* the witness *)

\* the symbols of the analysis: <<input, execution>>, a public under execution 1
Symbols ==
  {<<i, r>> : i \in Secret, r \in Replays}
    \cup {<<i, 1>> : i \in {j \in Public : ~ ConcretePubs}}

\* KLEE writes the bytes of every symbolic object; Binsec prints numbers and may
\* leave out symbols the path does not constrain, or have no model at all
Report ==
  /\ stage = "report"
  /\ \/ /\ tool = "KLEE_CF"
        /\ witness' = [x \in Symbols |-> world[x[2]][x[1]]]
     \/ /\ tool = "BINSEC"
        /\ \E given \in SUBSET Symbols :
             witness' = [y \in given |-> FromLittle(world[y[2]][y[1]])]
  /\ stage' = "convert"
  /\ UNCHANGED <<tool, fix, decl, run, world, argv, mem, calls, code, reached, outcome, ioVars>>

\* the names the experiment passes on: publics only where they are symbolic
Publics == IF fix THEN << >> ELSE decl.publics

Needed ==
  {<<decl.secrets[k], r>> : k \in DOMAIN decl.secrets, r \in Replays}
    \cup {<<Publics[k], 1>> : k \in DOMAIN Publics}

\* KLEE's values are found by name alone, Binsec's in the section of their kind
Given ==
  /\ Needed \subseteq DOMAIN witness
  /\ tool = "BINSEC" => \A k \in DOMAIN Publics : Publics[k] \in Public

\* _pick_model_counterexamples finds something: a pair of a secret or a public
Usable ==
  \/ \E k \in DOMAIN decl.secrets : \A r \in Replays : <<decl.secrets[k], r>> \in DOMAIN witness
  \/ \E k \in DOMAIN Publics : Publics[k] \in Public /\ <<Publics[k], 1>> \in DOMAIN witness

\* the bytes of one input file
FileOf(i, r) ==
  IF tool = "KLEE_CF" THEN witness[<<i, r>>]
  ELSE ToBig(CanonicalizeInputValue(witness[<<i, r>>], InSize[i]), InSize[i])

ArgvOf(r) ==
  [k \in 1..Len(decl.secrets) |-> FileOf(decl.secrets[k], r)]
    \o [k \in 1..Len(Publics) |-> FileOf(Publics[k], 1)]

\* extract_ktest_inputs or _pick_model_counterexamples and _run_reproduce, then the
\* files of analyze_input_bytes.  A value that is not there makes a KLEE row a
\* location mismatch; a Binsec row without any value is not tried, and one with only
\* some of them ends the whole conversion
Convert ==
  /\ stage = "convert"
  /\ IF Given
       THEN /\ argv' = [r \in Replays |-> ArgvOf(r)]
            /\ stage' = "load" /\ UNCHANGED outcome
       ELSE /\ outcome' = IF tool = "KLEE_CF" THEN "location_mismatch"
                          ELSE IF Usable THEN "conversion_failed" ELSE "not_reproduced"
            /\ stage' = "done" /\ UNCHANGED argv
  /\ UNCHANGED <<tool, fix, decl, run, world, witness, mem, calls, code, reached, ioVars>>

-----------------------------------------------------------------------------
(* the replay executable *)

\* RUNNER_EXPECTED_REPLAY_ARGC, less the program's name
ExpectedArgc == Len(SecretIds) + IF fix THEN 0 ELSE Len(PublicIds)

LoadInConfigOrder == IF fix THEN SecretIds ELSE InputOrder

\* the order in which runner_load_replay_inputs takes argv
LoadOrder == IF fix THEN SecretIds ELSE SecretIds \o PublicIds

\* load_bytes gets as many bytes as the buffer has, or fails
Loads(k) == Len(argv[run][k]) >= InSize[LoadOrder[k]]

Loaded ==
  [i \in Input |->
     IF \E k \in DOMAIN LoadOrder : LoadOrder[k] = i
       THEN LET k == CHOOSE j \in DOMAIN LoadOrder : LoadOrder[j] = i
            IN SubSeq(argv[run][k], 1, InSize[i])
       ELSE mem[i]]

Exit(c) ==
  /\ code' = [code EXCEPT ![run] = c]
  /\ stage' = IF run = 1 THEN "load" ELSE "done"
  /\ run' = 2
  /\ mem' = ZeroMem /\ calls' = 0

\* main(): assert(argc == RUNNER_EXPECTED_REPLAY_ARGC) aborts
AssertArgc ==
  /\ stage = "load" /\ Len(argv[run]) # ExpectedArgc
  /\ Exit(134)
  /\ UNCHANGED <<tool, fix, decl, world, witness, argv, reached, outcome, ioVars>>

\* main(): a file could not be loaded
LoadFails ==
  /\ stage = "load" /\ Len(argv[run]) = ExpectedArgc
  /\ \E k \in DOMAIN LoadOrder : ~ Loads(k)
  /\ Exit(1)
  /\ UNCHANGED <<tool, fix, decl, world, witness, argv, reached, outcome, ioVars>>

\* main(): inputs, preset, driver_main, which starts with runner_io_reset
Main ==
  /\ stage = "load" /\ Len(argv[run]) = ExpectedArgc
  /\ \A k \in DOMAIN LoadOrder : Loads(k)
  /\ mem' = IF fix THEN runner_apply_preset(Loaded) ELSE Loaded
  /\ IoReset
  /\ reached' = reached \cup {run}
  /\ stage' = "drive"
  /\ UNCHANGED <<tool, fix, decl, run, world, witness, argv, calls, code, outcome>>

\* the wrapped program calls read() or write()
Call ==
  /\ stage = "drive" /\ calls < MaxCalls
  /\ IoCall
  /\ calls' = calls + 1
  /\ UNCHANGED <<tool, fix, decl, stage, run, world, witness, argv, mem, code, reached, outcome>>

Copy == stage = "drive" /\ CopySegment /\ UNCHANGED pipeVars

Return == stage = "drive" /\ ReadDone /\ UNCHANGED pipeVars

\* driver_main returns runner_io_status(), and main returns that
DriverReturns ==
  /\ stage = "drive" /\ io = "idle"
  /\ Exit(IoStatus)
  /\ UNCHANGED <<tool, fix, decl, world, witness, argv, reached, outcome, ioVars>>

HarnessNext ==
  \/ Analyse \/ Report \/ Convert
  \/ AssertArgc \/ LoadFails \/ Main
  \/ Call \/ Copy \/ Return \/ DriverReturns

HarnessSpec == HarnessInit /\ [][HarnessNext]_harnessVars /\ WF_harnessVars(HarnessNext)

-----------------------------------------------------------------------------
(* Properties *)

\* the experiment config declares the inputs of the runner config
Agrees == decl.secrets = SecretIds /\ Publics = IF fix THEN << >> ELSE PublicIds

BothReplayed ==
  stage = "done" /\ tool # "ABACUS" =>
    reached = Replays \/ Symbols \ DOMAIN witness # {}

(* Where the two configs agree, a replay runs on the witness (main of runner.h, *)
(* _canonicalize_input_value, analyze_input_bytes): when driver_main runs for   *)
(* value r, every buffer holds what it held in execution r of the analysis,     *)
(* publics that the preset fixes included.  A declaration that disagrees may    *)
(* pass the checks of main all the same and run on other values: one that       *)
(* orders inputs of one size differently, or calls a secret a public.           *)
ReplayMatchesAnalysis == Agrees /\ stage = "drive" => mem = world[run]

(* Where the two configs agree, every witness that names all symbols is         *)
(* replayed (the assertions of main, load_bytes, extract_ktest_inputs): both    *)
(* runs reach driver_main, none is ended by the argument count or a short file. *)
WitnessReplayed == Agrees => BothReplayed

(* docs/architecture/runner-config.md: the name of an input "matches the        *)
(* symbolic object names expected by the replay and counterexample tooling", so *)
(* that every witness can be replayed.                                          *)
NamesExpected == BothReplayed

(* The pipeline ends for every witness: runner_io_read leaves its loop whatever *)
(* the segments are, and main() returns.                                        *)
Finishes == <>(stage = "done")
=============================================================================
