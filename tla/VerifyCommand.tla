--------------------------- MODULE VerifyCommand ---------------------------
(***************************************************************************)
(* `guardian verify`: runVerify and writeVerdict (cmd/guardian/main.go)    *)
(* around verifier.Verify (internal/verifier/verifier.go).                 *)
(*                                                                         *)
(* The checks of the contract run one after the other under one command    *)
(* deadline; each keeps the promises of CheckSpec.  The verdict goes to a  *)
(* temporary file that is renamed over the output.  The process may be     *)
(* killed between any two steps and the command started again: both files  *)
(* stay as they are.                                                       *)
(***************************************************************************)
EXTENDS Verdicts

CONSTANTS NumChecks,   \* checks of the contract
          MaxRuns      \* bound on the invocations of the command

ASSUME CommandAssumption == NumChecks \in Nat \ {0} /\ MaxRuns \in Nat \ {0}

VARIABLES
  run,         \* this invocation
  pc,
  expired,     \* the command's context is done
  results,     \* states of the checks that have run
  overall,     \* verdict.Overall
  code,        \* exit code; NoCode while running or when killed
  temp,        \* the file output.tmp
  output       \* the file output

files == <<temp, output>>
vars == <<run, pc, expired, results, overall, code, temp, output>>

NoCode == 9
Absent == [run |-> 0, overall |-> "NONE", whole |-> FALSE]
File(r, state, whole) == [run |-> r, overall |-> state, whole |-> whole]

\* An earlier command may have left a verdict; anything may lie in the
\* temporary file.
Init ==
  /\ run = 1 /\ pc = "configure"
  /\ expired = FALSE /\ results = << >> /\ overall = "NONE" /\ code = NoCode
  /\ temp \in {Absent, File(0, "PASS", FALSE)}
  /\ output \in {Absent} \cup {File(0, s, TRUE) : s \in State}

Exit(c) == pc' = "exited" /\ code' = c

\* Mutant: an exit code nobody documents.
RejectWithUsage ==
  /\ pc = "configure" /\ Exit(4)
  /\ UNCHANGED <<run, expired, results, overall, files>>

\* Flags, times, contract, client configuration, Verify's own validation.
RejectConfiguration ==
  /\ pc = "configure" /\ Exit(3)
  /\ UNCHANGED <<run, expired, results, overall, files>>

Configure ==
  /\ pc = "configure" /\ pc' = "verify"
  /\ UNCHANGED <<run, expired, results, overall, code, files>>

ContextExpires ==
  /\ pc = "verify" /\ ~expired
  /\ expired' = TRUE
  /\ UNCHANGED <<run, pc, results, overall, code, files>>

\* CheckSpec: a check under a done context can only be INCONCLUSIVE.
RunCheck(state) ==
  /\ pc = "verify" /\ Len(results) < NumChecks
  /\ expired => state = "INCONCLUSIVE"
  /\ results' = Append(results, state)
  /\ UNCHANGED <<run, pc, expired, overall, code, files>>

NewVerdict ==
  /\ pc = "verify" /\ Len(results) = NumChecks
  /\ overall' = Aggregate(results)
  /\ pc' = "create"
  /\ UNCHANGED <<run, expired, results, code, files>>

----------------------------------------------------------------------------
\* writeVerdict

\* Mutant: the verdict is written in place.
CreateOutput ==
  /\ pc = "create"
  /\ output' = File(run, overall, FALSE)
  /\ pc' = "write"
  /\ UNCHANGED <<run, expired, results, overall, code, temp>>

CreateTemp ==
  /\ pc = "create"
  /\ temp' = File(run, overall, FALSE)
  /\ pc' = "write"
  /\ UNCHANGED <<run, expired, results, overall, code, output>>

WriteTemp ==
  /\ pc = "write"
  /\ temp' = File(run, overall, TRUE)
  /\ pc' = "close"
  /\ UNCHANGED <<run, expired, results, overall, code, output>>

CloseTemp ==
  /\ pc = "close" /\ pc' = "rename"
  /\ UNCHANGED <<run, expired, results, overall, code, files>>

Publish ==
  /\ pc = "rename"
  /\ output' = temp /\ temp' = Absent
  /\ pc' = "report"
  /\ UNCHANGED <<run, expired, results, overall, code>>

\* Mutant: the verdict counts although it could not be written.
CreateFailsSilently ==
  /\ pc = "create" /\ Exit(ExitCode(overall))
  /\ UNCHANGED <<run, expired, results, overall, files>>

CreateFails ==
  /\ pc = "create" /\ Exit(2)
  /\ UNCHANGED <<run, expired, results, overall, files>>

\* Mutant: the clean-up removes the output, too.
WriteFailsRemoving ==
  /\ pc \in {"write", "close", "rename"} /\ Exit(2)
  /\ temp' \in {temp, Absent} /\ output' = Absent
  /\ UNCHANGED <<run, expired, results, overall>>

\* The temporary file is removed if that is possible.
WriteFails ==
  /\ pc \in {"write", "close", "rename"} /\ Exit(2)
  /\ temp' \in {temp, Absent}
  /\ UNCHANGED <<run, expired, results, overall, output>>

ExitWithVerdict ==
  /\ pc = "report" /\ Exit(ExitCode(overall))
  /\ UNCHANGED <<run, expired, results, overall, files>>

----------------------------------------------------------------------------
Ended == pc \in {"exited", "killed"}

Kill ==
  /\ ~Ended /\ pc' = "killed"
  /\ UNCHANGED <<run, expired, results, overall, code, files>>

StartAgain ==
  /\ Ended /\ run < MaxRuns
  /\ run' = run + 1 /\ pc' = "configure"
  /\ expired' = FALSE /\ results' = << >> /\ overall' = "NONE"
  /\ code' = NoCode
  /\ UNCHANGED files

Stopped == Ended /\ run = MaxRuns /\ UNCHANGED vars

Command ==
  \/ RejectConfiguration \/ Configure
  \/ (\E s \in State : RunCheck(s)) \/ NewVerdict
  \/ CreateTemp \/ WriteTemp \/ CloseTemp \/ Publish
  \/ CreateFails \/ WriteFails \/ ExitWithVerdict

Next == Command \/ ContextExpires \/ Kill \/ StartAgain \/ Stopped

Spec == Init /\ [][Next]_vars

----------------------------------------------------------------------------
Contents == [run: 0..MaxRuns, overall: State \cup {"NONE"}, whole: BOOLEAN]

TypeOK ==
  /\ run \in 1..MaxRuns
  /\ pc \in {"configure", "verify", "create", "write", "close", "rename",
             "report", "exited", "killed"}
  /\ expired \in BOOLEAN
  /\ results \in Seq(State) /\ Len(results) <= NumChecks
  /\ overall \in State \cup {"NONE"}
  /\ code \in {0, 1, 2, 3, NoCode}
  /\ temp \in Contents /\ output \in Contents

\* Exit code 0 means that the verdict of this very run is published, whole,
\* and that every check of the contract ran and passed; exit code 1 that the
\* published verdict rests on a violation no inconclusive check casts doubt on.
ExitCodeIsProven ==
  code \in {0, 1} =>
    /\ output = File(run, IF code = 0 THEN "PASS" ELSE "FAIL", TRUE)
    /\ Len(results) = NumChecks
    /\ \A i \in 1..NumChecks :
         results[i] \in IF code = 0 THEN {"PASS"} ELSE {"PASS", "FAIL"}
    /\ code = 1 => \E i \in 1..NumChecks : results[i] = "FAIL"

\* `guardian report`, which computes the overall state of a verdict once more
\* and in another way, accepts every verdict the command publishes.
ReportAcceptsVerdict ==
  output.run = run => output.overall = AggregateReportState(results)

\* Whatever step the process is killed at, and whatever an earlier one left in
\* the temporary file, a reader of the output never sees half a verdict.
PublishedIsWhole == output # Absent => output.whole

\* A failing or killed command leaves the previous verdict where it was, and a
\* verdict is only ever replaced by the one the current run has computed.
OutputChangesByPublication ==
  [][output' # output =>
       /\ output'.run = run /\ output'.overall = Aggregate(results)
       /\ Len(results) = NumChecks]_vars
=============================================================================
