----------------------------- MODULE CIPublish -----------------------------
(***************************************************************************)
(* scripts/ci/guardian.sh: the step of the GitHub workflow that runs       *)
(* `guardian verify` and `guardian report` into a staging directory and    *)
(* publishes what they leave, file by file; and the workflow's gate        *)
(* (.github/workflows/guardian.yml), which reads the published exit-code.  *)
(*                                                                         *)
(* Any command may fail: mkdir, rm, cp, jq, classify.sh, an mv, and the    *)
(* printf's, whose failures nobody checks.  A signal makes the shell run   *)
(* its trap, which removes the staging directory, after the foreground     *)
(* command; the script then goes on with the next command.                 *)
(***************************************************************************)
EXTENDS Naturals, FiniteSets, Verdicts

VARIABLES
  pc,
  code,
  staging,        \* the staging directory exists
  staged,         \* name |-> contents, the files in the staging directory
  published,      \* name |-> contents, the artifacts
  classification, \* the shell variable
  cleaned         \* history: what an earlier job left has been removed

vars == <<pc, code, staging, staged, published, classification, cleaned>>

Names == {"verdict", "report", "summary", "exit-code", "classification"}
Absent == "absent"
Nothing == [n \in Names |-> Absent]

\* What a verdict file can hold: a consistent verdict, one that jq accepts and
\* `guardian report` rejects, or one that jq rejects.
VerdictFile == State \cup {"contradictory", "malformed"}

Codes == 0..3
CodeName(c) == <<"0", "1", "2", "3">>[c + 1]

\* classify.sh
Classify(c) == <<"PASS", "TELEMETRY_CONTRACT_VIOLATION",
                 "VERIFICATION_INCONCLUSIVE",
                 "INVALID_GUARDIAN_CONFIGURATION">>[c + 1]
StateOf(c) == <<"PASS", "FAIL", "INCONCLUSIVE">>[c + 1]

\* A file whose writing failed: empty, or without its end.
Cut == "cut"

\* An unchecked printf into the staging directory: a file that is there is
\* truncated, one that is not may not even be created.
Printed(name, text) ==
  IF ~staging THEN {Absent}
  ELSE {text, Cut} \cup (IF staged[name] = Absent THEN {Absent} ELSE {})

----------------------------------------------------------------------------
\* What an earlier job of exit code c has left.
Artifacts == {"verdict", "report", "summary"}
Earlier(c) ==
  [n \in Names |-> CASE n = "exit-code" -> CodeName(c)
                     [] n = "classification" -> Classify(c)
                     [] n \in Artifacts -> "old"]

Init ==
  /\ pc = "start" /\ code = 3 /\ classification = Absent
  /\ staging = FALSE /\ staged = Nothing
  /\ published \in {Nothing} \cup {Earlier(c) : c \in Codes}
  /\ cleaned = FALSE

\* mkdir, mktemp, and the trap.
Start ==
  /\ pc = "start" /\ pc' = "clean"
  /\ staging' = TRUE
  /\ UNCHANGED <<code, staged, published, classification, cleaned>>

Unavailable ==
  /\ pc = "start" /\ pc' = "exited" /\ code' = 3
  /\ UNCHANGED <<staging, staged, published, classification, cleaned>>

\* Mutant: the exit code of an earlier job is forgotten.
RemovedButCode == Names \ {"exit-code"}

Removed == Names

\* rm may fail for some of the files; the script goes on.
Clean ==
  /\ pc = "clean" /\ pc' = "log"
  /\ \E kept \in SUBSET Removed :
       /\ published' = [n \in Names |-> IF n \in Removed \ kept THEN Absent
                                       ELSE published[n]]
       /\ cleaned' = (kept = {})
  /\ UNCHANGED <<code, staging, staged, classification>>

OpenLog ==
  /\ pc = "log" /\ pc' = "verify"
  /\ UNCHANGED <<code, staging, staged, published, classification, cleaned>>

\* A failing redirection of ":", a special built-in, ends the shell (with code 1
\* or 2, which depends on the shell), and the trap runs.
LogFails ==
  /\ pc = "log" /\ pc' = "exited" /\ code' \in {1, 2}
  /\ staging' = FALSE /\ staged' = Nothing
  /\ UNCHANGED <<published, classification, cleaned>>

\* `guardian verify` (module VerifyCommand): with an exit code of its own the
\* staged verdict has that state; with 2 there may be none; with 3 there is
\* none.  Any other code, of a killed process, becomes 2.  The command creates
\* the directory it writes to when a signal has removed it.
LiveOutcomes ==
  {<<ExitCode(s), s>> : s \in State} \cup {<<2, s>> : s \in State}
    \cup {<<2, Absent>>, <<3, Absent>>}

RunVerify ==
  /\ pc = "verify" /\ pc' = "validate"
  /\ \E o \in LiveOutcomes :
       /\ code' = o[1]
       /\ staged' = [staged EXCEPT !["verdict"] = o[2]]
       /\ staging' = (staging \/ o[2] # Absent)
  /\ UNCHANGED <<published, classification, cleaned>>

\* GUARDIAN_FIXTURE_VERDICT: any file, with any requested exit code; a copy that
\* fails (code 3) may have left something.
CopyFixture ==
  /\ pc = "verify" /\ pc' = "validate"
  /\ \/ /\ staging
        /\ code' \in Codes
        /\ \E v \in VerdictFile : staged' = [staged EXCEPT !["verdict"] = v]
     \/ code' = 3 /\ UNCHANGED staged
  /\ UNCHANGED <<staging, published, classification, cleaned>>

ValidVerdict == code # 3 /\ staged["verdict"] \in State \cup {"contradictory"}

\* jq may fail on a valid verdict as well.
Validate ==
  /\ pc = "validate"
  /\ \/ ValidVerdict /\ pc' = "report"
     \/ pc' = "diagnose"
  /\ UNCHANGED <<code, staging, staged, published, classification, cleaned>>

----------------------------------------------------------------------------
\* `guardian report` and the check of what it wrote.

ReportWritten ==
  /\ pc = "report" /\ staged["verdict"] \in State
  /\ staged' = [staged EXCEPT !["report"] = staged["verdict"],
                              !["summary"] = staged["verdict"]]
  /\ pc' = "check report"
  /\ UNCHANGED <<code, staging, published, classification, cleaned>>

\* The verdict or the contract is rejected, or the verdict is gone (exit 3); or
\* the command does not start or is killed, or writing fails, which may leave
\* some of either output (code 2).
ReportFails ==
  /\ pc = "report"
  /\ \/ code' \in {2, 3} /\ UNCHANGED staged
     \/ /\ staged["verdict"] \in State
        /\ code' = 2
        /\ \E html, markdown \in {Absent, Cut, staged["verdict"]} :
             staged' = [staged EXCEPT !["report"] = html,
                                      !["summary"] = markdown]
  /\ pc' = "keep verdict"
  /\ UNCHANGED <<staging, published, classification, cleaned>>

\* Both outputs are there and say what the exit code of verify says.
ReportAgrees ==
  /\ pc = "check report"
  /\ staged["report"] = StateOf(code) /\ staged["summary"] = StateOf(code)
  /\ pc' = "publish verdict"
  /\ UNCHANGED <<code, staging, staged, published, classification, cleaned>>

\* They do not, a signal has removed them, or a grep fails.
ReportDiffers ==
  /\ pc = "check report"
  /\ pc' = "keep verdict" /\ code' = 2
  /\ UNCHANGED <<staging, staged, published, classification, cleaned>>

----------------------------------------------------------------------------
\* publish_file: mv fails when the source is gone, and may fail anyway.

Move(name) ==
  /\ staged[name] # Absent
  /\ published' = [published EXCEPT ![name] = staged[name]]
  /\ staged' = [staged EXCEPT ![name] = Absent]

\* Mutant: a publication that fails goes unnoticed.
PublishNextIgnored(from, name, to) ==
  /\ pc = from
  /\ Move(name) \/ UNCHANGED <<staged, published>>
  /\ pc' = to
  /\ UNCHANGED <<code, staging, classification, cleaned>>

\* The three publications of a good run; the first failure skips the others.
PublishNext(from, name, to) ==
  /\ pc = from
  /\ \/ Move(name) /\ pc' = to /\ UNCHANGED code
     \/ /\ code' = 3 /\ pc' = "classify"
        /\ UNCHANGED <<staged, published>>
  /\ UNCHANGED <<staging, classification, cleaned>>

\* Mutant: the report is published even when the verdict was not.
PublishVerdictOrNot ==
  /\ pc = "publish verdict"
  /\ \/ Move("verdict") /\ UNCHANGED code
     \/ code' = 3 /\ UNCHANGED <<staged, published>>
  /\ pc' = "publish report"
  /\ UNCHANGED <<staging, classification, cleaned>>

PublishVerdict == PublishNext("publish verdict", "verdict", "publish report")
PublishReport == PublishNext("publish report", "report", "publish summary")
PublishSummary == PublishNext("publish summary", "summary", "classify")

\* The report failed: keep the verdict, replace the summary.
KeepVerdict ==
  /\ pc = "keep verdict"
  /\ \/ Move("verdict") /\ UNCHANGED code
     \/ code' = 3 /\ UNCHANGED <<staged, published>>
  /\ pc' = "write diagnostic"
  /\ UNCHANGED <<staging, classification, cleaned>>

Diagnose ==
  /\ pc = "diagnose"
  /\ code' = 3
  /\ \E v \in Printed("verdict", "diagnostic"),
        t \in Printed("summary", "diagnostic") :
       staged' = [staged EXCEPT !["verdict"] = v, !["summary"] = t]
  /\ pc' = "publish diagnostic"
  /\ UNCHANGED <<staging, published, classification, cleaned>>

PublishDiagnostic ==
  /\ pc = "publish diagnostic"
  /\ Move("verdict") \/ UNCHANGED <<staged, published>>
  /\ pc' = "publish diagnostic summary"
  /\ UNCHANGED <<code, staging, classification, cleaned>>

WriteDiagnosticSummary ==
  /\ pc = "write diagnostic"
  /\ \E t \in Printed("summary", "diagnostic") :
       staged' = [staged EXCEPT !["summary"] = t]
  /\ pc' = "publish diagnostic summary"
  /\ UNCHANGED <<code, staging, published, classification, cleaned>>

\* A failure counts on the path of a rejected report; code is 3 already on the
\* other one.
PublishDiagnosticSummary ==
  /\ pc = "publish diagnostic summary"
  /\ \/ Move("summary") /\ UNCHANGED code
     \/ code' = 3 /\ UNCHANGED <<staged, published>>
  /\ pc' = "classify"
  /\ UNCHANGED <<staging, classification, cleaned>>

----------------------------------------------------------------------------
\* classify.sh may fail; then the code becomes 3 and is called so.
ClassifyExit ==
  /\ pc = "classify" /\ pc' = "publish code"
  /\ code' \in {code, 3}
  /\ classification' = Classify(code')
  /\ \E c \in Printed("exit-code", CodeName(code')),
        t \in Printed("classification", Classify(code')) :
       staged' = [staged EXCEPT !["exit-code"] = c, !["classification"] = t]
  /\ UNCHANGED <<staging, published, cleaned>>

PublishLast(from, name, to) ==
  /\ pc = from
  /\ \/ Move(name) /\ UNCHANGED code
     \/ code' = 3 /\ UNCHANGED <<staged, published>>
  /\ pc' = to
  /\ UNCHANGED <<staging, classification, cleaned>>

PublishCode == PublishLast("publish code", "exit-code",
                           "publish classification")
PublishClassification == PublishLast("publish classification",
                                     "classification", "exit")

\* The trap runs at the end.
Exit ==
  /\ pc = "exit" /\ pc' = "exited"
  /\ staging' = FALSE /\ staged' = Nothing
  /\ UNCHANGED <<code, published, classification, cleaned>>

Ended == pc \in {"exited", "killed"}

\* Mutant: the script remembers files the handler has removed.
SignalKeepsFiles ==
  /\ ~Ended /\ staging
  /\ staging' = FALSE
  /\ UNCHANGED <<pc, code, staged, published, classification, cleaned>>

\* trap cleanup EXIT INT TERM: the handler does not exit.
Signal ==
  /\ ~Ended /\ staging
  /\ staging' = FALSE /\ staged' = Nothing
  /\ UNCHANGED <<pc, code, published, classification, cleaned>>

\* A signal that comes before the trap, or one that cannot be caught.
Kill ==
  /\ ~Ended /\ pc' = "killed"
  /\ UNCHANGED <<code, staging, staged, published, classification, cleaned>>

Stopped == Ended /\ UNCHANGED vars

Script ==
  \/ Start \/ Unavailable \/ Clean \/ OpenLog \/ LogFails
  \/ RunVerify \/ CopyFixture \/ Validate
  \/ ReportWritten \/ ReportFails \/ ReportAgrees \/ ReportDiffers
  \/ PublishVerdict \/ PublishReport \/ PublishSummary
  \/ KeepVerdict \/ Diagnose \/ PublishDiagnostic
  \/ WriteDiagnosticSummary \/ PublishDiagnosticSummary
  \/ ClassifyExit \/ PublishCode \/ PublishClassification \/ Exit

Next == Script \/ Signal \/ Kill \/ Stopped

Spec == Init /\ [][Next]_vars

----------------------------------------------------------------------------
Contents == VerdictFile \cup {"old", "diagnostic", Cut, Absent}
              \cup {CodeName(c) : c \in Codes} \cup {Classify(c) : c \in Codes}

TypeOK ==
  /\ code \in Codes /\ staging \in BOOLEAN /\ cleaned \in BOOLEAN
  /\ staged \in [Names -> Contents] /\ published \in [Names -> Contents]
  /\ ~staging => staged = Nothing

\* The gate lets a release through only on a complete proof: once what an
\* earlier job left is removed, whatever fails, is interrupted or is killed from
\* then on, beside a published exit-code of 0 lie the verdict, the report and
\* the summary of a PASS of this job.  (A job that ends before it could remove
\* them, as in Unavailable, leaves the earlier job's artifacts and its code.)
GateIsProven ==
  cleaned /\ published["exit-code"] = "0" =>
    \A n \in Artifacts : published[n] = "PASS"

\* The step succeeds only when it has published the verdict, the report and the
\* summary of a PASS, and has moved both files for the gate, which say so unless
\* an unchecked printf has left them cut (then the gate refuses).
ExitZeroIsComplete ==
  pc = "exited" /\ code = 0 =>
    /\ \A n \in Artifacts : published[n] = "PASS"
    /\ published["exit-code"] \in {"0", Cut}
    /\ published["classification"] \in {"PASS", Cut}

\* No published report or summary contradicts the published verdict: a report
\* is published after the verdict it was rendered from, and a summary of a
\* state only beside that verdict and report.
ReportsMatchVerdict ==
  cleaned =>
    /\ published["report"] # Absent => published["report"] = published["verdict"]
    /\ published["summary"] \in State =>
         published["summary"] = published["report"]

\* The gate passes only for exit code 0 of the Guardian step.  The exit-code is
\* published before the classification, whose failure still changes the code.
GateMeansExitZero ==
  cleaned /\ pc = "exited" /\ published["exit-code"] = "0" => code = 0
=============================================================================
