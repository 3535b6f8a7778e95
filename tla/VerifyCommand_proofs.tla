------------------------ MODULE VerifyCommand_proofs ------------------------
(***************************************************************************)
(* Proofs about VerifyCommand, for every number of checks and invocations: *)
(* types, what lies in the output at any time, what exit codes 0 and 1     *)
(* stand for, and that `guardian report` agrees with every verdict.        *)
(***************************************************************************)
EXTENDS VerifyCommand, Lists_proofs

USE CommandAssumption

\* The verdict is fixed before it is written, the temporary file is whole
\* before it is renamed, and the command exits after it was.
CommandInv ==
  /\ pc \in {"create", "write", "close", "rename", "report"} =>
       overall = Aggregate(results) /\ Len(results) = NumChecks
  /\ pc \in {"close", "rename"} => temp = File(run, overall, TRUE)
  /\ pc = "report" => output = File(run, overall, TRUE)
  /\ pc # "exited" => code = NoCode

\* What ExitCodeIsProven says, up to the aggregation.
ExitPublishes ==
  code \in {0, 1} =>
    /\ output = File(run, IF code = 0 THEN "PASS" ELSE "FAIL", TRUE)
    /\ output.overall = Aggregate(results)
    /\ Len(results) = NumChecks

OutputInv == CommandInv /\ PublishedIsWhole /\ ExitPublishes

LEMMA OutputInit == Init => OutputInv
BY DEF Init, OutputInv, CommandInv, PublishedIsWhole, ExitPublishes, NoCode,
       Absent, File

\* An exit that gives up leaves the output alone.
LEMMA ExitWithoutVerdict ==
  ASSUME OutputInv, NEW c \in {2, 3}, Exit(c), UNCHANGED output
  PROVE  OutputInv'
<1>1. pc' = "exited" /\ code' \notin {0, 1}
  BY DEF Exit
<1>2. CommandInv' /\ ExitPublishes'
  BY <1>1 DEF CommandInv, ExitPublishes
<1>3. PublishedIsWhole'
  BY DEF OutputInv, PublishedIsWhole, Absent
<1>4. QED
  BY <1>2, <1>3 DEF OutputInv

\* So does a step on the way to the verdict.
LEMMA OutputKept ==
  ASSUME OutputInv, CommandInv', code' = NoCode, UNCHANGED output
  PROVE  OutputInv'
BY DEF OutputInv, PublishedIsWhole, ExitPublishes, NoCode, Absent

LEMMA OutputStep ==
  ASSUME OutputInv, [Next]_vars
  PROVE  OutputInv'
<1> USE DEF files
<1>1. CASE RejectConfiguration
  BY <1>1, ExitWithoutVerdict DEF RejectConfiguration
<1>2. CASE Configure
  BY <1>2, OutputKept DEF Configure, OutputInv, CommandInv
<1>3. ASSUME NEW s \in State, RunCheck(s)
      PROVE  OutputInv'
  BY <1>3, OutputKept DEF RunCheck, OutputInv, CommandInv
<1>4. CASE NewVerdict
  BY <1>4, OutputKept DEF NewVerdict, OutputInv, CommandInv
<1>5. CASE CreateTemp
  BY <1>5, OutputKept DEF CreateTemp, OutputInv, CommandInv
<1>6. CASE WriteTemp
  BY <1>6, OutputKept DEF WriteTemp, OutputInv, CommandInv
<1>7. CASE CloseTemp
  BY <1>7, OutputKept DEF CloseTemp, OutputInv, CommandInv
<1>8. CASE Publish
  <2>1. /\ output' = File(run, overall, TRUE) /\ pc' = "report"
        /\ code' = NoCode /\ overall = Aggregate(results)
        /\ Len(results) = NumChecks
        /\ UNCHANGED <<run, overall, results>>
    BY <1>8 DEF Publish, OutputInv, CommandInv
  <2>2. CommandInv'
    BY <2>1 DEF CommandInv
  <2>3. PublishedIsWhole'
    BY <2>1 DEF PublishedIsWhole, File
  <2>4. ExitPublishes'
    BY <2>1 DEF ExitPublishes, NoCode
  <2>5. QED
    BY <2>2, <2>3, <2>4 DEF OutputInv
<1>9. CASE CreateFails
  BY <1>9, ExitWithoutVerdict DEF CreateFails
<1>10. CASE WriteFails
  BY <1>10, ExitWithoutVerdict DEF WriteFails
<1>11. CASE ExitWithVerdict
  <2>1. /\ output = File(run, overall, TRUE)
        /\ overall = Aggregate(results) /\ Len(results) = NumChecks
        /\ pc' = "exited" /\ code' = ExitCode(overall)
        /\ UNCHANGED <<run, overall, results, output>>
    BY <1>11 DEF ExitWithVerdict, Exit, OutputInv, CommandInv
  <2>2. CommandInv'
    BY <2>1 DEF CommandInv
  <2>3. PublishedIsWhole'
    BY <2>1 DEF PublishedIsWhole, File
  <2>4. /\ code' = 0 => overall = "PASS"
        /\ code' = 1 => overall = "FAIL"
    BY <2>1 DEF ExitCode
  <2>5. ExitPublishes'
    BY <2>1, <2>4 DEF ExitPublishes, File
  <2>6. QED
    BY <2>2, <2>3, <2>5 DEF OutputInv
<1>12. CASE ContextExpires
  BY <1>12, OutputKept DEF ContextExpires, OutputInv, CommandInv
<1>13. CASE Kill
  BY <1>13, OutputKept DEF Kill, Ended, OutputInv, CommandInv
<1>14. CASE StartAgain
  BY <1>14, OutputKept DEF StartAgain, OutputInv, CommandInv
<1>15. CASE UNCHANGED vars
  BY <1>15
  DEF vars, OutputInv, CommandInv, PublishedIsWhole, ExitPublishes, Absent
<1>16. QED
  BY <1>1, <1>2, <1>3, <1>4, <1>5, <1>6, <1>7, <1>8, <1>9, <1>10, <1>11,
     <1>12, <1>13, <1>14, <1>15
  DEF Next, Command, Stopped

LEMMA OutputIsSound == Spec => []OutputInv
<1>1. OutputInv /\ [Next]_vars => OutputInv'
  BY OutputStep
<1>2. QED
  BY OutputInit, <1>1, PTL DEF Spec

\* A reader of the output never sees half a verdict, wherever a command is
\* killed and whatever an earlier one left (writeVerdict).
THEOREM OutputIsWhole == Spec => []PublishedIsWhole
<1>1. OutputInv => PublishedIsWhole
  BY DEF OutputInv
<1>2. QED
  BY <1>1, OutputIsSound, PTL

\* Exit codes 0 and 1 stand for a published verdict of this run that aggregates
\* the results of every check of the contract (runVerify).
THEOREM ExitIsPublished == Spec => []ExitPublishes
<1>1. OutputInv => ExitPublishes
  BY DEF OutputInv
<1>2. QED
  BY <1>1, OutputIsSound, PTL

\* The output changes only when a complete verdict of the current run replaces
\* it (writeVerdict).
THEOREM OutputOnlyPublished == Spec => OutputChangesByPublication
<1> DEFINE Published ==
      output' # output =>
        /\ output'.run = run /\ output'.overall = Aggregate(results)
        /\ Len(results) = NumChecks
<1>1. OutputInv /\ [Next]_vars => [Published]_vars
  <2> SUFFICES ASSUME OutputInv, Next, output' # output
               PROVE  Published
    OBVIOUS
  <2>1. Publish
    BY DEF Next, Command, Stopped, vars, files, RejectConfiguration, Configure,
           RunCheck, NewVerdict, CreateTemp, WriteTemp, CloseTemp, CreateFails,
           WriteFails, ExitWithVerdict, ContextExpires, Kill, StartAgain
  <2>2. QED
    BY <2>1 DEF Publish, OutputInv, CommandInv, File
<1>2. QED
  BY <1>1, OutputIsSound, PTL DEF Spec, OutputChangesByPublication

----------------------------------------------------------------------------
\* Types.

LEMMA TypeInit == Init => TypeOK
<1> SUFFICES ASSUME Init
             PROVE  TypeOK
  OBVIOUS
<1>1. Absent \in Contents
  BY DEF Absent, Contents
<1>2. \A s \in State, whole \in BOOLEAN : File(0, s, whole) \in Contents
  BY DEF File, Contents
<1>3. "PASS" \in State
  BY DEF State
<1>4. temp \in Contents /\ output \in Contents
  BY <1>1, <1>2, <1>3 DEF Init
<1>5. results \in Seq(State) /\ Len(results) <= NumChecks
  BY DEF Init
<1>6. run \in 1..MaxRuns
  BY DEF Init
<1>7. QED
  BY <1>4, <1>5, <1>6 DEF Init, TypeOK, NoCode

\* A run only goes on to its exit: the files are those of the step.
LEMMA TypeKept ==
  ASSUME TypeOK,
         pc' \in {"configure", "verify", "create", "write", "close", "rename",
                  "report", "exited", "killed"},
         code' \in {0, 1, 2, 3, NoCode}, run' = run,
         expired' \in BOOLEAN, results' = results, overall' = overall,
         temp' \in Contents, output' \in Contents
  PROVE  TypeOK'
BY DEF TypeOK

LEMMA TypeStep ==
  ASSUME TypeOK, [Next]_vars
  PROVE  TypeOK'
<1> USE DEF files
<1>1. CASE RejectConfiguration
  BY <1>1, TypeKept DEF RejectConfiguration, Exit, TypeOK
<1>2. CASE Configure
  BY <1>2, TypeKept DEF Configure, TypeOK
<1>3. ASSUME NEW s \in State, RunCheck(s)
      PROVE  TypeOK'
  <2>1. results' \in Seq(State) /\ Len(results') = Len(results) + 1
    BY <1>3 DEF RunCheck, TypeOK
  <2>2. Len(results') <= NumChecks
    BY <1>3, <2>1 DEF RunCheck, TypeOK
  <2>3. QED
    BY <1>3, <2>1, <2>2 DEF RunCheck, TypeOK
<1>4. CASE NewVerdict
  <2>1. results # << >>
    BY <1>4 DEF NewVerdict
  <2>2. overall' \in State
    BY <1>4, <2>1, AggregateIs DEF NewVerdict, TypeOK
  <2>3. QED
    BY <1>4, <2>2 DEF NewVerdict, TypeOK
<1>5. ASSUME NEW whole \in BOOLEAN
      PROVE  File(run, overall, whole) \in Contents
  BY DEF File, Contents, TypeOK
<1>6. CASE CreateTemp
  BY <1>5, <1>6, TypeKept DEF CreateTemp, TypeOK
<1>7. CASE WriteTemp
  BY <1>5, <1>7, TypeKept DEF WriteTemp, TypeOK
<1>8. CASE CloseTemp
  BY <1>8, TypeKept DEF CloseTemp, TypeOK
<1>9. Absent \in Contents
  BY DEF Absent, Contents
<1>10. CASE Publish
  BY <1>9, <1>10, TypeKept DEF Publish, TypeOK
<1>11. CASE CreateFails
  BY <1>11, TypeKept DEF CreateFails, Exit, TypeOK
<1>12. CASE WriteFails
  BY <1>9, <1>12, TypeKept DEF WriteFails, Exit, TypeOK
<1>13. CASE ExitWithVerdict
  <2>1. ExitCode(overall) \in {0, 1, 2}
    BY DEF ExitCode
  <2>2. QED
    BY <1>13, <2>1, TypeKept DEF ExitWithVerdict, Exit, TypeOK
<1>14. CASE ContextExpires
  BY <1>14, TypeKept DEF ContextExpires, TypeOK
<1>15. CASE Kill
  BY <1>15, TypeKept DEF Kill, TypeOK
<1>16. CASE StartAgain
  <2>1. results' \in Seq(State) /\ Len(results') <= NumChecks
    BY <1>16 DEF StartAgain
  <2>2. run' \in 1..MaxRuns
    BY <1>16 DEF StartAgain, TypeOK
  <2>3. QED
    BY <1>16, <2>1, <2>2 DEF StartAgain, TypeOK
<1>17. CASE UNCHANGED vars
  BY <1>17, TypeKept DEF vars, TypeOK
<1>18. QED
  BY <1>1, <1>2, <1>3, <1>4, <1>6, <1>7, <1>8, <1>10, <1>11, <1>12, <1>13,
     <1>14, <1>15, <1>16, <1>17
  DEF Next, Command, Stopped

\* The variables of a command keep their types over any number of invocations.
THEOREM TypeCorrect == Spec => []TypeOK
<1>1. TypeOK /\ [Next]_vars => TypeOK'
  BY TypeStep
<1>2. QED
  BY TypeInit, <1>1, PTL DEF Spec

----------------------------------------------------------------------------
\* What the published verdict rests on.

\* Exit code 0 means that every check of the contract ran and passed and that
\* the verdict of this very run is published, whole; exit code 1 that a check
\* failed and none is inconclusive (runVerify, evidence.Aggregate).
THEOREM ExitIsProven == Spec => []ExitCodeIsProven
<1>1. TypeOK /\ OutputInv => ExitCodeIsProven
  <2> SUFFICES ASSUME TypeOK, ExitPublishes, code \in {0, 1}
               PROVE  ExitCodeIsProven
    BY DEF OutputInv, ExitCodeIsProven
  <2>1. /\ results \in Seq(State) /\ results # << >>
        /\ Len(results) = NumChecks /\ DOMAIN results = 1..NumChecks
    <3>1. results \in Seq(State) /\ Len(results) = NumChecks
      BY DEF TypeOK, ExitPublishes
    <3>2. Len(results) # 0
      BY <3>1
    <3>3. QED
      BY ONLY <3>1, <3>2
  <2>2. /\ output = File(run, IF code = 0 THEN "PASS" ELSE "FAIL", TRUE)
        /\ Aggregate(results) = IF code = 0 THEN "PASS" ELSE "FAIL"
    BY DEF ExitPublishes, File
  <2>3. code = 0 => \A i \in 1..NumChecks : results[i] = "PASS"
    BY <2>1, <2>2, AggregateIs
  <2>4. code = 1 => /\ \A i \in 1..NumChecks : results[i] \in {"PASS", "FAIL"}
                    /\ \E i \in 1..NumChecks : results[i] = "FAIL"
    BY <2>1, <2>2, AggregateIs
  <2>5. QED
    BY <2>1, <2>2, <2>3, <2>4 DEF ExitCodeIsProven
<1>2. QED
  BY <1>1, TypeCorrect, OutputIsSound, PTL

\* A verdict of this run is in place only when all of its checks have run.
RunInv ==
  /\ output.run <= run
  /\ output.run = run =>
       /\ pc \in {"report", "exited", "killed"}
       /\ Len(results) = NumChecks /\ output.overall = Aggregate(results)

LEMMA RunInit == Init => RunInv
BY DEF Init, RunInv, Absent, File

LEMMA RunStep ==
  ASSUME TypeOK, CommandInv, RunInv, [Next]_vars
  PROVE  RunInv'
<1> USE DEF files
<1>1. CASE Publish
  BY <1>1 DEF Publish, CommandInv, RunInv, File, TypeOK
<1>2. CASE StartAgain
  <2>1. output.run \in Int /\ run \in Int
    BY DEF TypeOK, Contents
  <2>2. QED
    BY <1>2, <2>1 DEF StartAgain, RunInv
<1>3. CASE \/ pc \in {"configure", "verify", "create", "write", "close", "rename"}
           \/ UNCHANGED results /\ pc' \in {"report", "exited", "killed"}
  <2>1. CASE UNCHANGED <<output, run>>
    BY <1>3, <2>1 DEF RunInv
  <2>2. QED
    BY <1>1, <1>2, <2>1
    DEF Next, Command, Stopped, vars, RejectConfiguration, Configure, RunCheck,
        NewVerdict, CreateTemp, WriteTemp, CloseTemp, CreateFails, WriteFails,
        ExitWithVerdict, ContextExpires, Kill
<1>4. QED
  BY <1>1, <1>2, <1>3
  DEF Next, Command, Stopped, vars, Ended, RejectConfiguration, Configure,
      RunCheck, NewVerdict, CreateTemp, WriteTemp, CloseTemp, CreateFails,
      WriteFails, ExitWithVerdict, ContextExpires, Kill, Exit, TypeOK

\* `guardian report` computes the overall state of a verdict once more and in
\* another way (aggregateReportState), and agrees with every published one.
THEOREM ReportAccepts == Spec => []ReportAcceptsVerdict
<1>1. TypeOK /\ RunInv => ReportAcceptsVerdict
  <2> SUFFICES ASSUME TypeOK, RunInv, output.run = run
               PROVE  output.overall = AggregateReportState(results)
    BY DEF ReportAcceptsVerdict
  <2>1. results \in Seq(State) /\ results # << >>
    BY DEF TypeOK, RunInv
  <2>2. QED
    BY <2>1, ReportIs DEF RunInv
<1>2. TypeOK /\ OutputInv /\ RunInv /\ [Next]_vars => RunInv'
  BY RunStep DEF OutputInv
<1>3. QED
  BY RunInit, <1>1, <1>2, TypeCorrect, OutputIsSound, PTL DEF Spec
=============================================================================
