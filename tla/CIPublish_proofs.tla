--------------------------- MODULE CIPublish_proofs ---------------------------
(***************************************************************************)
(* Proofs about CIPublish: what the gate reads is backed by the artifacts  *)
(* beside it, wherever a command failed and whenever a signal came.         *)
(***************************************************************************)
EXTENDS CIPublish, TLAPS

Places == {"start", "clean", "log", "verify", "validate", "report",
           "check report", "publish verdict", "publish report",
           "publish summary", "keep verdict", "diagnose",
           "publish diagnostic", "write diagnostic",
           "publish diagnostic summary", "classify", "publish code",
           "publish classification", "exit", "exited", "killed"}

\* The publications of a run whose report agrees with its exit code.
Agreeing == {"publish verdict", "publish report", "publish summary"}
\* The publications of a run that has no report.
Diagnosing == {"keep verdict", "diagnose", "write diagnostic",
               "publish diagnostic", "publish diagnostic summary"}
\* From here on only the exit code and its classification are published.
Closing == {"classify", "publish code", "publish classification", "exit",
            "exited"}

Proven == \A n \in Artifacts : published[n] = "PASS"

\* What lies in the artifacts' directory.
PublishedInv ==
  /\ pc \in {"start", "clean"} => ~cleaned
  /\ cleaned /\ pc \notin Closing \cup {"killed"} =>
       published["exit-code"] = Absent /\ published["summary"] = Absent
  /\ cleaned /\ pc = "classify" => published["exit-code"] = Absent
  /\ cleaned /\ pc \notin Closing \cup {"killed", "publish summary"} =>
       published["report"] = Absent
  /\ pc \in {"publish report", "publish summary"} =>
       published["verdict"] = StateOf(code)
  /\ pc = "publish summary" => published["report"] = StateOf(code)
  /\ pc \in Closing /\ code = 0 => Proven
  /\ pc \in {"publish classification", "exit", "exited"} /\ code = 0 =>
       published["exit-code"] \in {"0", Cut}
  /\ pc \in {"exit", "exited"} /\ code = 0 =>
       published["classification"] \in {"PASS", Cut}

\* What the staging directory still holds: files come from the state that the
\* code stands for or were cut by a failing printf, or a signal has removed them.
StagedInv ==
  /\ pc \in Agreeing \cup {"report", "check report"} => code # 3
  /\ pc = "check report" => staged["verdict"] = staged["report"]
  /\ pc \in Agreeing =>
       \A n \in Artifacts : staged[n] \in {Absent, StateOf(code)}
  /\ pc \in Diagnosing \ {"diagnose"} => code # 0
  /\ pc \in {"publish diagnostic", "publish diagnostic summary"} =>
       staged["summary"] \in {Absent, "diagnostic", Cut}
  /\ pc = "publish code" =>
       staged["exit-code"] \in {Absent, CodeName(code), Cut}
  /\ pc \in {"publish code", "publish classification"} =>
       code = 3 \/ staged["classification"] \in {Absent, Classify(code), Cut}

PublishInv ==
  /\ pc \in Places /\ TypeOK
  /\ PublishedInv /\ StagedInv
  /\ GateIsProven /\ ReportsMatchVerdict

\* What the shell's codes are called.
LEMMA Called ==
  /\ StateOf(0) = "PASS" /\ \A c \in Codes : c # 3 => StateOf(c) \in State
  /\ \A c \in Codes : CodeName(c) = "0" <=> c = 0
  /\ Classify(0) = "PASS"
  /\ Absent \notin State /\ "diagnostic" \notin State /\ "old" \notin State
  /\ Absent # "0" /\ Absent # "diagnostic"
  /\ Cut \notin State /\ Cut # Absent /\ Cut # "0"
  /\ 0 # 2 /\ 0 # 3 /\ 2 # 3
<1>1. StateOf(0) = "PASS" /\ StateOf(1) = "FAIL" /\ StateOf(2) = "INCONCLUSIVE"
  BY DEF StateOf
<1>2. /\ CodeName(0) = "0" /\ CodeName(1) = "1" /\ CodeName(2) = "2"
      /\ CodeName(3) = "3" /\ Classify(0) = "PASS"
  BY DEF CodeName, Classify
<1>3. \A c \in Codes : c = 0 \/ c = 1 \/ c = 2 \/ c = 3
  BY DEF Codes
<1>4. QED
  BY <1>1, <1>2, <1>3 DEF State, Absent, Cut

LEMMA ContentsHold ==
  /\ State \subseteq VerdictFile /\ VerdictFile \subseteq Contents
  /\ Absent \in Contents /\ "old" \in Contents /\ "diagnostic" \in Contents
  /\ Cut \in Contents
  /\ \A c \in Codes : CodeName(c) \in Contents /\ Classify(c) \in Contents
BY DEF Contents, VerdictFile

LEMMA NamesAre == Names = {"verdict", "report", "summary", "exit-code",
                           "classification"}
BY DEF Names

\* A publication, name by name.
LEMMA MoveFacts ==
  ASSUME TypeOK, NEW name \in Names, Move(name)
  PROVE  /\ published' \in [Names -> Contents] /\ staged' \in [Names -> Contents]
         /\ published'[name] = staged[name] /\ staged'[name] = Absent
         /\ staged[name] # Absent
         /\ \A n \in Names \ {name} :
              published'[n] = published[n] /\ staged'[n] = staged[n]
         /\ staging
<1>1. /\ published \in [Names -> Contents] /\ staged \in [Names -> Contents]
      /\ ~staging => staged = Nothing
  BY DEF TypeOK
<1>2. /\ staged[name] # Absent
      /\ published' = [published EXCEPT ![name] = staged[name]]
      /\ staged' = [staged EXCEPT ![name] = Absent]
  BY DEF Move
<1>3. staging
  BY <1>1, <1>2 DEF Nothing
<1>4. staged[name] \in Contents /\ Absent \in Contents
  BY <1>1, ContentsHold
<1> HIDE DEF Names
<1>5. QED
  BY <1>1, <1>2, <1>3, <1>4

\* A file that printf was to write.
LEMMA PrintedFacts ==
  ASSUME TypeOK, NEW name \in Names, NEW text \in Contents,
         NEW t \in Printed(name, text)
  PROVE  /\ t \in Contents /\ t \in {Absent, text, Cut}
         /\ ~staging => t = Absent
BY ContentsHold DEF Printed

LEMMA PublishInit == Init => PublishInv
<1> SUFFICES ASSUME Init PROVE PublishInv
  OBVIOUS
<1>1. /\ pc = "start" /\ code = 3 /\ staging = FALSE /\ staged = Nothing
      /\ cleaned = FALSE
  BY DEF Init
<1>2. published \in [Names -> Contents]
  <2>1. CASE published = Nothing
    BY <2>1, ContentsHold DEF Nothing
  <2>2. ASSUME NEW c \in Codes, published = Earlier(c)
        PROVE  published \in [Names -> Contents]
    BY <2>2, ContentsHold, NamesAre DEF Earlier, Artifacts
  <2>3. QED
    BY <2>1, <2>2 DEF Init
<1>3. TypeOK
  <2>1. staged \in [Names -> Contents] /\ code \in Codes
    BY <1>1, ContentsHold DEF Nothing, Codes
  <2>2. QED
    BY <1>1, <1>2, <2>1 DEF TypeOK
<1>4. PublishedInv /\ StagedInv
  BY <1>1 DEF PublishedInv, StagedInv, Closing, Agreeing, Diagnosing
<1>5. GateIsProven /\ ReportsMatchVerdict
  BY <1>1 DEF GateIsProven, ReportsMatchVerdict
<1>6. QED
  BY <1>1, <1>3, <1>4, <1>5 DEF PublishInv, Places

\* The types.
LEMMA TypeKept ==
  ASSUME TypeOK, pc \in Places, [Next]_vars
  PROVE  TypeOK' /\ pc' \in Places
<1>1. /\ code \in Codes /\ staging \in BOOLEAN /\ cleaned \in BOOLEAN
      /\ staged \in [Names -> Contents] /\ published \in [Names -> Contents]
      /\ ~staging => staged = Nothing
  BY DEF TypeOK
<1>2. /\ Nothing \in [Names -> Contents] /\ 1 \in Codes /\ 2 \in Codes
      /\ 3 \in Codes
  BY ContentsHold DEF Nothing, Codes
<1> DEFINE Kept == /\ code' \in Codes /\ staging' = staging
                   /\ cleaned' \in BOOLEAN
                   /\ staged' \in [Names -> Contents]
                   /\ published' \in [Names -> Contents]
                   /\ ~staging => staged' = Nothing
                   /\ pc' \in Places
<1>3. Kept => TypeOK' /\ pc' \in Places
  BY <1>1 DEF TypeOK
<1>4. CASE Clean
  <2>1. PICK kept \in SUBSET Removed :
          /\ published' = [n \in Names |-> IF n \in Removed \ kept THEN Absent
                                           ELSE published[n]]
          /\ cleaned' = (kept = {})
    BY <1>4 DEF Clean
  <2>2. published' \in [Names -> Contents] /\ cleaned' \in BOOLEAN
    BY <1>1, <2>1, ContentsHold
  <2>3. QED
    BY <1>1, <1>3, <1>4, <2>2 DEF Clean, Places
<1>20. CASE Start \/ Unavailable \/ OpenLog \/ LogFails \/ Exit \/ Kill
  <2>1. /\ staging' \in BOOLEAN /\ staged' \in [Names -> Contents]
        /\ ~staging' => staged' = Nothing
        /\ code' \in Codes /\ cleaned' = cleaned /\ published' = published
        /\ pc' \in Places
    BY <1>1, <1>2, <1>20
    DEF Start, Unavailable, OpenLog, LogFails, Exit, Kill, Places
  <2>2. QED
    BY <1>1, <2>1 DEF TypeOK
<1>5. CASE RunVerify
  <2>1. PICK o \in LiveOutcomes :
          /\ code' = o[1] /\ staged' = [staged EXCEPT !["verdict"] = o[2]]
          /\ staging' = (staging \/ o[2] # Absent)
    BY <1>5 DEF RunVerify
  <2>2. o[1] \in Codes /\ o[2] \in State \cup {Absent}
    BY DEF LiveOutcomes, ExitCode, Codes, State
  <2>3. staged' \in [Names -> Contents]
    BY <1>1, <2>1, <2>2, ContentsHold
  <2>4. ~staging' => staged' = Nothing
    <3>1. ~staging' => staged = Nothing /\ o[2] = Absent
      BY <1>1, <2>1
    <3>2. QED
      BY <2>1, <3>1 DEF Nothing
  <2>5. staging' \in BOOLEAN
    BY <1>1, <2>1
  <2>6. QED
    BY <1>1, <1>5, <2>1, <2>2, <2>3, <2>4, <2>5 DEF RunVerify, TypeOK, Places
<1>6. CASE CopyFixture
  <2>1. /\ code' \in Codes /\ UNCHANGED <<staging, published, cleaned>>
        /\ pc' = "validate"
        /\ \/ staging /\ \E v \in VerdictFile :
                            staged' = [staged EXCEPT !["verdict"] = v]
           \/ staged' = staged
    BY <1>2, <1>6 DEF CopyFixture
  <2>2. staged' \in [Names -> Contents]
    BY <1>1, <2>1, ContentsHold
  <2>3. QED
    BY <1>1, <1>3, <2>1, <2>2 DEF Places
<1>7. CASE Validate
  BY <1>1, <1>3, <1>7 DEF Validate, Places
<1>8. CASE ReportWritten
  <2>1. staged["verdict"] \in Contents /\ staged["verdict"] # Absent
    BY <1>8, ContentsHold, Called DEF ReportWritten
  <2>2. staging
    BY <1>1, <2>1, NamesAre DEF Nothing
  <2>3. staged' \in [Names -> Contents]
    BY <1>1, <1>8, <2>1 DEF ReportWritten
  <2>4. QED
    BY <1>1, <1>2, <1>3, <1>8, <2>2, <2>3 DEF ReportWritten, Places
<1>9. CASE ReportFails
  <2>1. /\ code' \in Codes /\ pc' = "keep verdict"
        /\ UNCHANGED <<staging, published, cleaned>>
        /\ \/ staged' = staged
           \/ /\ staged["verdict"] \in State
              /\ \E html, markdown \in {Absent, Cut, staged["verdict"]} :
                   staged' = [staged EXCEPT !["report"] = html,
                                            !["summary"] = markdown]
    BY <1>2, <1>9 DEF ReportFails
  <2>2. staged["verdict"] \in State => staging
    BY <1>1, NamesAre, Called DEF Nothing
  <2>3. staged' \in [Names -> Contents]
    BY <1>1, <2>1, ContentsHold
  <2>4. QED
    BY <1>1, <1>3, <2>1, <2>2, <2>3 DEF Places
<1>21. CASE ReportAgrees \/ ReportDiffers
  BY <1>1, <1>2, <1>3, <1>21 DEF ReportAgrees, ReportDiffers, Places
<1>10. ASSUME NEW name \in Names, Move(name) \/ UNCHANGED <<staged, published>>,
              code' \in Codes, staging' = staging, cleaned' = cleaned,
              pc' \in Places
       PROVE  TypeOK' /\ pc' \in Places
  BY <1>1, <1>3, <1>10, MoveFacts
<1>11. CASE PublishVerdict \/ PublishReport \/ PublishSummary
  BY <1>1, <1>2, <1>10, <1>11, NamesAre
  DEF PublishVerdict, PublishReport, PublishSummary, PublishNext, Places
<1>12. CASE \/ KeepVerdict \/ PublishDiagnostic \/ PublishDiagnosticSummary
            \/ PublishCode \/ PublishClassification
  BY <1>1, <1>2, <1>10, <1>12, NamesAre
  DEF KeepVerdict, PublishDiagnostic, PublishDiagnosticSummary, PublishCode,
      PublishClassification, PublishLast, Places
<1>13. CASE Diagnose
  <2>1. PICK v \in Printed("verdict", "diagnostic"),
             t \in Printed("summary", "diagnostic") :
          staged' = [staged EXCEPT !["verdict"] = v, !["summary"] = t]
    BY <1>13 DEF Diagnose
  <2>2. /\ v \in Contents /\ t \in Contents
        /\ ~staging => v = Absent /\ t = Absent
    BY PrintedFacts, ContentsHold, NamesAre
  <2>3. staged' \in [Names -> Contents] /\ (~staging => staged' = Nothing)
    BY <1>1, <2>1, <2>2 DEF Nothing
  <2>4. QED
    BY <1>1, <1>2, <1>3, <1>13, <2>3 DEF Diagnose, Places
<1>22. CASE WriteDiagnosticSummary
  <2>1. PICK t \in Printed("summary", "diagnostic") :
          staged' = [staged EXCEPT !["summary"] = t]
    BY <1>22 DEF WriteDiagnosticSummary
  <2>2. t \in Contents /\ (~staging => t = Absent)
    BY PrintedFacts, ContentsHold, NamesAre
  <2>3. staged' \in [Names -> Contents] /\ (~staging => staged' = Nothing)
    BY <1>1, <2>1, <2>2 DEF Nothing
  <2>4. QED
    BY <1>1, <1>3, <1>22, <2>3 DEF WriteDiagnosticSummary, Places
<1>14. CASE ClassifyExit
  <2>1. code' \in Codes
    BY <1>1, <1>2, <1>14 DEF ClassifyExit
  <2>2. PICK c \in Printed("exit-code", CodeName(code')),
             t \in Printed("classification", Classify(code')) :
          staged' = [staged EXCEPT !["exit-code"] = c, !["classification"] = t]
    BY <1>14 DEF ClassifyExit
  <2>3. /\ c \in Contents /\ t \in Contents
        /\ ~staging => c = Absent /\ t = Absent
    BY <2>1, PrintedFacts, ContentsHold, NamesAre
  <2>4. staged' \in [Names -> Contents] /\ (~staging => staged' = Nothing)
    BY <1>1, <2>2, <2>3 DEF Nothing
  <2>5. QED
    BY <1>1, <1>3, <1>14, <2>1, <2>4 DEF ClassifyExit, Places
<1>15. CASE Signal
  BY <1>1, <1>2, <1>15 DEF Signal, TypeOK
<1>16. CASE UNCHANGED vars
  BY <1>1, <1>16 DEF vars, TypeOK
<1>17. QED
  BY <1>4, <1>5, <1>6, <1>7, <1>8, <1>9, <1>11, <1>12, <1>13, <1>14, <1>15, <1>16,
     <1>20, <1>21, <1>22
  DEF Next, Script, Stopped

\* A step leaves the file called n alone, in both directories.
Same(n) == published'[n] = published[n] /\ staged'[n] = staged[n]

LEMMA PublishStep ==
  ASSUME PublishInv, [Next]_vars
  PROVE  PublishInv'
<1> USE Called DEF Closing, Agreeing, Diagnosing, Artifacts, Same
<1>1. TypeOK' /\ pc' \in Places
  BY TypeKept DEF PublishInv
<1>2. PublishedInv /\ StagedInv /\ GateIsProven /\ ReportsMatchVerdict
  BY DEF PublishInv
<1>3. /\ code \in Codes /\ code' \in Codes
      /\ staged \in [Names -> Contents] /\ published \in [Names -> Contents]
      /\ ~staging => staged = Nothing
      /\ \A n \in Names : Nothing[n] = Absent
  BY <1>1 DEF PublishInv, TypeOK, Nothing
<1>4. ASSUME PublishedInv', StagedInv', GateIsProven', ReportsMatchVerdict'
      PROVE  PublishInv'
  BY <1>1, <1>4 DEF PublishInv
<1>5. ASSUME UNCHANGED <<published, cleaned>>
      PROVE  GateIsProven' /\ ReportsMatchVerdict'
  BY <1>2, <1>5 DEF GateIsProven, ReportsMatchVerdict
<1>6. CASE Clean
  <2>1. /\ pc' = "log" /\ UNCHANGED <<code, staged>>
        /\ cleaned' => \A n \in Names : published'[n] = Absent
    <3>1. PICK kept \in SUBSET Names :
            /\ published' = [n \in Names |-> IF n \in Names \ kept THEN Absent
                                             ELSE published[n]]
            /\ cleaned' = (kept = {})
      BY <1>6 DEF Clean, Removed
    <3>2. QED
      BY <1>6, <3>1 DEF Clean
  <2>2. PublishedInv'
    BY <2>1, NamesAre DEF PublishedInv
  <2>3. StagedInv'
    BY <2>1 DEF StagedInv
  <2>4. GateIsProven' /\ ReportsMatchVerdict'
    BY <2>1, NamesAre, Called DEF GateIsProven, ReportsMatchVerdict
  <2>5. QED
    BY <1>4, <2>2, <2>3, <2>4
<1>23. CASE Start \/ Unavailable \/ OpenLog \/ LogFails
  <2>1. /\ pc \in {"start", "clean", "log"} /\ UNCHANGED <<published, cleaned>>
        /\ \/ pc = "start" /\ pc' = "clean"
           \/ pc = "log" /\ pc' = "verify"
           \/ pc' = "exited" /\ code' # 0
    BY <1>23 DEF Start, Unavailable, OpenLog, LogFails
  <2>2. PublishedInv'
    BY <1>2, <2>1 DEF PublishedInv
  <2>3. StagedInv'
    BY <2>1 DEF StagedInv
  <2>4. QED
    BY <1>4, <1>5, <2>1, <2>2, <2>3
<1>7. CASE RunVerify \/ CopyFixture \/ Validate
  <2>1. /\ pc \in {"verify", "validate"} /\ pc' \in {"validate", "report", "diagnose"}
        /\ UNCHANGED <<published, cleaned>>
        /\ pc' = "report" => code' # 3
    BY <1>7 DEF RunVerify, CopyFixture, Validate, ValidVerdict
  <2>2. PublishedInv'
    BY <1>2, <2>1 DEF PublishedInv
  <2>3. StagedInv'
    BY <1>2, <2>1 DEF StagedInv
  <2>4. QED
    BY <1>4, <1>5, <2>1, <2>2, <2>3
<1>8. CASE ReportWritten
  <2>1. /\ pc = "report" /\ pc' = "check report"
        /\ UNCHANGED <<published, cleaned, code>>
        /\ staged'["verdict"] = staged'["report"]
    BY <1>3, <1>8, NamesAre DEF ReportWritten
  <2>2. PublishedInv'
    BY <1>2, <2>1 DEF PublishedInv
  <2>3. StagedInv'
    BY <1>2, <2>1 DEF StagedInv
  <2>4. QED
    BY <1>4, <1>5, <2>1, <2>2, <2>3
<1>9. CASE ReportFails \/ ReportDiffers
  <2>1. /\ pc \in {"report", "check report"} /\ pc' = "keep verdict"
        /\ code' \in {2, 3} /\ UNCHANGED <<published, cleaned>>
    BY <1>9 DEF ReportFails, ReportDiffers
  <2>2. PublishedInv'
    BY <1>2, <2>1 DEF PublishedInv
  <2>3. StagedInv'
    BY <1>2, <2>1 DEF StagedInv
  <2>4. QED
    BY <1>4, <1>5, <2>1, <2>2, <2>3
<1>24. CASE ReportAgrees
  <2>1. /\ pc = "check report" /\ pc' = "publish verdict"
        /\ UNCHANGED <<code, staged, published, cleaned>>
        /\ staged["report"] = StateOf(code) /\ staged["summary"] = StateOf(code)
    BY <1>24 DEF ReportAgrees
  <2>2. staged["verdict"] = staged["report"] /\ code # 3
    BY <1>2, <2>1 DEF StagedInv
  <2>3. PublishedInv'
    BY <1>2, <2>1 DEF PublishedInv
  <2>4. StagedInv'
    BY <2>1, <2>2 DEF StagedInv
  <2>5. QED
    BY <1>4, <1>5, <2>1, <2>3, <2>4
<1>10. ASSUME NEW name \in Names, Move(name)
       PROVE  /\ published'[name] = staged[name] /\ staged[name] # Absent
              /\ \A n \in Names \ {name} : Same(n)
  BY <1>10, MoveFacts DEF PublishInv
<1>11. CASE PublishVerdict
  <2>1. CASE Move("verdict") /\ pc' = "publish report" /\ code' = code
    <3>1. /\ pc = "publish verdict" /\ published'["verdict"] = staged["verdict"]
          /\ staged["verdict"] # Absent
          /\ \A n \in Names \ {"verdict"} : Same(n)
          /\ cleaned' = cleaned
          /\ cleaned => /\ published["report"] = Absent
                        /\ published["summary"] = Absent
                        /\ published["exit-code"] = Absent
      BY <1>2, <1>10, <1>11, <2>1, NamesAre
      DEF PublishVerdict, PublishNext, PublishedInv
    <3>2. /\ code # 3
          /\ \A n \in Artifacts : staged[n] \in {Absent, StateOf(code)}
      BY <1>2, <3>1 DEF StagedInv
    <3>3. staged'["verdict"] = Absent
      BY <2>1, NamesAre, MoveFacts DEF PublishInv
    <3>4. PublishedInv' /\ StagedInv'
      <4>1. PublishedInv'
        BY <2>1, <3>1, <3>2, <3>3, NamesAre
        DEF PublishedInv
      <4>2. StagedInv'
        BY <2>1, <3>1, <3>2, <3>3, NamesAre
        DEF StagedInv
      <4>3. QED
        BY <4>1, <4>2
    <3>5. GateIsProven' /\ ReportsMatchVerdict'
      BY <3>1, NamesAre, Called DEF GateIsProven, ReportsMatchVerdict
    <3>6. QED
      BY <1>4, <3>4, <3>5
  <2>2. CASE /\ code' = 3 /\ pc' = "classify"
            /\ UNCHANGED <<staged, published, cleaned>>
    <3>1. pc = "publish verdict" /\ code' # 0
      BY <1>11, <2>2 DEF PublishVerdict, PublishNext
    <3>2. cleaned => published["exit-code"] = Absent
      BY <1>2, <3>1 DEF PublishedInv
    <3>3. PublishedInv'
      BY <2>2, <3>1, <3>2 DEF PublishedInv
    <3>4. StagedInv'
      BY <2>2 DEF StagedInv
    <3>5. QED
      BY <1>4, <1>5, <2>2, <3>3, <3>4
  <2>3. QED
    BY <1>11, <2>1, <2>2 DEF PublishVerdict, PublishNext
<1>12. CASE PublishReport
  <2>1. CASE Move("report") /\ pc' = "publish summary" /\ code' = code
    <3>1. /\ pc = "publish report" /\ published'["report"] = staged["report"]
          /\ staged["report"] # Absent
          /\ \A n \in Names \ {"report"} : Same(n)
          /\ cleaned' = cleaned /\ published["verdict"] = StateOf(code)
          /\ cleaned => /\ published["summary"] = Absent
                        /\ published["exit-code"] = Absent
      BY <1>2, <1>10, <1>12, <2>1, NamesAre
      DEF PublishReport, PublishNext, PublishedInv
    <3>2. /\ code # 3
          /\ \A n \in Artifacts : staged[n] \in {Absent, StateOf(code)}
      BY <1>2, <3>1 DEF StagedInv
    <3>3. staged'["report"] = Absent
      BY <2>1, NamesAre, MoveFacts DEF PublishInv
    <3>4. PublishedInv' /\ StagedInv'
      <4>1. PublishedInv'
        BY <2>1, <3>1, <3>2, <3>3, NamesAre
        DEF PublishedInv
      <4>2. StagedInv'
        BY <2>1, <3>1, <3>2, <3>3, NamesAre
        DEF StagedInv
      <4>3. QED
        BY <4>1, <4>2
    <3>5. GateIsProven' /\ ReportsMatchVerdict'
      BY <3>1, <3>2, NamesAre, Called DEF GateIsProven, ReportsMatchVerdict
    <3>6. QED
      BY <1>4, <3>4, <3>5
  <2>2. CASE /\ code' = 3 /\ pc' = "classify"
            /\ UNCHANGED <<staged, published, cleaned>>
    <3>1. pc = "publish report" /\ code' # 0
      BY <1>12, <2>2 DEF PublishReport, PublishNext
    <3>2. cleaned => published["exit-code"] = Absent
      BY <1>2, <3>1 DEF PublishedInv
    <3>3. PublishedInv'
      BY <2>2, <3>1, <3>2 DEF PublishedInv
    <3>4. StagedInv'
      BY <2>2 DEF StagedInv
    <3>5. QED
      BY <1>4, <1>5, <2>2, <3>3, <3>4
  <2>3. QED
    BY <1>12, <2>1, <2>2 DEF PublishReport, PublishNext
<1>13. CASE PublishSummary
  <2>1. CASE Move("summary") /\ pc' = "classify" /\ code' = code
    <3>1. /\ pc = "publish summary" /\ published'["summary"] = staged["summary"]
          /\ staged["summary"] # Absent
          /\ \A n \in Names \ {"summary"} : Same(n)
          /\ published["verdict"] = StateOf(code)
          /\ published["report"] = StateOf(code)
          /\ cleaned' = cleaned
          /\ cleaned => published["exit-code"] = Absent
      BY <1>2, <1>10, <1>13, <2>1, NamesAre
      DEF PublishSummary, PublishNext, PublishedInv
    <3>2. code # 3 /\ staged["summary"] = StateOf(code)
      BY <1>2, <3>1 DEF StagedInv
    <3>3. code = 0 => Proven'
      BY <3>1, <3>2, NamesAre, Called DEF Proven
    <3>4. PublishedInv' /\ StagedInv'
      <4>1. PublishedInv'
        BY <2>1, <3>1, <3>3, NamesAre
        DEF PublishedInv
      <4>2. StagedInv'
        BY <2>1, <3>1, <3>3, NamesAre
        DEF StagedInv
      <4>3. QED
        BY <4>1, <4>2
    <3>5. GateIsProven' /\ ReportsMatchVerdict'
      BY <3>1, <3>2, NamesAre, Called DEF GateIsProven, ReportsMatchVerdict
    <3>6. QED
      BY <1>4, <3>4, <3>5
  <2>2. CASE /\ code' = 3 /\ pc' = "classify"
            /\ UNCHANGED <<staged, published, cleaned>>
    <3>1. pc = "publish summary" /\ code' # 0
      BY <1>13, <2>2 DEF PublishSummary, PublishNext
    <3>2. cleaned => published["exit-code"] = Absent
      BY <1>2, <3>1 DEF PublishedInv
    <3>3. PublishedInv'
      BY <2>2, <3>1, <3>2 DEF PublishedInv
    <3>4. StagedInv'
      BY <2>2 DEF StagedInv
    <3>5. QED
      BY <1>4, <1>5, <2>2, <3>3, <3>4
  <2>3. QED
    BY <1>13, <2>1, <2>2 DEF PublishSummary, PublishNext
<1>14. CASE KeepVerdict \/ PublishDiagnostic
  <2>1. /\ pc \in {"keep verdict", "publish diagnostic"} /\ code # 0
        /\ cleaned' = cleaned
        /\ cleaned => /\ published["report"] = Absent
                      /\ published["summary"] = Absent
                      /\ published["exit-code"] = Absent
    BY <1>2, <1>14 DEF KeepVerdict, PublishDiagnostic, PublishedInv, StagedInv
  <2>2. /\ \A n \in {"report", "summary", "exit-code"} : Same(n)
        /\ code' # 0
        /\ \/ pc = "keep verdict" /\ pc' = "write diagnostic"
           \/ pc = "publish diagnostic" /\ pc' = "publish diagnostic summary"
    BY <1>10, <1>14, <2>1, NamesAre DEF KeepVerdict, PublishDiagnostic
  <2>3. PublishedInv'
    BY <1>2, <2>1, <2>2 DEF PublishedInv
  <2>4. StagedInv'
    BY <1>2, <2>1, <2>2 DEF StagedInv
  <2>5. GateIsProven' /\ ReportsMatchVerdict'
    BY <2>1, <2>2, Called DEF GateIsProven, ReportsMatchVerdict
  <2>6. QED
    BY <1>4, <2>3, <2>4, <2>5
<1>15. CASE Diagnose \/ WriteDiagnosticSummary
  <2>1. /\ pc \in {"diagnose", "write diagnostic"}
        /\ UNCHANGED <<published, cleaned>>
        /\ pc' \in {"publish diagnostic", "publish diagnostic summary"}
        /\ code' # 0
    BY <1>2, <1>15 DEF Diagnose, WriteDiagnosticSummary, StagedInv
  <2>2. PICK t \in Printed("summary", "diagnostic") : staged'["summary"] = t
    BY <1>3, <1>15, NamesAre DEF Diagnose, WriteDiagnosticSummary
  <2>3. staged'["summary"] \in {Absent, "diagnostic", Cut}
    BY <2>2, PrintedFacts, ContentsHold, NamesAre DEF PublishInv
  <2>4. PublishedInv'
    BY <1>2, <2>1 DEF PublishedInv
  <2>5. StagedInv'
    BY <2>1, <2>3 DEF StagedInv
  <2>6. QED
    BY <1>4, <1>5, <2>1, <2>4, <2>5
<1>16. CASE PublishDiagnosticSummary
  <2>1. /\ pc = "publish diagnostic summary" /\ pc' = "classify" /\ code # 0
        /\ code' # 0 /\ cleaned' = cleaned
        /\ cleaned => /\ published["report"] = Absent
                      /\ published["summary"] = Absent
                      /\ published["exit-code"] = Absent
        /\ staged["summary"] \in {Absent, "diagnostic", Cut}
    BY <1>2, <1>16 DEF PublishDiagnosticSummary, PublishedInv, StagedInv
  <2>2. /\ \A n \in {"verdict", "report", "exit-code"} :
             published'[n] = published[n]
        /\ cleaned => published'["summary"] \in {Absent, "diagnostic", Cut}
    BY <1>10, <1>16, <2>1, NamesAre DEF PublishDiagnosticSummary
  <2>3. PublishedInv'
    BY <2>1, <2>2 DEF PublishedInv
  <2>4. StagedInv'
    BY <2>1, <2>2 DEF StagedInv
  <2>5. GateIsProven' /\ ReportsMatchVerdict'
    BY <2>1, <2>2, Called DEF GateIsProven, ReportsMatchVerdict
  <2>6. QED
    BY <1>4, <2>3, <2>4, <2>5
<1>17. CASE ClassifyExit
  <2>1. /\ pc = "classify" /\ pc' = "publish code" /\ code' \in {code, 3}
        /\ UNCHANGED <<published, cleaned>>
    BY <1>17 DEF ClassifyExit
  <2>2. PICK c \in Printed("exit-code", CodeName(code')),
             t \in Printed("classification", Classify(code')) :
          staged'["exit-code"] = c /\ staged'["classification"] = t
    BY <1>3, <1>17, NamesAre DEF ClassifyExit
  <2>3. /\ staged'["exit-code"] \in {Absent, CodeName(code'), Cut}
        /\ staged'["classification"] \in {Absent, Classify(code'), Cut}
    BY <1>3, <2>2, PrintedFacts, ContentsHold, NamesAre DEF PublishInv
  <2>4. Proven' <=> Proven
    BY <2>1 DEF Proven
  <2>5. PublishedInv'
    BY <1>2, <2>1, <2>4 DEF PublishedInv
  <2>6. StagedInv'
    BY <2>1, <2>3 DEF StagedInv
  <2>7. QED
    BY <1>4, <1>5, <2>1, <2>5, <2>6
<1>18. CASE PublishCode
  <2>1. /\ pc = "publish code" /\ pc' = "publish classification"
        /\ code = 0 => Proven
        /\ cleaned' = cleaned
        /\ staged["exit-code"] \in {Absent, CodeName(code), Cut}
        /\ code = 3 \/ staged["classification"] \in {Absent, Classify(code), Cut}
    BY <1>2, <1>18 DEF PublishCode, PublishLast, PublishedInv, StagedInv
  <2>2. /\ \A n \in {"verdict", "report", "summary"} :
             published'[n] = published[n]
        /\ staged'["classification"] = staged["classification"]
        /\ \/ code' = 3 /\ published'["exit-code"] = published["exit-code"]
           \/ /\ code' = code
              /\ published'["exit-code"] \in {CodeName(code), Cut}
    BY <1>10, <1>18, <2>1, NamesAre DEF PublishCode, PublishLast
  <2>3. /\ Proven' <=> Proven
        /\ cleaned /\ published["exit-code"] = "0" => Proven
    BY <1>2, <2>2 DEF Proven, GateIsProven
  <2>4. CodeName(code) = "0" <=> code = 0
    BY <1>3, Called
  <2>5. PublishedInv' /\ StagedInv'
    <3>1. PublishedInv'
      BY <2>1, <2>2, <2>3, <2>4
      DEF PublishedInv
    <3>2. StagedInv'
      BY <2>1, <2>2, <2>3, <2>4
      DEF StagedInv
    <3>3. QED
      BY <3>1, <3>2
  <2>6. GateIsProven' /\ ReportsMatchVerdict'
    <3>1. cleaned' /\ published'["exit-code"] = "0" => Proven'
      BY <2>1, <2>2, <2>3, <2>4
    <3>2. QED
      BY <1>2, <2>1, <2>2, <3>1 DEF GateIsProven, ReportsMatchVerdict, Proven
  <2>7. QED
    BY <1>4, <2>5, <2>6
<1>19. CASE PublishClassification
  <2>1. /\ pc = "publish classification" /\ pc' = "exit"
        /\ cleaned' = cleaned
        /\ code = 0 => Proven /\ published["exit-code"] \in {"0", Cut}
        /\ code = 3 \/ staged["classification"] \in {Absent, Classify(code), Cut}
    BY <1>2, <1>19
    DEF PublishClassification, PublishLast, PublishedInv, StagedInv
  <2>2. /\ \A n \in {"verdict", "report", "summary", "exit-code"} :
             published'[n] = published[n]
        /\ \/ code' = 3
           \/ /\ code' = code
              /\ published'["classification"] = staged["classification"]
              /\ staged["classification"] # Absent
    BY <1>10, <1>19, NamesAre DEF PublishClassification, PublishLast
  <2>3. Proven' <=> Proven
    BY <2>2 DEF Proven
  <2>4. PublishedInv' /\ StagedInv'
    <3>1. PublishedInv'
      BY <2>1, <2>2, <2>3, Called
      DEF PublishedInv
    <3>2. StagedInv'
      BY <2>1, <2>2, <2>3, Called
      DEF StagedInv
    <3>3. QED
      BY <3>1, <3>2
  <2>5. GateIsProven' /\ ReportsMatchVerdict'
    BY <1>2, <2>1, <2>2 DEF GateIsProven, ReportsMatchVerdict
  <2>6. QED
    BY <1>4, <2>4, <2>5
<1>20. CASE Signal
  <2>1. /\ UNCHANGED <<pc, code, published, cleaned>>
        /\ \A n \in Names : staged'[n] = Absent
    BY <1>3, <1>20 DEF Signal
  <2>2. Proven' <=> Proven
    BY <2>1 DEF Proven
  <2>3. PublishedInv'
    BY <1>2, <2>1, <2>2, NamesAre DEF PublishedInv
  <2>4. StagedInv'
    BY <1>2, <2>1, NamesAre DEF StagedInv
  <2>5. QED
    BY <1>4, <1>5, <2>1, <2>3, <2>4
<1>25. CASE Exit \/ Kill
  <2>1. /\ UNCHANGED <<code, published, cleaned>>
        /\ \/ pc = "exit" /\ pc' = "exited"
           \/ pc' = "killed"
    BY <1>25 DEF Exit, Kill
  <2>2. Proven' <=> Proven
    BY <2>1 DEF Proven
  <2>3. PublishedInv'
    BY <1>2, <2>1, <2>2 DEF PublishedInv
  <2>4. StagedInv'
    BY <2>1 DEF StagedInv
  <2>5. QED
    BY <1>4, <1>5, <2>1, <2>3, <2>4
<1>21. CASE UNCHANGED vars
  <2>1. Proven' <=> Proven
    BY <1>21 DEF vars, Proven
  <2>2. PublishedInv' /\ StagedInv'
    <3>1. PublishedInv'
      BY <1>2, <1>21, <2>1
      DEF vars, PublishedInv
    <3>2. StagedInv'
      BY <1>2, <1>21, <2>1
      DEF vars, StagedInv
    <3>3. QED
      BY <3>1, <3>2
  <2>3. QED
    BY <1>4, <1>5, <1>21, <2>2 DEF vars
<1>22. QED
  BY <1>6, <1>7, <1>8, <1>9, <1>11, <1>12, <1>13, <1>14, <1>15, <1>16, <1>17,
     <1>18, <1>19, <1>20, <1>21, <1>23, <1>24, <1>25
  DEF Next, Script, Stopped

LEMMA PublishAlways == Spec => []PublishInv
BY PublishInit, PublishStep, PTL DEF Spec

\* The type invariant; a signal leaves no staged file behind (cleanup).
THEOREM TypeCorrect == Spec => []TypeOK
<1>1. PublishInv => TypeOK
  BY DEF PublishInv
<1>2. QED
  BY PublishAlways, <1>1, PTL

\* Once what an earlier job left is removed, a published exit code of 0 stands
\* beside the verdict, the report and the summary of a PASS of this job,
\* whichever command failed, signal came or kill ended it (publish_file).
THEOREM GateNeverLies == Spec => []GateIsProven
<1>1. PublishInv => GateIsProven
  BY DEF PublishInv
<1>2. QED
  BY PublishAlways, <1>1, PTL

\* The step exits with 0 only when all five artifacts are in place, those of a
\* PASS among them; exit-code and classification may have been cut by a failing
\* printf.
THEOREM ZeroIsComplete == Spec => []ExitZeroIsComplete
<1>1. PublishInv => ExitZeroIsComplete
  BY DEF PublishInv, PublishedInv, ExitZeroIsComplete, Closing, Proven, Artifacts
<1>2. QED
  BY PublishAlways, <1>1, PTL

\* The published report and summary are of the published verdict.
THEOREM ReportsAgree == Spec => []ReportsMatchVerdict
<1>1. PublishInv => ReportsMatchVerdict
  BY DEF PublishInv
<1>2. QED
  BY PublishAlways, <1>1, PTL
=============================================================================
