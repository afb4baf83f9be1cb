------------------------------ MODULE CliProofs ------------------------------
(***************************************************************************)
(* Proofs about the command line, for sessions of any length: what an exit *)
(* code says, and what is printed with it.  A command keeps the pipeline's *)
(* invariant, and once it has ended nothing that it printed from changes.  *)
(* The log agrees with what the files make a validation end with, as long  *)
(* as they stay as they are (Foretelling), so a check foretells a build.   *)
(***************************************************************************)
EXTENDS Cli, ValidateProofs

-----------------------------------------------------------------------------
(* The inductive invariant of a session.                                   *)

(* The command has ended and shown its response.                           *)
Shown ==
  /\ \/ raised # None
     \/ pc = "done" /\ (command.name = "check" \/ ~ ok \/ written = "all")
  /\ exit = Response.exit_code
  /\ stdout = IF command.json THEN {Response} ELSE HumanOut(Response)
  /\ stderr = IF command.json THEN {} ELSE HumanErr(Response)

(* The log is a list; an exception has ended the pipeline or the write; an *)
(* exit code comes with its response.                                      *)
Commanded ==
  /\ \E T : log \in Seq(T)
  /\ raised # None => pc = "raised" \/ written = "failed"
  /\ IF exit = Running THEN Len(log) < MaxCommands ELSE Shown

(* With the invariant of the pipeline it is inductive.                     *)
CliInv == IInv /\ CliTypeOK /\ Commanded

(* One validation for each loader: no command uses one again.              *)
LEMMA OneRun == IInv => runs = 1
BY CliAssumption DEF IInv, TypeOK

(* A command that has ended is done with the pipeline.                     *)
LEMMA EndedPipeline ==
  ASSUME CliInv, exit # Running
  PROVE  pc \in {"done", "raised"}
BY DEF CliInv, CliTypeOK, Commanded, Shown, Accepted, None

(* A response comes with a code of its own kind.                           *)
LEMMA ResponseCode == Response.exit_code \in {0, 1}
BY DEF Response, ErrorResponse, CheckResponse, BuildResponse

-----------------------------------------------------------------------------
(* Every action of a session keeps the pipeline's invariant.               *)
LEMMA SessionPipelineStep == CliInv /\ [CliNext]_cliVars => IInv'
<1> SUFFICES ASSUME CliInv, [CliNext]_cliVars PROVE IInv'
  OBVIOUS
<1>1. IInv /\ TypeOK
  BY DEF CliInv, IInv
<1>2. CASE [Next]_vars
  BY <1>1, <1>2, InvariantStep
<1>3. CASE Invoke
  <2>1. (Started => IInv)'
    BY StartInv, PTL
  <2>2. Started'
    BY <1>1, <1>3 DEF Invoke, Started, disk, TypeOK, Contents
  <2> QED
    BY <2>1, <2>2
<1>4. CASE EditBetween
  <2>1. /\ edits < MaxEdits /\ edits' = edits + 1
        /\ UNCHANGED <<asset_dirs, request, pc, loader, plan, report, ok>>
        /\ \E d \in Dirs : \E c \in Contents(d) : config' = [config EXCEPT ![d] = c]
    BY <1>4 DEF EditBetween
  <2>2. /\ DOMAIN config' = Dirs /\ \A d \in Dirs : config'[d] \in Contents(d)
        /\ edits' \in 0 .. MaxEdits /\ edits' # 0
    BY <1>1, <2>1, ValidateAssumption DEF TypeOK
  <2>3. TypeOK'
    BY <1>1, <2>1, <2>2 DEF TypeOK, request, loader, OrgIds
  <2>4. Reading'
    BY <1>1, <2>1 DEF IInv, Reading, loader
  <2>5. Whole'
    BY <1>1, <2>1 DEF IInv, Whole, FoldersRead, Declared, loader
  <2>6. Noted'
    BY <1>1, <2>1, <2>2 DEF IInv, Noted, loader, request
  <2>7. Computed'
    BY <1>1, <2>1 DEF IInv, Computed, Accepts, loader, request
  <2> QED
    BY <2>3, <2>4, <2>5, <2>6, <2>7 DEF IInv
<1>5. CASE Validating \/ SomebodyEdits
  BY <1>2, <1>5 DEF Validating, SomebodyEdits, Next
<1>6. CASE RenderAndWrite \/ Present
  BY <1>2, <1>6 DEF RenderAndWrite, Present
<1>7. CASE UNCHANGED cliVars
  BY <1>2, <1>7 DEF cliVars
<1> QED
  BY <1>3, <1>4, <1>5, <1>6, <1>7 DEF CliNext

(* Every action of a session keeps its own types.                          *)
LEMMA SessionTypeStep == CliInv /\ [CliNext]_cliVars => CliTypeOK' /\ Commanded'
<1> SUFFICES ASSUME CliInv, [CliNext]_cliVars PROVE CliTypeOK' /\ Commanded'
  OBVIOUS
<1>1. CliTypeOK /\ Commanded /\ runs = 1
  BY OneRun DEF CliInv
<1>2. ASSUME UNCHANGED <<pc, ok, strict, issues, report, city, session>>
      PROVE  CliTypeOK' /\ Commanded'
  BY <1>1, <1>2 DEF CliTypeOK, Commanded, Shown, Response, ErrorResponse, CheckResponse,
       BuildResponse, Told, Errors, Warnings, Counts, Accepted, session, service, printed
<1>3. CASE UNCHANGED cliVars
  BY <1>2, <1>3 DEF cliVars, vars, loader, request
<1>4. CASE SomebodyEdits
  BY <1>2, <1>4 DEF SomebodyEdits, Edit, loader, request
<1>5. CASE EditBetween
  BY <1>2, <1>5 DEF EditBetween, loader, request
<1>6. CASE Invoke
  <2>1. /\ exit # Running /\ Len(log) < MaxCommands
        /\ command' \in Commands /\ raised' = None /\ written' = None
        /\ exit' = Running /\ UNCHANGED log
    BY <1>6 DEF Invoke
  <2> QED
    BY <1>1, <2>1 DEF CliTypeOK, Commanded
<1>7. CASE Validating
  <2>1. /\ pc \notin {"done", "raised"}
        /\ raised' = IF pc' = "raised" THEN Exception ELSE None
        /\ UNCHANGED <<command, written, printed>>
    BY <1>7 DEF Validating, Pipeline, FindOrgDirs, ReadFails, RefuseOrganization,
                LoadOrganization, LoadAssets, Allocate, AllocationFails, RunRules,
                AtConfig, Loaded
  <2>2. exit = Running
    BY <2>1, EndedPipeline
  <2>3. written = None
    BY <1>1, <2>1 DEF CliTypeOK, Accepted
  <2> QED
    BY <1>1, <2>1, <2>2, <2>3 DEF CliTypeOK, Commanded, Exception, printed
<1>8. CASE RenderAndWrite
  <2>1. /\ pc = "done" /\ ok /\ command.name = "build" /\ written = None
        /\ \/ written' = "all" /\ UNCHANGED raised
           \/ written' = "failed" /\ raised' = "OSError"
        /\ UNCHANGED <<pc, ok, command, printed>>
    BY <1>8 DEF RenderAndWrite, vars
  <2>2. exit = Running
    BY <1>1, <2>1 DEF Commanded, Shown, None
  <2> QED
    BY <1>1, <2>1, <2>2 DEF CliTypeOK, Commanded, Accepted, None, printed
<1>9. CASE Present
  <2>1. /\ exit = Running
        /\ \/ raised # None
           \/ pc = "done" /\ (command.name = "check" \/ ~ ok \/ written = "all")
        /\ UNCHANGED <<vars, service>>
    BY <1>9 DEF Present, Ended
  <2>2. PICK e : log' = Append(log, e) /\ e.exit = exit'
    BY <1>9 DEF Present
  <2>3. /\ exit' = Response.exit_code
        /\ stdout' = IF command.json THEN {Response} ELSE HumanOut(Response)
        /\ stderr' = IF command.json THEN {} ELSE HumanErr(Response)
    BY <1>9 DEF Present
  <2>4. exit' \in {0, 1}
    BY <2>3, ResponseCode
  <2>5. PICK T : log \in Seq(T)
    BY <1>1 DEF Commanded
  <2>6. Len(log) < MaxCommands /\ MaxCommands \in Nat
    BY <1>1, <2>1, CliAssumption DEF Commanded
  <2>7. /\ log \in Seq(T \cup {e}) /\ log' \in Seq(T \cup {e}) /\ Len(log') = Len(log) + 1
        /\ Len(log) \in Nat /\ log'[Len(log')] = e /\ log' # <<>>
    BY <2>2, <2>5
  <2>8. UNCHANGED Response
    BY <2>1 DEF vars, loader, request, service, Response, ErrorResponse, CheckResponse,
         BuildResponse, Told, Errors, Warnings, Counts
  <2>9. Shown'
    BY <2>1, <2>3, <2>8 DEF Shown, vars, service
  <2>10. CliTypeOK'
    BY <1>1, <2>1, <2>2, <2>4, <2>6, <2>7 DEF CliTypeOK, Accepted, vars, service
  <2>11. Commanded'
    BY <1>1, <2>1, <2>4, <2>7, <2>9 DEF Commanded, Running, vars, service
  <2> QED
    BY <2>10, <2>11
<1> QED
  BY <1>3, <1>4, <1>5, <1>6, <1>7, <1>8, <1>9 DEF CliNext

(* The invariant holds throughout a session.                               *)
THEOREM SessionInvariant == CliSpec => []CliInv
<1>1. CliInit => CliInv
  <2>1. Init => Started
    BY ValidateAssumption DEF Init, Started
  <2>2. CliInit => CliTypeOK
    BY CliAssumption DEF CliInit, CliTypeOK
  <2>3. CliInit => Commanded
    BY CliAssumption DEF CliInit, Commanded
  <2> QED
    BY <2>1, <2>2, <2>3, StartInv DEF CliInit, CliInv
<1>2. CliInv /\ [CliNext]_cliVars => CliInv'
  BY SessionPipelineStep, SessionTypeStep DEF CliInv
<1> QED
  BY <1>1, <1>2, PTL DEF CliSpec

(* The variables of a session keep their shape, and only a build whose     *)
(* model was accepted has written: CliTypeOK.                              *)
THEOREM SessionTypes == CliSpec => []CliTypeOK
<1>1. CliInv => CliTypeOK
  BY DEF CliInv
<1> QED
  BY <1>1, SessionInvariant, PTL

(* What exits with 0 has read everything, broken no rule and written all:  *)
(* ZeroMeansAllIsWell.                                                     *)
THEOREM ZeroIsWell == CliSpec => []ZeroMeansAllIsWell
<1>1. CliInv => ZeroMeansAllIsWell
  <2> SUFFICES ASSUME CliInv, exit = 0 PROVE ZeroMeansAllIsWell
    BY DEF ZeroMeansAllIsWell
  <2>1. Shown /\ IInv
    BY DEF CliInv, Commanded, Running
  <2>2. Response.exit_code = 0
    BY <2>1 DEF Shown
  <2>3. raised = None /\ ok
    BY <2>2 DEF Response, ErrorResponse, CheckResponse, BuildResponse
  <2>4. Accepted /\ (command.name = "check" \/ written = "all")
    BY <2>1, <2>3 DEF Shown, Accepted
  <2>5. /\ pos = Len(found) + 1 /\ Check(city, plan) = {}
        /\ \A issue \in issues : IsWarning(issue)
    BY <2>1, <2>4, AcceptedMeans
  <2>6. pc = "done" /\ found \in Seq(Dirs) /\ found # <<>>
    BY <2>1, <2>4 DEF IInv, TypeOK, Reading, Accepted
  <2>7. 1 .. FoldersRead = DOMAIN found
    BY <2>5, <2>6 DEF FoldersRead
  <2>8. \A i \in DOMAIN found : Declared(found[i]) /\ AllValid(read[found[i]])
    BY <2>1, <2>5, <2>7 DEF IInv, Whole
  <2>9. \A i \in DOMAIN found :
          Invalid \notin Range(read[found[i]].services) \cup Range(read[found[i]].links)
    BY <2>8 DEF AllValid, IsValid, Range
  <2>10. strict => Warnings = {}
    BY <2>1, <2>3, <2>6 DEF IInv, Computed, Accepts, Warnings
  <2>11. command.name = "build" => written = "all"
    BY <2>4
  <2> QED
    BY <2>5, <2>6, <2>8, <2>9, <2>10, <2>11 DEF ZeroMeansAllIsWell
<1> QED
  BY <1>1, SessionInvariant, PTL

(* A command that does not exit with 0 says why: RefusalIsExplained.       *)
THEOREM RefusalsAreExplained == CliSpec => []RefusalIsExplained
<1>1. CliInv => RefusalIsExplained
  <2> SUFFICES ASSUME CliInv, exit = 1 PROVE RefusalIsExplained
    BY DEF RefusalIsExplained
  <2>1. Shown /\ IInv
    BY DEF CliInv, Commanded, Running
  <2>2. CASE raised # None
    <3>1. Response = ErrorResponse
      BY <2>2 DEF Response
    <3>2. ~ Response.ok /\ "error" \in DOMAIN Response
      BY <3>1 DEF ErrorResponse
    <3> QED
      BY <2>1, <3>2 DEF Shown, HumanErr, RefusalIsExplained
  <2>3. CASE raised = None
    <3>1. Response.exit_code = 1 /\ pc = "done"
      BY <2>1, <2>3 DEF Shown
    <3>2. ~ ok /\ Response.ok = ok /\ Response.errors = Errors /\ Response.warnings = Warnings
          /\ "error" \notin DOMAIN Response
      BY <2>3, <3>1 DEF Response, CheckResponse, BuildResponse
    <3>3. \E issue \in issues \cup report : ~ IsWarning(issue) \/ strict
      BY <2>1, <3>1, <3>2 DEF IInv, Computed, Accepts
    <3>4. Errors # {} \/ (strict /\ Warnings # {})
      BY <3>3 DEF Errors, Warnings
    <3>5. CASE command.json
      BY <2>1, <3>2, <3>4, <3>5 DEF Shown, RefusalIsExplained
    <3>6. CASE ~ command.json
      <4>1. stderr = Errors /\ Warnings \subseteq stdout
        BY <2>1, <3>2, <3>6 DEF Shown, HumanErr, HumanOut
      <4> QED
        BY <3>4, <3>6, <4>1 DEF RefusalIsExplained
    <3> QED
      BY <3>5, <3>6
  <2> QED
    BY <2>2, <2>3
<1> QED
  BY <1>1, SessionInvariant, PTL

-----------------------------------------------------------------------------
(* One verdict on the same files, for every command.                       *)

(* The edits made when the command before the i-th ended: what command i   *)
(* began with, unless somebody edited in between.                          *)
StartOf(i) == IF i = 1 THEN 0 ELSE log[i - 1].edits

(* The same of the command that is running.                                *)
Base == StartOf(Len(log) + 1)

(* A logged command ended as a validation of the files as they are ends.   *)
Logged(e) ==
  e.raised # "OSError" =>
    \E outcome : /\ Ends(config, asset_dirs, e.strict, outcome, e.issues)
                 /\ e.exit = IF outcome = "ok" THEN 0 ELSE 1

(* What the log says of commands on the files as they are; as long as      *)
(* nobody has edited since this command began, its validation is steady.   *)
Foretelling ==
  /\ \A i \in DOMAIN log : log[i].edits \in 0 .. edits
  /\ \A i, j \in DOMAIN log : i <= j => log[i].edits <= log[j].edits
  /\ written = "failed" => raised = "OSError"
  /\ exit = Running /\ edits = Base => Steady
  /\ \A i \in DOMAIN log : edits = StartOf(i) => Logged(log[i])
  /\ CheckForetellsBuild

(* The log is a list, and edits are counted.                               *)
LEMMA LogList ==
  ASSUME CliInv
  PROVE  /\ Len(log) \in Nat /\ DOMAIN log = 1 .. Len(log)
         /\ edits \in Nat
BY DEF CliInv, Commanded, IInv, TypeOK

(* Edits that were made stay made: no command began later than it ended.   *)
LEMMA StartsInOrder ==
  ASSUME CliInv, Foretelling, NEW i \in 1 .. Len(log) + 1
  PROVE  /\ StartOf(i) \in 0 .. edits
         /\ i <= Len(log) => StartOf(i) <= log[i].edits
         /\ StartOf(i) <= Base
<1>1. Len(log) \in Nat /\ DOMAIN log = 1 .. Len(log) /\ edits \in Nat
  BY LogList
<1>2. /\ \A j \in 1 .. Len(log) : log[j].edits \in 0 .. edits
      /\ \A j, k \in 1 .. Len(log) : j <= k => log[j].edits <= log[k].edits
  BY <1>1 DEF Foretelling
<1>3. CASE i = 1
  <2>1. StartOf(i) = 0
    BY <1>3 DEF StartOf
  <2>2. Base \in 0 .. edits
    <3>1. Len(log) + 1 = 1 \/ Len(log) \in 1 .. Len(log)
      BY <1>1
    <3> QED
      BY <1>1, <1>2, <3>1 DEF Base, StartOf
  <2> QED
    BY <1>1, <1>2, <1>3, <2>1, <2>2
<1>4. CASE i # 1
  <2>1. /\ i - 1 \in 1 .. Len(log) /\ i - 1 <= Len(log) /\ Len(log) \in 1 .. Len(log)
        /\ StartOf(i) = log[i - 1].edits
    BY <1>1, <1>4 DEF StartOf
  <2>2. Base = log[Len(log)].edits
    BY <1>1, <2>1 DEF Base, StartOf
  <2>3. i <= Len(log) => i \in 1 .. Len(log) /\ i - 1 <= i
    BY <1>1, <1>4
  <2> QED
    BY <1>2, <2>1, <2>2, <2>3
<1> QED
  BY <1>3, <1>4

(* Whoever changes neither files nor log keeps what has been logged.       *)
LEMMA LoggedStays ==
  ASSUME Foretelling, UNCHANGED <<config, asset_dirs, edits, log>>
  PROVE  /\ \A i \in DOMAIN log' : log'[i].edits \in 0 .. edits'
         /\ \A i, j \in DOMAIN log' : i <= j => log'[i].edits <= log'[j].edits
         /\ \A i \in DOMAIN log' : edits' = StartOf(i)' => Logged(log[i])'
         /\ CheckForetellsBuild'
         /\ UNCHANGED Base
BY DEF Foretelling, StartOf, Base, Logged, CheckForetellsBuild, SameFiles

(* An edit leaves nothing to compare with.                                 *)
LEMMA EditedStays ==
  ASSUME CliInv, Foretelling, edits' = edits + 1, UNCHANGED <<log, written, raised>>
  PROVE  Foretelling'
<1>1. \A i \in 1 .. Len(log) + 1 : StartOf(i) \in 0 .. edits
  BY StartsInOrder
<1>2. Len(log) \in Nat /\ DOMAIN log = 1 .. Len(log) /\ edits \in Nat
  BY LogList
<1>3. \A i \in 1 .. Len(log) + 1 : StartOf(i)' = StartOf(i) /\ edits' # StartOf(i)
  BY <1>1, <1>2 DEF StartOf
<1>4. edits' # Base'
  BY <1>2, <1>3 DEF Base, StartOf
<1>5. \A i \in DOMAIN log' : edits' # StartOf(i)'
  BY <1>2, <1>3
<1>6. \A i \in DOMAIN log' : log'[i].edits \in 0 .. edits'
  BY <1>2 DEF Foretelling
<1>7. CheckForetellsBuild'
  BY DEF Foretelling, CheckForetellsBuild, SameFiles
<1> QED
  BY <1>4, <1>5, <1>6, <1>7 DEF Foretelling

(* The command that ends is logged as its validation ended.                *)
LEMMA LoggedAsEnded ==
  ASSUME CliInv, Foretelling, Ended, edits = Base,
         NEW e, e.strict = strict, e.raised = raised, e.exit = Response.exit_code,
         e.issues = Errors \cup Warnings
  PROVE  Logged(e)
<1> SUFFICES ASSUME raised # "OSError"
             PROVE  \E outcome : /\ Ends(config, asset_dirs, e.strict, outcome, e.issues)
                                 /\ e.exit = IF outcome = "ok" THEN 0 ELSE 1
  BY DEF Logged
<1>1. /\ Steady /\ runs = 1
      /\ raised # None => pc = "raised"
      /\ raised = None => pc = "done"
  BY OneRun DEF CliInv, Commanded, Foretelling, Ended
<1>2. Ends(config, asset_dirs, strict, Outcome, issues \cup report)
  BY <1>1 DEF Steady
<1>3. Errors \cup Warnings = issues \cup report
  BY DEF Errors, Warnings
<1>4. Response.exit_code = IF Outcome = "ok" THEN 0 ELSE 1
  BY <1>1 DEF Response, ErrorResponse, CheckResponse, BuildResponse, Outcome
<1> QED
  BY <1>2, <1>3, <1>4

(* The command that ends agrees with those before it on the same files.    *)
LEMMA ForetellingAtEnd == CliInv /\ Foretelling /\ Present => Foretelling'
<1> SUFFICES ASSUME CliInv, Foretelling, Present PROVE Foretelling'
  OBVIOUS
<1> DEFINE n == Len(log)
           e == [command |-> command, strict |-> strict, edits |-> edits, raised |-> raised,
                 exit |-> Response.exit_code, issues |-> Errors \cup Warnings]
<1>1. /\ Ended /\ log' = Append(log, e) /\ exit' = Response.exit_code
      /\ UNCHANGED <<vars, service>>
  BY DEF Present
<1>2. /\ e.strict = strict /\ e.raised = raised /\ e.exit = Response.exit_code
      /\ e.issues = Errors \cup Warnings /\ e.edits = edits
  OBVIOUS
<1>3. n \in Nat /\ DOMAIN log = 1 .. n /\ edits \in Nat
  BY LogList
<1> HIDE DEF e
<1>4. /\ DOMAIN log' = 1 .. n + 1 /\ log'[n + 1] = e
      /\ \A i \in 1 .. n : log'[i] = log[i]
  <2>1. PICK T : log \in Seq(T)
    BY DEF CliInv, Commanded
  <2>2. log \in Seq(T \cup {e}) /\ e \in T \cup {e}
    BY <2>1
  <2> QED
    BY <1>1, <2>2, AppendProperties
<1>5. /\ UNCHANGED <<config, asset_dirs, edits, written, raised>>
      /\ exit' # Running
  BY <1>1, ResponseCode DEF vars, disk, service, Running
<1>6. edits = Base => Logged(e)
  BY <1>1, <1>2, LoggedAsEnded
<1>7. \A i \in 1 .. n + 1 : StartOf(i)' = StartOf(i)
  <2>1. \A i \in 1 .. n + 1 : i = 1 \/ i - 1 \in 1 .. n
    BY <1>3
  <2> QED
    BY <1>4, <2>1 DEF StartOf
<1>8. \A i \in 1 .. n + 1 : i \in 1 .. n \/ i = n + 1
  BY <1>3
<1>9. \A i \in 1 .. n + 1 : edits = StartOf(i) => edits = Base
  <2>1. Base \in 0 .. edits
    BY <1>3, StartsInOrder DEF Base
  <2> QED
    BY <1>3, <2>1, StartsInOrder
<1>10. \A i \in 1 .. n + 1 : edits = StartOf(i) => Logged(log'[i])
  BY <1>3, <1>4, <1>6, <1>8, <1>9 DEF Foretelling
<1>11. \A i \in DOMAIN log' : log'[i].edits \in 0 .. edits'
  BY <1>2, <1>3, <1>4, <1>5, <1>8 DEF Foretelling
<1>12. \A i, j \in DOMAIN log' : i <= j => log'[i].edits <= log'[j].edits
  <2> SUFFICES ASSUME NEW i \in 1 .. n + 1, NEW j \in 1 .. n + 1, i <= j
               PROVE  log'[i].edits <= log'[j].edits
    BY <1>4
  <2>1. CASE j = n + 1
    BY <1>2, <1>3, <1>4, <1>5, <1>11, <2>1
  <2>2. CASE j \in 1 .. n
    <3>1. i \in 1 .. n
      BY <1>3, <2>2
    <3> QED
      BY <1>3, <1>4, <2>2, <3>1 DEF Foretelling
  <2> QED
    BY <1>8, <2>1, <2>2
<1>13. \A i \in DOMAIN log' : edits' = StartOf(i)' => Logged(log[i])'
  BY <1>4, <1>5, <1>7, <1>10 DEF Logged
<1>14. CheckForetellsBuild'
  <2> SUFFICES ASSUME NEW i \in 1 .. n + 1, NEW j \in 1 .. n + 1,
                      i < j, log'[j].edits = StartOf(i),
                      log'[i].strict = log'[j].strict,
                      "OSError" \notin {log'[i].raised, log'[j].raised}
               PROVE  log'[i].exit = log'[j].exit /\ log'[i].issues = log'[j].issues
    BY <1>4, <1>7 DEF CheckForetellsBuild, SameFiles, StartOf
  <2>1. CASE j = n + 1
    <3>1. edits = StartOf(i) /\ edits = Base
      BY <1>2, <1>4, <1>9, <2>1
    <3>2. edits = StartOf(j)
      BY <2>1, <3>1 DEF Base
    <3>3. Logged(log'[i]) /\ Logged(log'[j])
      BY <1>10, <3>1, <3>2
    <3> QED
      BY <3>3, OneEnd DEF Logged
  <2>2. CASE j \in 1 .. n
    <3>1. i \in 1 .. n
      BY <1>3, <2>2
    <3>2. log'[i] = log[i] /\ log'[j] = log[j]
      BY <1>4, <2>2, <3>1
    <3> QED
      BY <1>3, <2>2, <3>1, <3>2 DEF Foretelling, CheckForetellsBuild, SameFiles, StartOf
  <2> QED
    BY <1>8, <2>1, <2>2
<1> QED
  BY <1>5, <1>11, <1>12, <1>13, <1>14 DEF Foretelling

(* Every action of a session keeps this.                                   *)
LEMMA ForetellingStep == CliInv /\ Foretelling /\ [CliNext]_cliVars => Foretelling'
<1> SUFFICES ASSUME CliInv, Foretelling, [CliNext]_cliVars PROVE Foretelling'
  OBVIOUS
<1>1. IInv /\ CliTypeOK /\ Commanded /\ runs = 1
  BY OneRun DEF CliInv
<1>2. CASE UNCHANGED cliVars
  BY <1>2, LoggedStays DEF cliVars, vars, session, printed, service, disk, loader, request,
       Foretelling, Steady, FoldersRead, IssuesSoFar, Outcome
<1>3. CASE Invoke
  <2>1. /\ pc' = "find" /\ pos' = 1 /\ read' = EmptyDict /\ city' = EmptyCity
        /\ issues' = {} /\ report' = {} /\ written' = None
        /\ UNCHANGED <<config, asset_dirs, edits, log>>
    BY <1>3 DEF Invoke, disk
  <2>2. (pc = "find" /\ pos = 1 /\ read = EmptyDict /\ city = EmptyCity /\ report = {}
           /\ issues \subseteq IssuesUpTo(config, asset_dirs, Len(Folders(config)))
           /\ (runs = 1 => issues = {}) => Steady)'
    BY SteadyStart, PTL
  <2>3. Steady' /\ written' # "failed"
    BY <2>1, <2>2 DEF None
  <2> QED
    BY <2>1, <2>3, LoggedStays DEF Foretelling
<1>4. CASE Validating
  <2>1. Pipeline /\ UNCHANGED <<command, written, printed>>
    BY <1>4 DEF Validating
  <2>2. UNCHANGED <<disk, request>> /\ pc \notin {"done", "raised"}
    BY <2>1 DEF Pipeline, FindOrgDirs, ReadFails, RefuseOrganization, LoadOrganization,
                LoadAssets, Allocate, AllocationFails, RunRules, AtConfig, Loaded
  <2>3. exit = Running /\ written = None
    BY <1>1, <2>2, EndedPipeline DEF CliTypeOK, Accepted
  <2>4. edits = Base => Steady'
    BY <1>1, <2>1, <2>3, SteadyStep DEF Foretelling
  <2> QED
    BY <2>1, <2>2, <2>3, <2>4, LoggedStays DEF Foretelling, printed, disk, None
<1>5. CASE RenderAndWrite
  <2>1. /\ UNCHANGED <<vars, printed>>
        /\ written' = "failed" => raised' = "OSError"
    BY <1>5 DEF RenderAndWrite
  <2>2. Steady => Steady'
    BY <2>1 DEF vars, disk, loader, request, Steady, FoldersRead, IssuesSoFar, Outcome
  <2> QED
    BY <2>1, <2>2, LoggedStays DEF Foretelling, vars, disk, printed
<1>6. CASE Present
  BY <1>6, ForetellingAtEnd
<1>7. CASE SomebodyEdits \/ EditBetween
  <2>1. edits' = edits + 1 /\ UNCHANGED <<log, written, raised>>
    BY <1>7 DEF SomebodyEdits, Edit, EditBetween, session, service, printed
  <2> QED
    BY <2>1, EditedStays
<1> QED
  BY <1>2, <1>3, <1>4, <1>5, <1>6, <1>7 DEF CliNext

(* `check` foretells `build`, whatever the files hold, whatever either     *)
(* draws and however many commands lie between them: CheckForetellsBuild.  *)
THEOREM CheckTellsBuild == CliSpec => []CheckForetellsBuild
<1>1. CliInit => Foretelling
  <2> SUFFICES ASSUME CliInit PROVE Foretelling
    OBVIOUS
  <2>1. log = <<>> /\ written = None
    BY DEF CliInit
  <2>2. Steady
    BY SteadyStart DEF CliInit, Init
  <2>3. DOMAIN log = {}
    BY <2>1
  <2> QED
    BY <2>1, <2>2, <2>3 DEF Foretelling, CheckForetellsBuild, None
<1>2. CliInv /\ Foretelling /\ [CliNext]_cliVars => Foretelling'
  BY ForetellingStep
<1>3. Foretelling => CheckForetellsBuild
  BY DEF Foretelling
<1> QED
  BY <1>1, <1>2, <1>3, SessionInvariant, PTL DEF CliSpec

=============================================================================
