-------------------------------- MODULE Cli --------------------------------
(***************************************************************************)
(* The command line around the pipeline: a session of `check` and `build`  *)
(* commands on one repository, which may be edited in between and          *)
(* meanwhile.  A command makes a new loader, runs its service, turns the   *)
(* result or the exception into a response, prints it as JSON or as text   *)
(* and exits (controllers/, services/check.py, services/build.py).         *)
(*                                                                         *)
(* Rendering and writing are one step here, which succeeds or raises:      *)
(* BuildOutput has their steps.  The seed is any.                          *)
(***************************************************************************)
EXTENDS Validate

CONSTANT MaxCommands  \* bound on the commands of the session

ASSUME CliAssumption == MaxCommands \in Nat \ {0} /\ MaxRuns = 1

None == "none"

Running == -1  \* no exit code yet

VARIABLES
  command,  \* what was called: check or build, with --json or without
  raised,   \* the kind of the exception that left the use case
  written,  \* what became of rendering and writing
  exit,     \* the exit code
  stdout,   \* the lines printed, in any order
  stderr,
  log       \* history: the commands that have ended

service == <<command, raised, written>>
printed == <<exit, stdout, stderr, log>>
session == <<service, printed>>
cliVars == <<vars, session>>

Commands == [name : {"check", "build"}, json : BOOLEAN]

CliInit ==
  /\ Init
  /\ command \in Commands
  /\ raised = None /\ written = None
  /\ exit = Running /\ stdout = {} /\ stderr = {}
  /\ log = <<>>

(* Mutant: the next command gets the service of the last one.              *)
InvokeOnTheSameService ==
  /\ exit # Running
  /\ Len(log) < MaxCommands
  /\ command' \in Commands
  /\ strict' \in StrictModes
  /\ pc' = "find"
  /\ found' = <<>> /\ pos' = 1 /\ read' = EmptyDict
  /\ city' = EmptyCity
  /\ plan' = EmptyDict /\ report' = {} /\ ok' = FALSE
  /\ raised' = None
  /\ exit' = Running /\ stdout' = {} /\ stderr' = {}
  /\ UNCHANGED <<disk, runs, prior, issues, assets, written, log>>

(* The next command: handlers resolve a new service, with a new loader.    *)
Invoke ==
  /\ exit # Running
  /\ Len(log) < MaxCommands
  /\ command' \in Commands
  /\ strict' \in StrictModes
  /\ pc' = "find"
  /\ found' = <<>> /\ pos' = 1 /\ read' = EmptyDict
  /\ city' = EmptyCity /\ issues' = {} /\ assets' = {}
  /\ plan' = EmptyDict /\ report' = {} /\ ok' = FALSE
  /\ raised' = None /\ written' = None
  /\ exit' = Running /\ stdout' = {} /\ stderr' = {}
  /\ UNCHANGED <<disk, runs, prior, log>>

-----------------------------------------------------------------------------
(* The services.                                                           *)

(* load finds no folder, or a config.yml has gone since it did; the text   *)
(* cannot be decoded; the allocator has no more room.                      *)
Exception ==
  IF pc = "find" \/ (AtConfig /\ config[Here] = Absent) THEN "FileNotFoundError"
  ELSE IF AtConfig THEN "UnicodeDecodeError"
  ELSE "AllocationError"

Validating ==
  /\ Pipeline
  /\ raised' = IF pc' = "raised" THEN Exception ELSE None
  /\ UNCHANGED <<command, written, printed>>

(* BuildService.run renders and writes what was accepted.                  *)
RenderAndWrite ==
  /\ pc = "done"
  /\ ok
  /\ command.name = "build"
  /\ written = None
  /\ \/ written' = "all" /\ UNCHANGED raised
     \/ written' = "failed" /\ raised' = "OSError"
  /\ UNCHANGED <<vars, command, printed>>

(* The exceptions that a service makes an ApplicationError of; the message *)
(* of any other is its traceback.                                          *)
Told ==
  \/ command.name = "build"
  \/ raised \in {"FileNotFoundError", "AllocationError"}

-----------------------------------------------------------------------------
(* The responses.                                                          *)

(* Mutant: check stops at the first error, build does not.                 *)
FirstError ==
  LET all == {issue \in issues \cup report : ~ IsWarning(issue)}
  IN  IF command.name = "check" /\ all # {} THEN {CHOOSE issue \in all : TRUE} ELSE all

Errors   == {issue \in issues \cup report : ~ IsWarning(issue)}
Warnings == {issue \in issues \cup report : IsWarning(issue)}

Counts == [organizations |-> Len(city.organizations),
           services |-> Len(city.services), links |-> Len(city.links)]

ErrorResponse ==
  [ok |-> FALSE, exit_code |-> 1, error |-> IF Told THEN "message" ELSE "traceback"]

CheckResponse ==
  [ok |-> ok, exit_code |-> IF ok THEN 0 ELSE 1,
   errors |-> Errors, warnings |-> Warnings, counts |-> Counts]

(* from_build_result, of a build that has written or was skipped.          *)
BuildResponse ==
  [ok |-> ok, exit_code |-> IF ok THEN 0 ELSE 1,
   errors |-> Errors, warnings |-> Warnings, counts |-> Counts,
   rendered |-> ok, render_skipped |-> ~ ok]

(* Mutant: what left the use case as an exception ends in a clean exit.    *)
ResponseWithoutCode ==
  IF raised # None THEN [ErrorResponse EXCEPT !.exit_code = 0]
  ELSE IF command.name = "check" THEN CheckResponse ELSE BuildResponse

Response ==
  IF raised # None THEN ErrorResponse
  ELSE IF command.name = "check" THEN CheckResponse ELSE BuildResponse

Ended ==
  /\ exit = Running
  /\ \/ raised # None
     \/ pc = "done" /\ (command.name = "check" \/ ~ ok \/ written = "all")

(* _render_human; a line of a report is its issue.                         *)
HumanErr(r) == IF "error" \in DOMAIN r THEN {<<r.error>>} ELSE r.errors

(* Mutant: the warnings are left to --json.                                *)
HumanOutWithoutWarnings(r) ==
  IF "error" \in DOMAIN r THEN {}
  ELSE {<<"OK">>, <<"seed">>}
       \cup {<<line>> : line \in {l \in {"render_skipped", "rendered"} : l \in DOMAIN r /\ r[l]}}

HumanOut(r) ==
  IF "error" \in DOMAIN r THEN {}
  ELSE r.warnings \cup {<<"OK">>, <<"seed">>}
       \cup {<<line>> : line \in {l \in {"render_skipped", "rendered"} : l \in DOMAIN r /\ r[l]}}

(* _wrap_command presents the response and exits with its code.            *)
Present ==
  /\ Ended
  /\ LET r == Response
     IN  /\ stdout' = IF command.json THEN {r} ELSE HumanOut(r)
         /\ stderr' = IF command.json THEN {} ELSE HumanErr(r)
         /\ exit' = r.exit_code
         /\ log' = Append(log, [command |-> command, strict |-> strict, edits |-> edits,
                                raised |-> raised, exit |-> r.exit_code,
                                issues |-> Errors \cup Warnings])
  /\ UNCHANGED <<vars, service>>

SomebodyEdits == Edit /\ UNCHANGED session

(* Between two commands as well: Validate's Edit stops with the pipeline.  *)
EditBetween ==
  /\ exit # Running
  /\ Len(log) < MaxCommands
  /\ edits < MaxEdits
  /\ edits' = edits + 1
  /\ \E d \in Dirs : \E c \in Contents(d) : config' = [config EXCEPT ![d] = c]
  /\ UNCHANGED <<asset_dirs, request, pc, loader, plan, report, ok, session>>

CliNext ==
  Invoke \/ Validating \/ RenderAndWrite \/ Present \/ SomebodyEdits \/ EditBetween

CliSpec == CliInit /\ [][CliNext]_cliVars

-----------------------------------------------------------------------------
(* The session's variables keep their shape; only a build whose model was  *)
(* accepted has written, and a command logs the code it exits with.        *)
CliTypeOK ==
  /\ command \in Commands
  /\ raised \in {None, "FileNotFoundError", "UnicodeDecodeError", "AllocationError", "OSError"}
  /\ written \in {None, "all", "failed"}
  /\ exit \in {Running, 0, 1}
  /\ written # None => command.name = "build" /\ Accepted
  /\ Len(log) <= MaxCommands
  /\ exit # Running => log # <<>> /\ log[Len(log)].exit = exit

(* docs/specs/city_model.md: errors of reading, of the schema, of the      *)
(* rules and of writing end in a code that is not zero.  So what exits     *)
(* with 0 has read every config.yml it found, whole, dropped no item of    *)
(* any, broke no rule, wrote everything, and had no warning if strict.     *)
ZeroMeansAllIsWell ==
  exit = 0 =>
    /\ found # <<>>
    /\ \A i \in DOMAIN found :
         /\ Declared(found[i])
         /\ Invalid \notin Range(read[found[i]].services) \cup Range(read[found[i]].links)
    /\ Check(city, plan) = {}
    /\ strict => Warnings = {}
    /\ command.name = "build" => written = "all"

(* A command that does not exit with 0 says why where its caller looks:    *)
(* the JSON object holds an issue or an error; without --json an error is  *)
(* on stderr, or, when only --strict makes it one, a warning on stdout.    *)
RefusalIsExplained ==
  exit = 1 =>
    IF command.json
    THEN \E r \in stdout : /\ ~ r.ok
                           /\ "error" \in DOMAIN r \/ r.errors \cup r.warnings # {}
    ELSE stderr # {} \/ (strict /\ stdout \cap Warnings # {})

(* `check` foretells `build`: on the same files and with the same --strict *)
(* two commands find the same issues and exit with the same code, whatever *)
(* addresses either drew and in whichever order they run, unless a build   *)
(* fails to write.                                                         *)
SameFiles(i, j) ==
  /\ i < j
  /\ log[j].edits = IF i = 1 THEN 0 ELSE log[i - 1].edits

CheckForetellsBuild ==
  \A i, j \in DOMAIN log :
    /\ SameFiles(i, j)
    /\ log[i].strict = log[j].strict
    /\ "OSError" \notin {log[i].raised, log[j].raised}
    => /\ log[i].exit = log[j].exit
       /\ log[i].issues = log[j].issues

=============================================================================
