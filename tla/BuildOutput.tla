---------------------------- MODULE BuildOutput ----------------------------
(***************************************************************************)
(* `build` and its output directory (services/build.py, data/filesystem.py *)
(* and data/zip.py): a sequence of builds into one target, each of which   *)
(* validates, renders, cleans the target if asked to, writes the artifacts *)
(* one after another and bundles engine.zip.  A build may be killed, or an *)
(* I/O error may end it, between any two steps and in the middle of a      *)
(* write; what it leaves behind is what the next build finds.              *)
(*                                                                         *)
(* Validation is one step here, on the model as it stands: Validate has    *)
(* its steps.  The allocation seed is the same for all builds.             *)
(***************************************************************************)
EXTENDS CityModel

CONSTANTS
  Artifacts,   \* the names of the rendered artifacts, in the order of the dict
  Timed,       \* those whose text holds the time of rendering
  Verdict,     \* city model -> what validation makes of it
  Heads,       \* what git HEAD may hold as the network.json of the last build
  MaxBuilds,   \* bound on the builds that are started
  MaxEdits     \* bound on the changes of the city model

EngineZip == "engine.zip"

ASSUME BuildOutputAssumption ==
  /\ Artifacts \in Seq(STRING)
  /\ IsInjective(Artifacts)
  /\ EngineZip \notin Range(Artifacts)
  /\ Timed \subseteq Range(Artifacts)
  /\ Range(Verdict) \subseteq {"accepted", "refused", "raises"}
  /\ Heads \subseteq {"usable", "foreign"}
  /\ MaxBuilds \in Nat
  /\ MaxEdits \in Nat

Models == DOMAIN Verdict

None == "none"

(* What a name of the target holds: a text or an archive that was closed,  *)
(* the beginning of a text, cut between two characters or inside one, an   *)
(* archive without its directory, or a closed one that lacks members.      *)
Whole(texts) == [form |-> "whole", holds |-> texts]
Torn         == [form |-> "torn"]
Cut          == [form |-> "cut"]
Open         == [form |-> "open"]
Partial      == [form |-> "partial"]

VARIABLES
  source,     \* the city model under organizations/
  edits,      \* changes of it so far
  head,       \* "foreign": the network.json of HEAD is not one of today's schema
  files,      \* the target: name -> what it holds
  pc,         \* where the running build is
  builds,     \* builds started so far
  clean,      \* --clean
  model,      \* the model that was validated
  artifacts,  \* artifact -> rendered text
  pending,    \* clean_directory: entries still to be removed
  next,       \* write_artifacts: the artifact to be compared or written
  result,     \* what the last build returned
  disturbed,  \* history: the last build was killed or met an I/O error
  last        \* history: model and artifacts of the last build that returned ok,
              \* as long as no later build has rendered

input   == <<source, edits, head>>
request == <<builds, clean>>
history == <<disturbed, last>>
vars    == <<input, files, pc, request, model, artifacts, pending, next, result, history>>

Init ==
  /\ source \in Models /\ edits = 0 /\ head \in Heads
  /\ files = EmptyDict
  /\ pc = "idle"
  /\ builds = 0 /\ clean = FALSE
  /\ model = None /\ artifacts = EmptyDict
  /\ pending = {} /\ next = 1
  /\ result = None /\ disturbed = FALSE /\ last = EmptyDict

Edit ==
  /\ edits < MaxEdits
  /\ edits' = edits + 1
  /\ source' \in Models \ {source}
  /\ UNCHANGED <<head, files, pc, request, model, artifacts, pending, next, result, history>>

Start ==
  /\ pc = "idle"
  /\ builds < MaxBuilds
  /\ builds' = builds + 1
  /\ clean' \in BOOLEAN
  /\ pc' = "validate"
  /\ result' = None
  /\ disturbed' = FALSE
  /\ UNCHANGED <<input, files, model, artifacts, pending, next, last>>

-----------------------------------------------------------------------------
(* BuildService.run.                                                       *)

Return(reply) == pc' = "idle" /\ result' = reply

Validated(verdict) ==
  /\ pc = "validate"
  /\ Verdict[source] = verdict
  /\ model' = source

Accept ==
  /\ Validated("accepted")
  /\ pc' = "render"
  /\ UNCHANGED <<input, files, request, artifacts, pending, next, result, history>>

(* Mutant: a refused model is rendered all the same.                       *)
SkipNothing ==
  /\ Validated("refused")
  /\ pc' = "render"
  /\ UNCHANGED <<input, files, request, artifacts, pending, next, result, history>>

(* Mutant: --clean is obeyed before the verdict is.                        *)
SkipAfterClean ==
  /\ Validated("refused")
  /\ files' = IF clean THEN EmptyDict ELSE files
  /\ Return("skipped")
  /\ UNCHANGED <<input, request, artifacts, pending, next, history>>

Skip ==
  /\ Validated("refused")
  /\ Return("skipped")
  /\ UNCHANGED <<input, files, request, artifacts, pending, next, history>>

(* Nothing to load, an unreadable file, an AllocationError: run makes an   *)
(* ApplicationError of every exception.                                    *)
ValidationRaises ==
  /\ Validated("raises")
  /\ Return("failed")
  /\ UNCHANGED <<input, files, request, artifacts, pending, next, history>>

(* The text of an artifact is a function of the model and, where           *)
(* generated_at is part of it, of the clock: here the number of the build. *)
Text(a) == [of |-> model, at |-> IF a \in Timed THEN builds ELSE 0]

(* Mutant: the artifacts with a time in them are forgotten.                *)
RenderUntimed ==
  /\ pc = "render"
  /\ head # "foreign"
  /\ artifacts' = [a \in Range(Artifacts) \ Timed |-> Text(a)]
  /\ next' = 1
  /\ last' = EmptyDict
  /\ pc' = IF clean THEN "list" ELSE "write"
  /\ UNCHANGED <<input, files, request, model, pending, result, disturbed>>

Render ==
  /\ pc = "render"
  /\ head # "foreign"
  /\ artifacts' = [a \in Range(Artifacts) |-> Text(a)]
  /\ next' = 1
  /\ last' = EmptyDict
  /\ pc' = IF clean THEN "list" ELSE "write"
  /\ UNCHANGED <<input, files, request, model, pending, result, disturbed>>

(* _build_changes parses the network.json of HEAD with today's schema.     *)
RenderFails ==
  /\ pc = "render"
  /\ head = "foreign"
  /\ Return("failed")
  /\ UNCHANGED <<input, files, request, model, artifacts, pending, next, history>>

-----------------------------------------------------------------------------
(* FileSystemGateway.clean_directory: the entries as iterdir lists them.   *)

ListEntries ==
  /\ pc = "list"
  /\ pending' = DOMAIN files
  /\ pc' = "clean"
  /\ UNCHANGED <<input, files, request, model, artifacts, next, result, history>>

Without(f, name) == Restrict(f, DOMAIN f \ {name})

(* Mutant: artifacts stay, to keep their mtime.                            *)
RemoveOther ==
  /\ pc = "clean"
  /\ \E name \in pending :
       /\ files' = IF name \in Range(Artifacts) THEN files ELSE Without(files, name)
       /\ pending' = pending \ {name}
  /\ UNCHANGED <<input, pc, request, model, artifacts, next, result, history>>

(* Mutant: the listing starts again after each entry.                      *)
RemoveAndRelist ==
  /\ pc = "clean"
  /\ \E name \in pending :
       /\ files' = Without(files, name)
       /\ pending' = pending
  /\ UNCHANGED <<input, pc, request, model, artifacts, next, result, history>>

RemoveEntry ==
  /\ pc = "clean"
  /\ \E name \in pending :
       /\ files' = Without(files, name)
       /\ pending' = pending \ {name}
  /\ UNCHANGED <<input, pc, request, model, artifacts, next, result, history>>

Cleaned ==
  /\ pc = "clean"
  /\ pending = {}
  /\ pc' = "write"
  /\ UNCHANGED <<input, files, request, model, artifacts, pending, next, result, history>>

-----------------------------------------------------------------------------
(* FileSystemGateway.write_artifacts.                                      *)

Artifact == Artifacts[next]

AtArtifact == pc = "write" /\ next <= Len(Artifacts)

Finds(content) == Artifact \in DOMAIN files /\ files[Artifact] = content

(* Mutant: an artifact that is there already is taken for current.         *)
KeepExisting ==
  /\ AtArtifact
  /\ Artifact \in DOMAIN files
  /\ ~ Finds(Cut)
  /\ next' = next + 1
  /\ UNCHANGED <<input, files, pc, request, model, artifacts, pending, result, history>>

(* The text is the one on disk: the file, and its mtime, stay.             *)
KeepArtifact ==
  /\ AtArtifact
  /\ Finds(Whole(artifacts[Artifact]))
  /\ next' = next + 1
  /\ UNCHANGED <<input, files, pc, request, model, artifacts, pending, result, history>>

(* read_text cannot decode what is on disk: UnicodeDecodeError.            *)
ComparisonFails ==
  /\ AtArtifact
  /\ Finds(Cut)
  /\ Return("failed")
  /\ UNCHANGED <<input, files, request, model, artifacts, pending, next, history>>

(* write_text truncates the file ...                                       *)
OpenArtifact ==
  /\ AtArtifact
  /\ ~ Finds(Cut)
  /\ ~ Finds(Whole(artifacts[Artifact]))
  /\ files' = Assigned(files, Artifact, Torn)
  /\ pc' = "writing"
  /\ UNCHANGED <<input, request, model, artifacts, pending, next, result, history>>

(* ... and fills it.                                                       *)
CloseArtifact ==
  /\ pc = "writing"
  /\ files' = Assigned(files, Artifact, Whole(artifacts[Artifact]))
  /\ next' = next + 1
  /\ pc' = "write"
  /\ UNCHANGED <<input, request, model, artifacts, pending, result, history>>

-----------------------------------------------------------------------------
(* EngineZipWriter.bundle: the members are the rendered texts, not the     *)
(* files of the target.                                                    *)

OpenZip ==
  /\ pc = "write"
  /\ next > Len(Artifacts)
  /\ files' = Assigned(files, EngineZip, Open)
  /\ pc' = "zipping"
  /\ UNCHANGED <<input, request, model, artifacts, pending, next, result, history>>

CloseZip ==
  /\ pc = "zipping"
  /\ files' = Assigned(files, EngineZip, Whole(artifacts))
  /\ Return("ok")
  /\ last' = [of |-> model, texts |-> artifacts]
  /\ UNCHANGED <<input, request, model, artifacts, pending, next, disturbed>>

(* A service asset cannot be read: the exception leaves the with block,    *)
(* which closes the archive, without the members that were to follow.      *)
AssetFails ==
  /\ pc = "zipping"
  /\ files' = Assigned(files, EngineZip, Partial)
  /\ disturbed' = TRUE
  /\ Return("failed")
  /\ UNCHANGED <<input, request, model, artifacts, pending, next, last>>

-----------------------------------------------------------------------------
(* The process is killed, or an I/O error (a full disk, an entry that      *)
(* cannot be removed) ends the build ...                                   *)
Interrupted ==
  /\ pc \notin {"idle", "writing"}
  /\ disturbed' = TRUE
  /\ Return("failed")
  /\ UNCHANGED <<input, files, request, model, artifacts, pending, next, last>>

(* ... in the middle of a write: the text stays as far as it got.          *)
WriteInterrupted ==
  /\ pc = "writing"
  /\ \E rest \in {Torn, Cut, Whole(artifacts[Artifact])} :
       files' = Assigned(files, Artifact, rest)
  /\ disturbed' = TRUE
  /\ Return("failed")
  /\ UNCHANGED <<input, request, model, artifacts, pending, next, last>>

Step ==
  \/ Accept \/ Skip \/ ValidationRaises
  \/ Render \/ RenderFails
  \/ ListEntries \/ RemoveEntry \/ Cleaned
  \/ KeepArtifact \/ ComparisonFails \/ OpenArtifact \/ CloseArtifact
  \/ OpenZip \/ CloseZip

Next ==
  \/ Start \/ Step \/ Edit
  \/ AssetFails \/ Interrupted \/ WriteInterrupted

(* A build that has been started runs on.                                  *)
Spec == Init /\ [][Next]_vars /\ WF_vars(Step)

-----------------------------------------------------------------------------
Names == Range(Artifacts) \cup {EngineZip}

(* Every variable keeps its shape; a build that writes has rendered every  *)
(* artifact, and only the entries it is removing are pending.              *)
TypeOK ==
  /\ source \in Models
  /\ edits \in 0 .. MaxEdits
  /\ head \in Heads
  /\ DOMAIN files \subseteq Names
  /\ pc \in {"idle", "validate", "render", "list", "clean", "write", "writing", "zipping"}
  /\ builds \in 0 .. MaxBuilds
  /\ clean \in BOOLEAN
  /\ model \in Models \cup {None}
  /\ pc \in {"list", "clean", "write", "writing", "zipping"} => DOMAIN artifacts = Range(Artifacts)
  /\ pc = "clean" => pending \subseteq DOMAIN files
  /\ next \in 1 .. Len(Artifacts) + 1
  /\ result \in {None, "ok", "skipped", "failed"}

(* The target is the work of one build: every artifact is there, whole, in *)
(* that build's text, and engine.zip has the same texts in it.             *)
WorkOf(texts) ==
  /\ \A a \in Range(Artifacts) : a \in DOMAIN files /\ files[a] = Whole(texts[a])
  /\ EngineZip \in DOMAIN files /\ files[EngineZip] = Whole(texts)

(* A build that returns ok has replaced whatever torn, cut or outdated     *)
(* files the earlier builds left, also those that it did not clean away;   *)
(* the artifacts and engine.zip agree.                                     *)
CompleteWhenOk == result = "ok" => WorkOf(last.texts)

(* It stays so: builds that are skipped, fail or are killed before they    *)
(* have rendered do not cost the last good output, with --clean neither.   *)
GoodOutputKept == last # EmptyDict => WorkOf(last.texts)

(* docs/specs/city_model.md: a model that is not correct does not get into *)
(* the build.  Whatever is on disk, of whichever build, killed or not,     *)
(* comes from a model that the checks accepted.                            *)
OnlyAcceptedModels ==
  \A name \in DOMAIN files \cap Range(Artifacts) :
    files[name].form = "whole" => Verdict[files[name].holds.of] = "accepted"

(* The way out of every broken output directory: whatever the target       *)
(* holds, with --clean an accepted model fails to build only if this very  *)
(* build is disturbed, or for what HEAD holds.                             *)
CleanBuildRecovers ==
  result = "failed" /\ clean /\ ~ disturbed =>
    Verdict[model] # "accepted" \/ head = "foreign"

(* A build that was started ends, whatever it finds in the target.         *)
EveryBuildEnds == pc # "idle" ~> pc = "idle"

(* docs/specs/city_model.md: after a successful check, `build` makes the   *)
(* artifacts: an accepted model fails to build only if this very build is  *)
(* disturbed.                                                              *)
BuildFollowsCheck ==
  result = "failed" /\ ~ disturbed => Verdict[model] # "accepted"

(* docs/ARCHITECTURE.md: --clean removes the output directory before       *)
(* rendering.                                                              *)
CleanBeforeRender == pc = "render" /\ clean => files = EmptyDict

-----------------------------------------------------------------------------
(* Why: the inductive invariant of BuildOutputProofs.                      *)

Writing == {"write", "writing", "zipping"}

Rendered == Writing \cup {"list", "clean"}

(* A running build has returned nothing yet, and past the check its model  *)
(* is an accepted one, from which the artifacts were rendered.             *)
ControlInv ==
  /\ pc # "idle" => result = None
  /\ pc \in Rendered \cup {"render"} => model \in Models /\ Verdict[model] = "accepted"
  /\ pc \in Rendered => /\ artifacts = [a \in Range(Artifacts) |-> Text(a)]
                        /\ last = EmptyDict
  /\ pc \in {"list", "clean"} => next = 1
  /\ pc = "writing" => next <= Len(Artifacts)
  /\ pc = "zipping" => next = Len(Artifacts) + 1

(* The artifacts before the cursor are written.                            *)
WrittenInv ==
  pc \in Writing =>
    \A i \in 1 .. next - 1 :
      /\ Artifacts[i] \in DOMAIN files
      /\ files[Artifacts[i]] = Whole(artifacts[Artifacts[i]])

(* Cleaning removes everything, and what is written afterwards can be read.*)
CleanInv ==
  /\ pc = "clean" => pending = DOMAIN files
  /\ pc \in Writing /\ clean =>
       \A name \in DOMAIN files : files[name] # Cut

IInv ==
  /\ TypeOK /\ ControlInv /\ WrittenInv /\ CleanInv
  /\ CompleteWhenOk /\ GoodOutputKept
  /\ OnlyAcceptedModels /\ CleanBuildRecovers

=============================================================================
