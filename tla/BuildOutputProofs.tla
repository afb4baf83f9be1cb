-------------------------- MODULE BuildOutputProofs --------------------------
(***************************************************************************)
(* Proofs about BuildOutput for every value of its constants, so for any   *)
(* number of artifacts, models and builds: an ok build leaves a complete   *)
(* output, which stays complete until a later build has rendered, nothing  *)
(* of a refused model is on disk, --clean always recovers, and no build    *)
(* goes on for ever.                                                       *)
(***************************************************************************)
EXTENDS BuildOutput, FiniteSetTheorems, TLAPS

(* The artifacts are listed once each, and engine.zip is none of them.     *)
LEMMA ArtifactNames ==
  /\ Len(Artifacts) \in Nat
  /\ \A i \in 1 .. Len(Artifacts) : Artifacts[i] \in Range(Artifacts)
  /\ \A i, j \in 1 .. Len(Artifacts) : Artifacts[i] = Artifacts[j] => i = j
  /\ \A a \in Range(Artifacts) : \E i \in 1 .. Len(Artifacts) : a = Artifacts[i]
  /\ EngineZip \notin Range(Artifacts)
BY BuildOutputAssumption DEF Range, IsInjective

(* The forms a file can have are told apart.                               *)
LEMMA Forms ==
  ASSUME NEW t
  PROVE  /\ Whole(t).form = "whole" /\ Whole(t).holds = t
         /\ Torn.form # "whole" /\ Cut.form # "whole"
         /\ Whole(t) # Cut /\ Torn # Cut /\ Open # Cut /\ Partial # Cut
BY DEF Whole, Torn, Cut, Open, Partial

(* The invariant holds of an empty target before the first build.          *)
LEMMA InitInv == Init => IInv
<1> SUFFICES ASSUME Init PROVE IInv
  OBVIOUS
<1>1. TypeOK
  <2>1. DOMAIN files = {}
    BY DEF Init, EmptyDict
  <2>2. /\ edits \in 0 .. MaxEdits
        /\ builds \in 0 .. MaxBuilds
        /\ next \in 1 .. Len(Artifacts) + 1
    BY ArtifactNames, BuildOutputAssumption DEF Init
  <2>3. /\ source \in Models /\ head \in Heads /\ model = None /\ result = None
        /\ pc = "idle" /\ clean \in BOOLEAN
    BY DEF Init
  <2> QED BY <2>1, <2>2, <2>3 DEF TypeOK
<1>2. ControlInv /\ WrittenInv /\ CleanInv
  BY DEF Init, ControlInv, WrittenInv, CleanInv, Rendered, Writing
<1>3. CompleteWhenOk /\ GoodOutputKept /\ OnlyAcceptedModels /\ CleanBuildRecovers
  BY DEF Init, CompleteWhenOk, GoodOutputKept, OnlyAcceptedModels, CleanBuildRecovers,
         EmptyDict, None
<1> QED BY <1>1, <1>2, <1>3 DEF IInv

-----------------------------------------------------------------------------
(* Every step keeps the invariant.                                         *)
LEMMA NextInv == IInv /\ [Next]_vars => IInv'
<1> SUFFICES ASSUME IInv, [Next]_vars PROVE IInv'
  OBVIOUS
<1> USE DEF IInv, TypeOK, ControlInv, WrittenInv, CleanInv, CompleteWhenOk, GoodOutputKept,
            OnlyAcceptedModels, CleanBuildRecovers, Rendered, Writing,
            vars, input, request, history, Models, None
<1>1. CASE Start
  BY <1>1, BuildOutputAssumption DEF Start, WorkOf, Text
<1>2. CASE Edit
  <2>1. /\ source' \in Models
        /\ edits' \in 0 .. MaxEdits
        /\ UNCHANGED <<head, files, pc, request, model, artifacts, pending, next, result, history>>
    BY <1>2, BuildOutputAssumption DEF Edit
  <2>2. TypeOK' /\ ControlInv'
    BY <2>1 DEF Text
  <2>3. WrittenInv' /\ CleanInv' /\ CompleteWhenOk' /\ GoodOutputKept'
    BY <2>1 DEF WorkOf
  <2> QED BY <2>1, <2>2, <2>3
<1>3. CASE Accept
  BY <1>3 DEF Accept, Validated, WorkOf, Text
<1>4. CASE Skip
  BY <1>4 DEF Skip, Validated, Return, WorkOf, Text
<1>5. CASE ValidationRaises
  BY <1>5 DEF ValidationRaises, Validated, Return, WorkOf, Text
<1>6. CASE Render
  BY <1>6, ArtifactNames DEF Render, WorkOf, Text
<1>7. CASE RenderFails
  BY <1>7 DEF RenderFails, Return, WorkOf, Text
<1>8. CASE ListEntries
  BY <1>8 DEF ListEntries, WorkOf, Text
<1>9. CASE RemoveEntry
  <2>1. PICK name \in pending : /\ files' = Without(files, name)
                                /\ pending' = pending \ {name}
    BY <1>9 DEF RemoveEntry
  <2>2. /\ DOMAIN files' = DOMAIN files \ {name}
        /\ \A x \in DOMAIN files' : files'[x] = files[x]
    BY <2>1 DEF Without, Restrict
  <2> QED BY <1>9, <2>1, <2>2 DEF RemoveEntry, Text
<1>10. CASE Cleaned
  BY <1>10 DEF Cleaned, WorkOf, Text
<1>11. CASE KeepArtifact
  BY <1>11, ArtifactNames DEF KeepArtifact, AtArtifact, Artifact, Finds, WorkOf, Text
<1>12. CASE ComparisonFails
  <2>1. ~ clean
    BY <1>12 DEF ComparisonFails, AtArtifact, Finds
  <2> QED BY <1>12, <2>1 DEF ComparisonFails, AtArtifact, Return
<1>13. CASE OpenArtifact
  <2>1. next \in 1 .. Len(Artifacts) /\ pc' = "writing"
    BY <1>13, ArtifactNames DEF OpenArtifact, AtArtifact
  <2>2. /\ DOMAIN files' = DOMAIN files \cup {Artifacts[next]}
        /\ files'[Artifacts[next]] = Torn
        /\ \A x \in DOMAIN files : x # Artifacts[next] => files'[x] = files[x]
    BY <1>13 DEF OpenArtifact, Artifact, Assigned
  <2>3. WrittenInv'
    BY <1>13, <2>1, <2>2, ArtifactNames DEF OpenArtifact, AtArtifact
  <2>4. CleanInv' /\ OnlyAcceptedModels'
    BY <1>13, <2>1, <2>2, Forms DEF OpenArtifact, AtArtifact
  <2> QED BY <1>13, <2>1, <2>2, <2>3, <2>4, ArtifactNames DEF OpenArtifact, AtArtifact, Names, Text
<1>14. CASE CloseArtifact
  <2>1. /\ next \in 1 .. Len(Artifacts)
        /\ next' = next + 1
        /\ pc' = "write"
        /\ Artifacts[next] \in Range(Artifacts)
    BY <1>14, ArtifactNames DEF CloseArtifact
  <2>2. /\ DOMAIN files' = DOMAIN files \cup {Artifacts[next]}
        /\ files'[Artifacts[next]] = Whole(artifacts[Artifacts[next]])
        /\ \A x \in DOMAIN files : x # Artifacts[next] => files'[x] = files[x]
    BY <1>14 DEF CloseArtifact, Artifact, Assigned
  <2>3. WrittenInv'
    BY <1>14, <2>1, <2>2, ArtifactNames DEF CloseArtifact
  <2>4. CleanInv'
    BY <1>14, <2>1, <2>2, Forms DEF CloseArtifact
  <2>5. OnlyAcceptedModels'
    <3>1. artifacts[Artifacts[next]].of = model
      BY <1>14, <2>1 DEF CloseArtifact, Text
    <3> QED BY <1>14, <2>1, <2>2, <3>1, Forms DEF CloseArtifact
  <2> QED BY <1>14, <2>1, <2>2, <2>3, <2>4, <2>5, ArtifactNames DEF CloseArtifact, Names, Text
<1>15. CASE OpenZip
  <2>1. next = Len(Artifacts) + 1
    BY <1>15, ArtifactNames DEF OpenZip
  <2>2. /\ DOMAIN files' = DOMAIN files \cup {EngineZip}
        /\ files'[EngineZip] = Open
        /\ \A x \in DOMAIN files : x # EngineZip => files'[x] = files[x]
    BY <1>15 DEF OpenZip, Assigned
  <2>3. WrittenInv'
    BY <1>15, <2>1, <2>2, ArtifactNames DEF OpenZip
  <2> QED BY <1>15, <2>1, <2>2, <2>3, ArtifactNames, Forms DEF OpenZip, Names, Text
<1>16. CASE CloseZip
  <2>1. /\ DOMAIN files' = DOMAIN files \cup {EngineZip}
        /\ files'[EngineZip] = Whole(artifacts)
        /\ \A x \in DOMAIN files : x # EngineZip => files'[x] = files[x]
    BY <1>16 DEF CloseZip, Assigned
  <2>2. /\ pc' = "idle" /\ result' = "ok"
        /\ last' = [of |-> model, texts |-> artifacts]
    BY <1>16 DEF CloseZip, Return
  <2>3. WorkOf(last.texts)'
    <3>1. \A a \in Range(Artifacts) : a \in DOMAIN files /\ files[a] = Whole(artifacts[a])
      BY <1>16, ArtifactNames DEF CloseZip
    <3> QED BY <2>1, <2>2, <3>1, ArtifactNames DEF WorkOf
  <2>4. OnlyAcceptedModels'
    BY <1>16, <2>1, ArtifactNames DEF CloseZip
  <2> QED BY <1>16, <2>1, <2>2, <2>3, <2>4 DEF CloseZip, Names
<1>17. CASE AssetFails
  BY <1>17, ArtifactNames DEF AssetFails, Return, Names, WorkOf, Text, Assigned, Partial, Cut
<1>18. CASE Interrupted
  BY <1>18 DEF Interrupted, Return, WorkOf, Text
<1>19. CASE WriteInterrupted
  <2>1. PICK rest \in {Torn, Cut, Whole(artifacts[Artifact])} :
          files' = Assigned(files, Artifact, rest)
    BY <1>19 DEF WriteInterrupted
  <2>2. Artifact \in Range(Artifacts) /\ artifacts[Artifact].of = model
    BY <1>19, ArtifactNames DEF WriteInterrupted, Artifact, Text
  <2>3. /\ DOMAIN files' = DOMAIN files \cup {Artifact}
        /\ files'[Artifact] = rest
        /\ \A x \in DOMAIN files : x # Artifact => files'[x] = files[x]
    BY <2>1 DEF Assigned
  <2>4. rest.form = "whole" => rest.holds.of = model
    BY <2>2, Forms
  <2>5. OnlyAcceptedModels'
    BY <1>19, <2>2, <2>3, <2>4 DEF WriteInterrupted
  <2> QED BY <1>19, <2>2, <2>3, <2>5 DEF WriteInterrupted, Return, Names
<1>20. CASE UNCHANGED vars
  BY <1>20 DEF WorkOf, Text
<1> QED BY <1>1, <1>2, <1>3, <1>4, <1>5, <1>6, <1>7, <1>8, <1>9, <1>10, <1>11, <1>12, <1>13, <1>14, <1>15, <1>16, <1>17, <1>18, <1>19, <1>20
       DEF Next, Step

-----------------------------------------------------------------------------
(* The inductive invariant holds of every reachable state.                 *)
THEOREM Invariant == Spec => []IInv
BY InitInv, NextInv, PTL DEF Spec

(* Every variable keeps its shape (run, write_artifacts, bundle).          *)
THEOREM TypeCorrect == Spec => []TypeOK
<1>1. IInv => TypeOK
  BY DEF IInv
<1> QED BY <1>1, Invariant, PTL

(* A build that returns ok has replaced all that earlier builds left:      *)
(* write_artifacts compares texts and not names, bundle starts anew.       *)
THEOREM OkMeansComplete == Spec => []CompleteWhenOk
<1>1. IInv => CompleteWhenOk
  BY DEF IInv
<1> QED BY <1>1, Invariant, PTL

(* Builds that end before they have rendered do not touch the output:      *)
(* clean_directory is only called by _write.                               *)
THEOREM GoodOutputSafe == Spec => []GoodOutputKept
<1>1. IInv => GoodOutputKept
  BY DEF IInv
<1> QED BY <1>1, Invariant, PTL

(* Nothing in the output comes from a model that the checks refused (run). *)
THEOREM NothingRefused == Spec => []OnlyAcceptedModels
<1>1. IInv => OnlyAcceptedModels
  BY DEF IInv
<1> QED BY <1>1, Invariant, PTL

(* With --clean the leftovers of killed builds cannot make a build fail    *)
(* (clean_directory, write_artifacts).                                     *)
THEOREM CleanRecovers == Spec => []CleanBuildRecovers
<1>1. IInv => CleanBuildRecovers
  BY DEF IInv
<1> QED BY <1>1, Invariant, PTL

-----------------------------------------------------------------------------
(* A build cannot go on for ever.                                          *)

ToWrite == Len(Artifacts) + 1 - next

(* A bound on the steps that the running build has before it: two for each *)
(* artifact to be written, one for each entry to be removed.               *)
StepsLeft ==
  CASE pc = "idle"     -> 0
    [] pc = "zipping"  -> 1
    [] pc = "writing"  -> 2 * ToWrite + 1
    [] pc = "write"    -> 2 * ToWrite + 2
    [] pc = "clean"    -> Cardinality(pending) + 2 * ToWrite + 3
    [] pc = "list"     -> Cardinality(DOMAIN files) + 2 * ToWrite + 4
    [] pc = "render"   -> 3 * Len(Artifacts) + 6
    [] pc = "validate" -> 3 * Len(Artifacts) + 7

(* There are no more entries than artifacts, besides engine.zip.           *)
LEMMA NamesFinite ==
  ASSUME NEW A, A \subseteq Names
  PROVE  IsFiniteSet(A) /\ Cardinality(A) \in 0 .. Len(Artifacts) + 1
<1>1. Artifacts \in Surjection(1 .. Len(Artifacts), Range(Artifacts))
  BY BuildOutputAssumption DEF Surjection, Range
<1>2. Len(Artifacts) \in Nat
  BY ArtifactNames
<1>3. IsFiniteSet(1 .. Len(Artifacts)) /\ Cardinality(1 .. Len(Artifacts)) = Len(Artifacts)
  BY <1>2, FS_Interval
<1>4. /\ IsFiniteSet(Range(Artifacts))
      /\ Cardinality(Range(Artifacts)) <= Len(Artifacts)
      /\ Cardinality(Range(Artifacts)) \in Nat
  BY <1>1, <1>3, FS_Surjection, FS_CardinalityType
<1>5. IsFiniteSet(Names) /\ Cardinality(Names) <= Len(Artifacts) + 1
  <2>1. /\ IsFiniteSet(Range(Artifacts) \cup {EngineZip})
        /\ Cardinality(Range(Artifacts) \cup {EngineZip}) = Cardinality(Range(Artifacts)) + 1
    BY <1>4, ArtifactNames, FS_AddElement
  <2> QED
    BY <1>2, <1>4, <2>1 DEF Names
<1>6. IsFiniteSet(A) /\ Cardinality(A) <= Cardinality(Names)
  BY <1>5, FS_Subset
<1>7. Cardinality(A) \in Nat /\ Cardinality(Names) \in Nat
  BY <1>5, <1>6, FS_CardinalityType
<1> QED
  BY <1>2, <1>5, <1>6, <1>7

(* It is a number, and 0 only when no build is running.                    *)
LEMMA StepsLeftType ==
  ASSUME IInv
  PROVE  StepsLeft \in Nat /\ (StepsLeft = 0 <=> pc = "idle")
<1>1. /\ pc \in {"idle", "validate", "render", "list", "clean", "write", "writing", "zipping"}
      /\ next \in 1 .. Len(Artifacts) + 1
  BY DEF IInv, TypeOK
<1>2. /\ Cardinality(DOMAIN files) \in Nat
      /\ pc = "clean" => Cardinality(pending) \in Nat
  BY NamesFinite DEF IInv, TypeOK
<1>3. Len(Artifacts) \in Nat /\ ToWrite \in Nat
  BY <1>1, ArtifactNames DEF ToWrite
<1> QED
  BY <1>1, <1>2, <1>3 DEF StepsLeft

(* What a step of a running build does: it brings the end nearer, unless   *)
(* it is somebody else's, who edits the city model.                        *)
Nearer == StepsLeft' < StepsLeft \/ (edits' = edits + 1 /\ StepsLeft' = StepsLeft)

(* Every build ends, killed or not, after at most as many steps of its own *)
(* as StepsLeft says: the loops of clean_directory and write_artifacts go  *)
(* through lists that are made before, and run and bundle have none.       *)
THEOREM BuildsRunDown ==
  Spec => /\ [](StepsLeft \in Nat /\ (StepsLeft = 0 <=> pc = "idle"))
          /\ [][pc # "idle" => Nearer]_vars
<1>1. IInv => StepsLeft \in Nat /\ (StepsLeft = 0 <=> pc = "idle")
  BY StepsLeftType
<1>2. ASSUME IInv, IInv', Next, pc # "idle"
      PROVE  Nearer
  <2>1. /\ Len(Artifacts) \in Nat
        /\ next \in 1 .. Len(Artifacts) + 1 /\ next' \in 1 .. Len(Artifacts) + 1
        /\ pc \in {"list", "clean"} => next = 1
        /\ pc = "zipping" => next = Len(Artifacts) + 1
    BY <1>2, ArtifactNames DEF IInv, TypeOK, ControlInv
  <2>2. /\ IsFiniteSet(DOMAIN files)
        /\ Cardinality(DOMAIN files) \in 0 .. Len(Artifacts) + 1
        /\ pc = "clean" => /\ IsFiniteSet(pending)
                           /\ Cardinality(pending) \in 0 .. Len(Artifacts) + 1
    BY <1>2, NamesFinite DEF IInv, TypeOK
  <2>3. CASE Start
    BY <1>2, <2>3 DEF Start
  <2>4. CASE Edit
    BY <2>4 DEF Edit, Nearer, StepsLeft, ToWrite
  <2>5. CASE \/ Skip \/ ValidationRaises \/ RenderFails \/ ComparisonFails \/ CloseZip
             \/ AssetFails \/ Interrupted \/ WriteInterrupted
    <3>1. pc' = "idle"
      BY <2>5 DEF Skip, ValidationRaises, RenderFails, ComparisonFails, CloseZip,
         AssetFails, Interrupted, WriteInterrupted, Return
    <3>2. StepsLeft' = 0 /\ StepsLeft \in Nat \ {0}
      BY <1>2, <3>1, StepsLeftType DEF StepsLeft
    <3> QED
      BY <3>2 DEF Nearer
  <2>6. CASE Accept
    BY <2>1, <2>6 DEF Accept, Validated, Nearer, StepsLeft
  <2>7. CASE Render
    BY <2>1, <2>2, <2>7 DEF Render, Nearer, StepsLeft, ToWrite
  <2>8. CASE ListEntries
    BY <2>1, <2>2, <2>8 DEF ListEntries, Nearer, StepsLeft, ToWrite
  <2>9. CASE RemoveEntry
    <3>1. PICK name \in pending : pending' = pending \ {name}
      BY <2>9 DEF RemoveEntry
    <3>2. pc = "clean" /\ pc' = "clean" /\ next' = next
      BY <2>9 DEF RemoveEntry
    <3>3. Cardinality(pending') = Cardinality(pending) - 1
      BY <2>2, <3>1, <3>2, FS_RemoveElement
    <3> QED
      BY <2>1, <2>2, <3>2, <3>3 DEF Nearer, StepsLeft, ToWrite
  <2>10. CASE Cleaned
    BY <2>1, <2>2, <2>10 DEF Cleaned, Nearer, StepsLeft, ToWrite
  <2>11. CASE KeepArtifact \/ CloseArtifact
    BY <2>1, <2>11 DEF KeepArtifact, CloseArtifact, AtArtifact, Nearer, StepsLeft, ToWrite
  <2>12. CASE OpenArtifact
    BY <2>1, <2>12 DEF OpenArtifact, AtArtifact, Nearer, StepsLeft, ToWrite
  <2>13. CASE OpenZip
    BY <2>1, <2>13 DEF OpenZip, Nearer, StepsLeft, ToWrite
  <2> QED
    BY <1>2, <2>3, <2>4, <2>5, <2>6, <2>7, <2>8, <2>9, <2>10, <2>11, <2>12, <2>13
    DEF Next, Step
<1>3. IInv /\ IInv' /\ [Next]_vars => [pc # "idle" => Nearer]_vars
  BY <1>2
<1> QED
  BY <1>1, <1>3, Invariant, PTL DEF Spec

=============================================================================
