------------------------- MODULE AssetBundleProofs -------------------------
(***************************************************************************)
(* That the archive of a build is true to the asset folders, for any       *)
(* services and files and however they are edited meanwhile, and that the  *)
(* number of steps that a build takes is bounded.                          *)
(***************************************************************************)
EXTENDS AssetBundle, FiniteSetTheorems, TLAPS

(* At the start of a build nothing is counted and the archive is an        *)
(* earlier one.                                                            *)
LEMMA InitInv == Init => IInv
<1> SUFFICES ASSUME Init PROVE IInv
  OBVIOUS
<1>1. DOMAIN counts = {}
  BY DEF Init
<1>2. TypeOK
  <2>1. /\ tree \subseteq Places \cap (dirs \X Entries)
        /\ members \subseteq Services \X Files
        /\ dirs \subseteq Services
    BY AssetBundleAssumption DEF Init
  <2>2. /\ pc = "load" /\ service_assets = {} /\ left = Services /\ listing = {}
        /\ ahead = {} /\ archive = "earlier"
    BY DEF Init
  <2> QED  BY <1>1, <2>1, <2>2 DEF TypeOK, Bundling
<1>3. HistoryInv /\ MembersWereThere
  BY <1>2 DEF Init, HistoryInv, MembersWereThere, AllFiles, TypeOK
<1>4. CountsInv
  BY <1>1 DEF Init, CountsInv
<1>5. ArchiveInv /\ FolderInv
  BY DEF Init, ArchiveInv, FolderInv, Bundling
<1> QED  BY <1>2, <1>3, <1>4, <1>5 DEF IInv

LEMMA FindFolderStep == ASSUME IInv, NEW s \in Services, FindFolder(s) PROVE IInv'
<1> USE DEF FindFolder, AllFiles, disk, walk, output, history
<1>1. TypeOK'
  BY DEF IInv, TypeOK, Bundling
<1>2. HistoryInv'
  BY DEF IInv, HistoryInv, TypeOK
<1>3. CountsInv'
  BY DEF IInv, CountsInv, Counted, Changed, Passed, In
<1>4. ArchiveInv'
  BY DEF IInv, ArchiveInv, Bundled, Bundling
<1>5. FolderInv'
  BY DEF IInv, FolderInv, TypeOK, ArchiveInv, Bundling
<1>6. MembersWereThere'
  BY DEF IInv, MembersWereThere
<1> QED  BY <1>1, <1>2, <1>3, <1>4, <1>5, <1>6 DEF IInv

LEMMA LoadedStep == ASSUME IInv, Loaded PROVE IInv'
<1> USE DEF Loaded, AllFiles, disk, walk, output, history
<1>1. TypeOK'
  BY DEF IInv, TypeOK, Bundling
<1>2. HistoryInv'
  BY DEF IInv, HistoryInv, TypeOK
<1>3. CountsInv'
  BY DEF IInv, CountsInv, Counted, Changed, Passed, In
<1>4. ArchiveInv'
  BY DEF IInv, ArchiveInv, Bundled, Bundling
<1>5. FolderInv'
  BY DEF IInv, FolderInv, TypeOK, ArchiveInv, Bundling
<1>6. MembersWereThere'
  BY DEF IInv, MembersWereThere
<1> QED  BY <1>1, <1>2, <1>3, <1>4, <1>5, <1>6 DEF IInv

LEMMA BeginCountStep == ASSUME IInv, NEW s \in Services, BeginCount(s) PROVE IInv'
<1> USE DEF BeginCount, AllFiles, disk, walk, output, history
<1>1. TypeOK'
  BY DEF IInv, TypeOK, Bundling, With, MayBeIn
<1>2. HistoryInv'
  BY DEF IInv, HistoryInv
<1>3. CountsInv'
  <2>1. /\ s \notin DOMAIN counts /\ DOMAIN counts' = DOMAIN counts \cup {s}
        /\ counts'[s] = 0 /\ \A x \in DOMAIN counts : counts'[x] = counts[x]
    BY DEF IInv, TypeOK, With
  <2>2. Counted(s) = {} /\ Cardinality({}) = 0
    BY <2>1, FS_EmptySet DEF IInv, CountsInv, Counted
  <2>3. \A e : e \in In(s) => e \in MayBeIn(s)
    BY DEF IInv, TypeOK, In, MayBeIn
  <2>4. \A x : Counted(x)' = Counted(x) /\ Changed(x)' = Changed(x) /\ In(x)' = In(x)
    BY DEF Counted, Changed, In
  <2>5. /\ pc' = "count" /\ asset' = s /\ ahead' = MayBeIn(s) /\ pc = "render"
        /\ counted' = counted
    OBVIOUS
  <2> QED  BY <2>1, <2>2, <2>3, <2>4, <2>5 DEF IInv, CountsInv, Passed
<1>4. ArchiveInv'
  BY DEF IInv, ArchiveInv, Bundled, Bundling
<1>5. FolderInv'
  BY DEF IInv, FolderInv, ArchiveInv, Bundling
<1>6. MembersWereThere'
  BY DEF IInv, MembersWereThere
<1> QED  BY <1>1, <1>2, <1>3, <1>4, <1>5, <1>6 DEF IInv

(* A set of files has one element more with one that it did not have.      *)
LEMMA OneMore ==
  ASSUME NEW A \in SUBSET Files, NEW e \in Files, e \notin A
  PROVE  Cardinality(A \cup {e}) = Cardinality(A) + 1
<1>1. IsFiniteSet(A)
  BY AssetBundleAssumption, FS_Subset DEF Entries
<1> QED  BY <1>1, FS_AddElement

LEMMA CountEntryStep == ASSUME IInv, NEW e \in Entries, CountEntry(e) PROVE IInv'
<1> USE DEF CountEntry, AllFiles, disk, walk, output, history
<1>0. /\ asset \in DOMAIN counts /\ asset \in service_assets \ left
      /\ DOMAIN counts' = DOMAIN counts
      /\ \A x \in DOMAIN counts \ {asset} : counts'[x] = counts[x]
      /\ counts'[asset] = counts[asset] + Cardinality({e} \cap FilesIn(asset))
  BY DEF IInv, TypeOK
<1>1. TypeOK'
  BY <1>0 DEF IInv, TypeOK, Bundling
<1>2. HistoryInv'
  BY DEF IInv, HistoryInv
<1>3. CountsInv'
  <2>1. /\ \A x : x # asset => Counted(x)' = Counted(x)
        /\ Counted(asset)' = Counted(asset) \cup ({e} \cap FilesIn(asset))
        /\ \A x : Changed(x)' = Changed(x) /\ In(x)' = In(x)
    BY DEF Counted, Changed, In, FilesIn
  <2>2. counted' \subseteq (DOMAIN counts') \X Files
    BY <1>0 DEF IInv, CountsInv, FilesIn
  <2>3. /\ pc = "count" /\ pc' = "count" /\ asset' = asset /\ e \in ahead
        /\ ahead' = ahead \ {e}
    OBVIOUS
  <2>4. counts'[asset] = Cardinality(Counted(asset)')
    <3>1. counts[asset] = Cardinality(Counted(asset))
      BY <1>0 DEF IInv, CountsInv
    <3>2. IsFiniteSet(Counted(asset)) /\ Cardinality(Counted(asset)) \in Nat
      BY AssetBundleAssumption, FS_Subset, FS_CardinalityType DEF Entries, Counted
    <3>3. CASE e \in FilesIn(asset)
      <4>1. e \in Files /\ {e} \cap FilesIn(asset) = {e}
        BY <3>3 DEF FilesIn
      <4>2. e \notin Counted(asset)
        BY <1>0, <2>3, <4>1 DEF IInv, CountsInv, Passed
      <4>3. Cardinality(Counted(asset) \cup {e}) = Cardinality(Counted(asset)) + 1
        BY <4>1, <4>2, OneMore DEF Counted
      <4>4. Cardinality({e}) = 1
        BY FS_Singleton
      <4> QED  BY <1>0, <2>1, <3>1, <4>1, <4>3, <4>4
    <3>4. CASE e \notin FilesIn(asset)
      <4>1. {e} \cap FilesIn(asset) = {} /\ Cardinality({}) = 0
        BY <3>4, FS_EmptySet
      <4> QED  BY <1>0, <2>1, <3>1, <3>2, <4>1
    <3> QED  BY <3>3, <3>4
  <2>5. \A x \in DOMAIN counts' : counts'[x] = Cardinality(Counted(x)')
    BY <1>0, <2>1, <2>4 DEF IInv, CountsInv
  <2>6. ASSUME NEW x \in DOMAIN counts, NEW f \in Files
        PROVE  IF ~ Passed(x, f)' THEN f \notin Counted(x)'
               ELSE f \notin Changed(x)' => (f \in Counted(x)' <=> f \in In(x)')
    BY <2>1, <2>3, <2>6 DEF IInv, CountsInv, Passed, FilesIn
  <2> QED  BY <1>0, <2>2, <2>3, <2>5, <2>6 DEF CountsInv
<1>4. ArchiveInv'
  BY DEF IInv, ArchiveInv, Bundled, Bundling
<1>5. FolderInv'
  BY DEF IInv, FolderInv, ArchiveInv, Bundling
<1>6. MembersWereThere'
  BY DEF IInv, MembersWereThere
<1> QED  BY <1>1, <1>2, <1>3, <1>4, <1>5, <1>6 DEF IInv

LEMMA EndCountStep == ASSUME IInv, EndCount PROVE IInv'
<1> USE DEF EndCount, AllFiles, disk, walk, output, history
<1>1. TypeOK'
  BY DEF IInv, TypeOK, Bundling
<1>2. HistoryInv'
  BY DEF IInv, HistoryInv
<1>3. CountsInv'
  BY DEF IInv, CountsInv, Counted, Changed, Passed, In
<1>4. ArchiveInv'
  BY DEF IInv, ArchiveInv, Bundled, Bundling
<1>5. FolderInv'
  BY DEF IInv, FolderInv, TypeOK, ArchiveInv, Bundling
<1>6. MembersWereThere'
  BY DEF IInv, MembersWereThere
<1> QED  BY <1>1, <1>2, <1>3, <1>4, <1>5, <1>6 DEF IInv

LEMMA OpenArchiveStep == ASSUME IInv, OpenArchive PROVE IInv'
<1> USE DEF OpenArchive, AllFiles, disk, walk, output, history
<1>1. TypeOK'
  BY DEF IInv, TypeOK, Bundling
<1>2. HistoryInv'
  BY DEF IInv, HistoryInv
<1>3. CountsInv'
  BY DEF IInv, CountsInv, Counted, Changed, Passed, In
<1>4. ArchiveInv'
  BY DEF IInv, ArchiveInv, Bundled, Bundling
<1>5. FolderInv'
  BY DEF IInv, FolderInv, TypeOK, ToBundle, Bundled, Changed, Passed, In, ArchiveInv, Bundling
<1>6. MembersWereThere'
  BY DEF IInv, MembersWereThere
<1> QED  BY <1>1, <1>2, <1>3, <1>4, <1>5, <1>6 DEF IInv

LEMMA BeginListingStep == ASSUME IInv, NEW s \in Services, BeginListing(s) PROVE IInv'
<1> USE DEF BeginListing, AllFiles, disk, walk, output, history
<1>1. TypeOK'
  BY DEF IInv, TypeOK, Bundling, MayBeIn
<1>2. HistoryInv'
  BY DEF IInv, HistoryInv
<1>3. CountsInv'
  BY DEF IInv, CountsInv, Counted, Changed, Passed, In
<1>4. ArchiveInv'
  BY DEF IInv, ArchiveInv, Bundled, Bundling, TypeOK
<1>5. FolderInv'
  <2>1. /\ pc = "next" /\ pc' = "list" /\ asset' = s /\ ahead' = MayBeIn(s)
        /\ s \in left /\ left' = left \ {s} /\ listing' = {} /\ listing = {}
        /\ UNCHANGED <<service_assets, members, tree, changed, kept>>
    BY DEF IInv, ArchiveInv
  <2>2. ASSUME NEW e \in Files
        PROVE  IF ~ Passed(s, e)' THEN e \notin ToBundle(s)'
               ELSE /\ e \notin Changed(s)' => (e \in ToBundle(s)' <=> e \in In(s)')
                    /\ <<s, e>> \in kept' => e \in ToBundle(s)'
    <3>1. Bundled(s) = {} /\ Bundled(s)' = {}
      BY <2>1 DEF IInv, ArchiveInv, Bundled, Bundling
    <3>2. ToBundle(s)' = {}
      BY <2>1, <3>1 DEF ToBundle
    <3>3. e \notin MayBeIn(s) => e \notin In(s)' /\ <<s, e>> \notin kept'
      BY <2>1 DEF IInv, TypeOK, HistoryInv, MayBeIn, In, Entries
    <3>4. Passed(s, e)' <=> e \notin MayBeIn(s)
      BY <2>1 DEF Passed
    <3> QED  BY <3>2, <3>3, <3>4
  <2>3. ASSUME NEW x \in service_assets \ left, NEW e \in Files, x # s
        PROVE  IF ~ Passed(x, e)' THEN e \notin ToBundle(x)'
               ELSE /\ e \notin Changed(x)' => (e \in ToBundle(x)' <=> e \in In(x)')
                    /\ <<x, e>> \in kept' => e \in ToBundle(x)'
    <3>1. Passed(x, e) /\ Passed(x, e)'
      BY <2>1, <2>3 DEF Passed
    <3>2. ToBundle(x)' = ToBundle(x)
      BY <2>1, <2>3 DEF ToBundle, Bundled
    <3>3. Changed(x)' = Changed(x) /\ In(x)' = In(x)
      BY <2>1 DEF Changed, In
    <3>4. /\ e \notin Changed(x) => (e \in ToBundle(x) <=> e \in In(x))
          /\ <<x, e>> \in kept => e \in ToBundle(x)
      BY <2>1, <3>1 DEF IInv, FolderInv, Bundling
    <3> QED  BY <2>1, <3>1, <3>2, <3>3, <3>4
  <2> QED  BY <2>1, <2>2, <2>3 DEF FolderInv
<1>6. MembersWereThere'
  BY DEF IInv, MembersWereThere
<1> QED  BY <1>1, <1>2, <1>3, <1>4, <1>5, <1>6 DEF IInv

LEMMA ListEntryStep == ASSUME IInv, NEW e \in Entries, ListEntry(e) PROVE IInv'
<1> USE DEF ListEntry, AllFiles, disk, walk, output, history
<1>1. TypeOK'
  BY DEF IInv, TypeOK, Bundling
<1>2. HistoryInv'
  BY DEF IInv, HistoryInv
<1>3. CountsInv'
  BY DEF IInv, CountsInv, Counted, Changed, Passed, In
<1>4. ArchiveInv'
  BY DEF IInv, ArchiveInv, Bundled, Bundling
<1>5. FolderInv'
  BY DEF IInv, FolderInv, TypeOK, ToBundle, Bundled, Changed, Passed, In, ArchiveInv, Bundling, HistoryInv
<1>6. MembersWereThere'
  BY DEF IInv, MembersWereThere
<1> QED  BY <1>1, <1>2, <1>3, <1>4, <1>5, <1>6 DEF IInv

LEMMA EndListingStep == ASSUME IInv, EndListing PROVE IInv'
<1> USE DEF EndListing, AllFiles, disk, walk, output, history
<1>1. TypeOK'
  BY DEF IInv, TypeOK, Bundling
<1>2. HistoryInv'
  BY DEF IInv, HistoryInv
<1>3. CountsInv'
  BY DEF IInv, CountsInv, Counted, Changed, Passed, In
<1>4. ArchiveInv'
  BY DEF IInv, ArchiveInv, Bundled, Bundling
<1>5. FolderInv'
  BY DEF IInv, FolderInv, TypeOK, ToBundle, Bundled, Changed, Passed, In, ArchiveInv, Bundling
<1>6. MembersWereThere'
  BY DEF IInv, MembersWereThere
<1> QED  BY <1>1, <1>2, <1>3, <1>4, <1>5, <1>6 DEF IInv

LEMMA SkipEntryStep == ASSUME IInv, NEW e \in Entries, SkipEntry(e) PROVE IInv'
<1> USE DEF SkipEntry, AllFiles, disk, walk, output, history
<1>1. TypeOK'
  BY DEF IInv, TypeOK, Bundling
<1>2. HistoryInv'
  BY DEF IInv, HistoryInv
<1>3. CountsInv'
  BY DEF IInv, CountsInv, Counted, Changed, Passed, In
<1>4. ArchiveInv'
  BY DEF IInv, ArchiveInv, Bundled, Bundling
<1>5. FolderInv'
  BY DEF IInv, FolderInv, TypeOK, ToBundle, Bundled, Changed, Passed, In, ArchiveInv, Bundling, FilesIn, HistoryInv
<1>6. MembersWereThere'
  BY DEF IInv, MembersWereThere
<1> QED  BY <1>1, <1>2, <1>3, <1>4, <1>5, <1>6 DEF IInv

LEMMA TakeEntryStep == ASSUME IInv, NEW e \in Entries, TakeEntry(e) PROVE IInv'
<1> USE DEF TakeEntry, AllFiles, disk, walk, output, history
<1>1. TypeOK'
  BY DEF IInv, TypeOK, Bundling, FilesIn
<1>2. HistoryInv'
  BY DEF IInv, HistoryInv
<1>3. CountsInv'
  BY DEF IInv, CountsInv, Counted, Changed, Passed, In
<1>4. ArchiveInv'
  BY DEF IInv, ArchiveInv, Bundled, Bundling
<1>5. FolderInv'
  BY DEF IInv, FolderInv, TypeOK, ToBundle, Bundled, Changed, Passed, In, ArchiveInv, Bundling, FilesIn
<1>6. MembersWereThere'
  BY DEF IInv, MembersWereThere
<1> QED  BY <1>1, <1>2, <1>3, <1>4, <1>5, <1>6 DEF IInv

LEMMA WriteMemberStep == ASSUME IInv, WriteMember PROVE IInv'
<1> USE DEF WriteMember, AllFiles, disk, walk, output, history
<1>1. TypeOK'
  BY DEF IInv, TypeOK, Bundling
<1>2. HistoryInv'
  BY DEF IInv, HistoryInv
<1>3. CountsInv'
  BY DEF IInv, CountsInv, Counted, Changed, Passed, In
<1>4. ArchiveInv'
  BY DEF IInv, ArchiveInv, Bundled, Bundling, TypeOK
<1>5. FolderInv'
  BY DEF IInv, FolderInv, TypeOK, ToBundle, Bundled, Changed, Passed, In, ArchiveInv, Bundling
<1>6. MembersWereThere'
  BY DEF IInv, MembersWereThere, HistoryInv, TypeOK, In
<1> QED  BY <1>1, <1>2, <1>3, <1>4, <1>5, <1>6 DEF IInv

LEMMA WriteFailsStep == ASSUME IInv, WriteFails PROVE IInv'
<1> USE DEF WriteFails, AllFiles, disk, walk, output, history
<1>1. TypeOK'
  BY DEF IInv, TypeOK, Bundling
<1>2. HistoryInv'
  BY DEF IInv, HistoryInv
<1>3. CountsInv'
  BY DEF IInv, CountsInv, Counted, Changed, Passed, In
<1>4. ArchiveInv'
  BY DEF IInv, ArchiveInv, Bundled, Bundling
<1>5. FolderInv'
  BY DEF IInv, FolderInv, TypeOK, ToBundle, Bundled, Changed, Passed, In, ArchiveInv, Bundling
<1>6. MembersWereThere'
  BY DEF IInv, MembersWereThere, ArchiveInv, Bundling
<1> QED  BY <1>1, <1>2, <1>3, <1>4, <1>5, <1>6 DEF IInv

LEMMA NextAssetStep == ASSUME IInv, NextAsset PROVE IInv'
<1> USE DEF NextAsset, AllFiles, disk, walk, output, history
<1>1. TypeOK'
  BY DEF IInv, TypeOK, Bundling
<1>2. HistoryInv'
  BY DEF IInv, HistoryInv
<1>3. CountsInv'
  BY DEF IInv, CountsInv, Counted, Changed, Passed, In
<1>4. ArchiveInv'
  BY DEF IInv, ArchiveInv, Bundled, Bundling
<1>5. FolderInv'
  BY DEF IInv, FolderInv, TypeOK, ToBundle, Bundled, Changed, Passed, In, ArchiveInv, Bundling
<1>6. MembersWereThere'
  BY DEF IInv, MembersWereThere
<1> QED  BY <1>1, <1>2, <1>3, <1>4, <1>5, <1>6 DEF IInv

LEMMA CloseArchiveStep == ASSUME IInv, CloseArchive PROVE IInv'
<1> USE DEF CloseArchive, AllFiles, disk, walk, output, history
<1>1. TypeOK'
  BY DEF IInv, TypeOK, Bundling
<1>2. HistoryInv'
  BY DEF IInv, HistoryInv
<1>3. CountsInv'
  BY DEF IInv, CountsInv, Counted, Changed, Passed, In
<1>4. ArchiveInv'
  BY DEF IInv, ArchiveInv, Bundled, Bundling
<1>5. FolderInv'
  BY DEF IInv, FolderInv, TypeOK, ToBundle, Bundled, Changed, Passed, In, ArchiveInv, Bundling
<1>6. MembersWereThere'
  BY DEF IInv, MembersWereThere, ArchiveInv, Bundling
<1> QED  BY <1>1, <1>2, <1>3, <1>4, <1>5, <1>6 DEF IInv

LEMMA EditStep == ASSUME IInv, NEW s \in Services, Edit(s) PROVE IInv'
<1>1. /\ dirs' \subseteq Services
      /\ tree' \subseteq Places \cap (dirs' \X Entries)
  <2>0. dirs \subseteq Services /\ tree \subseteq Places \cap (dirs \X Entries)
    BY DEF IInv, TypeOK
  <2>1. CASE s \notin dirs /\ dirs' = dirs \cup {s} /\ tree' = tree
    BY <2>0, <2>1
  <2>2. CASE s \in dirs /\ In(s) = {} /\ dirs' = dirs \ {s} /\ tree' = tree
    BY <2>0, <2>2 DEF In
  <2>3. CASE s \in dirs /\ (\E e \in MayBeIn(s) : Toggle(s, e)) /\ dirs' = dirs
    BY <2>0, <2>3 DEF MayBeIn, Toggle
  <2> QED  BY <2>1, <2>2, <2>3 DEF Edit
<1>2. /\ pc' = pc /\ service_assets' = service_assets /\ left' = left /\ asset' = asset
      /\ ahead' = ahead /\ listing' = listing /\ entry' = entry /\ counts' = counts
      /\ members' = members /\ archive' = archive /\ counted' = counted
      /\ seen' = seen \cup AllFiles' /\ kept' = kept \cap AllFiles'
  BY DEF Edit, walk, output
<1>3. TypeOK'
  BY <1>1, <1>2 DEF IInv, TypeOK, Bundling
<1>4. HistoryInv' /\ MembersWereThere'
  BY <1>2 DEF IInv, HistoryInv, MembersWereThere
<1>5. ASSUME NEW x \in DOMAIN counts, NEW e \in Files
      PROVE  /\ Changed(x) \subseteq Changed(x)'
             /\ e \notin Changed(x)' => (e \in In(x)' <=> e \in In(x))
  <2>1. changed' = changed \cup {y \in (AllFiles \ AllFiles') \cup (AllFiles' \ AllFiles) :
                                   y[1] \in DOMAIN counts}
    BY DEF Edit
  <2>2. Changed(x) \subseteq Changed(x)'
    BY <2>1 DEF Changed
  <2>3. /\ e \in In(x) <=> <<x, e>> \in AllFiles
        /\ e \in In(x)' <=> <<x, e>> \in AllFiles'
    BY DEF In, AllFiles, Entries
  <2>4. <<x, e>>[1] = x
    OBVIOUS
  <2>5. e \notin Changed(x)' => <<x, e>> \notin changed'
    BY DEF Changed
  <2> HIDE DEF AllFiles
  <2> QED  BY <2>1, <2>2, <2>3, <2>4, <2>5
<1>6. CountsInv'
  BY <1>2, <1>5 DEF IInv, CountsInv, Counted, Passed
<1>7. ArchiveInv'
  BY <1>2 DEF IInv, ArchiveInv, Bundled, Bundling
<1>8. FolderInv'
  <2>1. \A x : ToBundle(x)' = ToBundle(x)
    BY <1>2 DEF ToBundle, Bundled
  <2>2. pc \in Bundling \/ archive = "closed" => DOMAIN counts = service_assets
    BY DEF IInv, TypeOK, ArchiveInv, Bundling
  <2> QED  BY <1>2, <1>5, <2>1, <2>2 DEF IInv, FolderInv, Bundling, Passed
<1> QED  BY <1>3, <1>4, <1>6, <1>7, <1>8 DEF IInv

(* The inductive invariant holds in every state of a build.                *)
THEOREM Invariant == Spec => []IInv
<1>1. Init => IInv
  BY InitInv
<1>2. IInv /\ [Next]_vars => IInv'
  <2> SUFFICES ASSUME IInv, [Next]_vars PROVE IInv'
    OBVIOUS
  <2>1. CASE Loaded  BY <2>1, LoadedStep
  <2>2. CASE EndCount  BY <2>2, EndCountStep
  <2>3. CASE OpenArchive  BY <2>3, OpenArchiveStep
  <2>4. CASE EndListing  BY <2>4, EndListingStep
  <2>5. CASE WriteMember  BY <2>5, WriteMemberStep
  <2>6. CASE WriteFails  BY <2>6, WriteFailsStep
  <2>7. CASE NextAsset  BY <2>7, NextAssetStep
  <2>8. CASE CloseArchive  BY <2>8, CloseArchiveStep
  <2>9. CASE \E s \in Services : FindFolder(s) \/ BeginCount(s) \/ BeginListing(s)
    BY <2>9, FindFolderStep, BeginCountStep, BeginListingStep
  <2>10. CASE \E e \in Entries : CountEntry(e) \/ ListEntry(e) \/ SkipEntry(e) \/ TakeEntry(e)
    BY <2>10, CountEntryStep, ListEntryStep, SkipEntryStep, TakeEntryStep
  <2>11. CASE \E s \in Services : Edit(s)
    BY <2>11, EditStep
  <2>12. CASE UNCHANGED vars
    BY <2>12 DEF vars, disk, walk, output, history, IInv, TypeOK, HistoryInv, CountsInv,
       ArchiveInv, FolderInv, MembersWereThere, Bundled, Counted, Changed, Passed, ToBundle,
       AllFiles, In
  <2> QED
    BY <2>1, <2>2, <2>3, <2>4, <2>5, <2>6, <2>7, <2>8, <2>9, <2>10, <2>11, <2>12
       DEF Next, Step
<1> QED  BY <1>1, <1>2, PTL DEF Spec

(* Every variable keeps its shape, however the folders are edited; each    *)
(* folder the loader found is counted before any is bundled.               *)
THEOREM TypeCorrect == Spec => []TypeOK
<1>1. IInv => TypeOK
  BY DEF IInv
<1> QED  BY <1>1, Invariant, PTL

(* The number inventory.md gives for a folder is the number of files       *)
(* bundle adds from it, but for those that somebody has added or removed   *)
(* since _build_inventory began to count them.                             *)
THEOREM InventoryIsRight == Spec => []InventoryMatchesArchive
<1>1. IInv => InventoryMatchesArchive
  <2> SUFFICES ASSUME IInv, archive = "closed", NEW s \in service_assets
               PROVE  /\ Cardinality(Bundled(s) \ Changed(s)) <= counts[s]
                      /\ counts[s] <= Cardinality(Bundled(s) \cup Changed(s))
    BY DEF InventoryMatchesArchive
  <2>1. pc = "end" /\ left = {} /\ s \in DOMAIN counts
    BY DEF IInv, TypeOK, ArchiveInv
  <2>2. /\ counts[s] = Cardinality(Counted(s))
        /\ \A e \in Files : e \notin Changed(s) => (e \in Counted(s) <=> e \in In(s))
    BY <2>1 DEF IInv, CountsInv
  <2>3. \A e \in Files : e \notin Changed(s) => (e \in Bundled(s) <=> e \in In(s))
    <3>1. ToBundle(s) = Bundled(s)
      BY <2>1 DEF ToBundle
    <3>2. \A e \in Files : Passed(s, e)
      BY <2>1 DEF Passed
    <3> QED  BY <2>1, <3>1, <3>2 DEF IInv, FolderInv
  <2>4. /\ Bundled(s) \ Changed(s) \subseteq Counted(s)
        /\ Counted(s) \subseteq Bundled(s) \cup Changed(s)
    BY <2>2, <2>3 DEF Bundled, Counted, Changed
  <2>5. IsFiniteSet(Counted(s)) /\ IsFiniteSet(Bundled(s) \cup Changed(s))
    <3>1. IsFiniteSet(Files)
      BY AssetBundleAssumption, FS_Subset DEF Entries
    <3>2. Counted(s) \subseteq Files /\ Bundled(s) \cup Changed(s) \subseteq Files
      BY DEF Counted, Bundled, Changed
    <3> QED  BY <3>1, <3>2, FS_Subset
  <2> QED  BY <2>2, <2>4, <2>5, FS_Subset
<1> QED  BY <1>1, Invariant, PTL

(* bundle leaves out no file that was in its folder from the load of the   *)
(* model to the end of the archive.                                        *)
THEOREM KeptAreBundled == Spec => []KeptFilesAreBundled
<1>1. IInv => KeptFilesAreBundled
  <2> SUFFICES ASSUME IInv, archive = "closed", NEW s \in Services, NEW e \in Files,
                      <<s, e>> \in kept
               PROVE  <<s, e>> \in members
    BY DEF KeptFilesAreBundled
  <2>1. pc = "end" /\ left = {}
    BY DEF IInv, ArchiveInv
  <2>2. s \in service_assets
    BY <2>1 DEF IInv, HistoryInv
  <2>3. Passed(s, e)
    BY <2>1 DEF Passed
  <2>4. e \in ToBundle(s)
    BY <2>1, <2>2, <2>3 DEF IInv, FolderInv
  <2>5. ToBundle(s) = Bundled(s)
    BY <2>1 DEF ToBundle
  <2> QED  BY <2>4, <2>5 DEF Bundled
<1> QED  BY <1>1, Invariant, PTL

(* ZipFile(..., "w") starts anew, so no member of engine.zip is older than *)
(* the build that has opened it, also when a file goes and the build fails. *)
THEOREM MembersRight == Spec => []MembersWereThere
<1>1. IInv => MembersWereThere
  BY DEF IInv
<1> QED  BY <1>1, Invariant, PTL

-----------------------------------------------------------------------------
(* Bundling cannot go on for ever.                                         *)

(* The most steps that counting one folder takes, and bundling one: it is  *)
(* begun and left, and each entry is come to, looked at and written.       *)
PerCount  == Cardinality(Entries) + 2
PerFolder == 3 * Cardinality(Entries) + 3

(* The steps that are left for the folders still to come.                  *)
ToCount  == Cardinality(left) * PerCount
ToList   == Cardinality(left) * PerFolder
AfterAll == Cardinality(service_assets) * PerFolder + 2

(* A bound on the steps that the build has before it.                      *)
StepsLeft ==
  CASE pc = "load"   -> Cardinality(left) + Cardinality(Services) * (PerCount + PerFolder) + 3
    [] pc = "render" -> ToCount + AfterAll
    [] pc = "count"  -> ToCount + Cardinality(ahead) + 1 + AfterAll
    [] pc = "next"   -> ToList + 1
    [] pc = "list"   -> ToList + 2 * Cardinality(listing) + 3 * Cardinality(ahead) + 3
    [] pc = "look"   -> ToList + 2 * Cardinality(listing) + 2
    [] pc = "write"  -> ToList + 2 * Cardinality(listing) + 3
    [] pc = "end"    -> 0

(* Products of numbers.                                                    *)
LEMMA Products ==
  ASSUME NEW a \in Nat, NEW b \in Nat, NEW c \in Nat
  PROVE  /\ a * b \in Nat
         /\ a * (b + c) = a * b + a * c
         /\ a # 0 => (a - 1) * b = a * b - b
         /\ \A d \in Nat : d <= a => d * b <= a * b
OBVIOUS

(* A finite set has at least as many elements as a part of it, and one     *)
(* more than without one of them.                                          *)
LEMMA Parts ==
  ASSUME NEW B, IsFiniteSet(B), NEW A \in SUBSET B
  PROVE  /\ IsFiniteSet(A) /\ Cardinality(A) \in Nat /\ Cardinality(B) \in Nat
         /\ Cardinality(A) <= Cardinality(B)
         /\ \A x \in A : /\ Cardinality(A) # 0
                         /\ Cardinality(A \ {x}) = Cardinality(A) - 1
         /\ \A x : Cardinality(A \cup {x}) \in Nat
                  /\ Cardinality(A \cup {x}) <= Cardinality(A) + 1
<1>1. IsFiniteSet(A) /\ Cardinality(A) <= Cardinality(B)
  BY FS_Subset
<1>2. Cardinality(A) \in Nat /\ Cardinality(B) \in Nat
  BY <1>1, FS_CardinalityType
<1>3. \A x \in A : Cardinality(A) # 0 /\ Cardinality(A \ {x}) = Cardinality(A) - 1
  BY <1>1, FS_EmptySet, FS_RemoveElement
<1>4. ASSUME NEW x
      PROVE  /\ Cardinality(A \cup {x}) \in Nat
             /\ Cardinality(A \cup {x}) <= Cardinality(A) + 1
  <2>1. CASE x \in A
    <3>1. A \cup {x} = A
      BY <2>1
    <3>2. Cardinality(A \cup {x}) = Cardinality(A)
      BY <3>1, Zenon
    <3> QED  BY <1>2, <3>2
  <2>2. CASE x \notin A
    BY <1>1, <1>2, <2>2, FS_AddElement
  <2> QED  BY <2>1, <2>2
<1> QED
  BY <1>1, <1>2, <1>3, <1>4

(* The sets that the build walks through are finite.                       *)
LEMMA WalkFinite ==
  ASSUME TypeOK
  PROVE  /\ Cardinality(Services) \in Nat /\ Cardinality(Entries) \in Nat
         /\ PerCount \in Nat /\ PerFolder \in Nat
         /\ \A A \in {service_assets, left} :
              Cardinality(A) \in Nat /\ Cardinality(A) <= Cardinality(Services)
         /\ \A A \in {listing, ahead} : Cardinality(A) \in Nat
         /\ \A s \in left : /\ Cardinality(left) # 0
                            /\ Cardinality(left \ {s}) = Cardinality(left) - 1
         /\ \A A \in {listing, ahead} :
              \A e \in A : /\ Cardinality(A) # 0
                          /\ Cardinality(A \ {e}) = Cardinality(A) - 1
         /\ \A B : Cardinality(listing \cup ({B} \cap In(asset))) \in Nat
                  /\ Cardinality(listing \cup ({B} \cap In(asset)))
                       <= Cardinality(listing) + 1
         /\ \A s : /\ Cardinality(MayBeIn(s)) \in Nat
                  /\ Cardinality(MayBeIn(s)) <= Cardinality(Entries)
<1>1. /\ service_assets \in SUBSET Services /\ left \in SUBSET Services
      /\ listing \in SUBSET Entries /\ ahead \in SUBSET Entries
      /\ \A s : MayBeIn(s) \in SUBSET Entries
  BY DEF TypeOK, MayBeIn
<1>2. \A A \in SUBSET Services :
        /\ Cardinality(A) \in Nat /\ Cardinality(Services) \in Nat
        /\ Cardinality(A) <= Cardinality(Services)
        /\ \A x \in A : /\ Cardinality(A) # 0
                        /\ Cardinality(A \ {x}) = Cardinality(A) - 1
  BY AssetBundleAssumption, Parts
<1>3. \A A \in SUBSET Entries :
        /\ Cardinality(A) \in Nat /\ Cardinality(Entries) \in Nat
        /\ Cardinality(A) <= Cardinality(Entries)
        /\ \A x \in A : /\ Cardinality(A) # 0
                        /\ Cardinality(A \ {x}) = Cardinality(A) - 1
        /\ \A x : /\ Cardinality(A \cup {x}) \in Nat
                 /\ Cardinality(A \cup {x}) <= Cardinality(A) + 1
  BY AssetBundleAssumption, Parts
<1>4. Cardinality(Services) \in Nat /\ Cardinality(Entries) \in Nat
  BY <1>1, <1>2, <1>3
<1>5. PerCount \in Nat /\ PerFolder \in Nat
  BY <1>4 DEF PerCount, PerFolder
<1>6. ASSUME NEW e
      PROVE  /\ Cardinality(listing \cup ({e} \cap In(asset))) \in Nat
             /\ Cardinality(listing \cup ({e} \cap In(asset))) <= Cardinality(listing) + 1
  <2>1. \/ listing \cup ({e} \cap In(asset)) = listing
        \/ listing \cup ({e} \cap In(asset)) = listing \cup {e}
    OBVIOUS
  <2>2. \/ Cardinality(listing \cup ({e} \cap In(asset))) = Cardinality(listing)
        \/ Cardinality(listing \cup ({e} \cap In(asset))) = Cardinality(listing \cup {e})
    BY <2>1, Zenon
  <2>3. /\ Cardinality(listing) \in Nat /\ Cardinality(listing \cup {e}) \in Nat
        /\ Cardinality(listing \cup {e}) <= Cardinality(listing) + 1
    BY <1>1, <1>3
  <2> QED  BY <2>2, <2>3
<1> QED
  BY <1>1, <1>2, <1>3, <1>4, <1>5, <1>6

(* What the bound says is a number, and 0 only at the end.                 *)
LEMMA StepsLeftType ==
  ASSUME TypeOK
  PROVE  /\ StepsLeft \in Nat /\ (StepsLeft = 0 <=> pc = "end")
         /\ ToCount \in Nat /\ ToList \in Nat /\ AfterAll \in Nat
<1>1. pc \in {"load", "render", "count", "end", "next", "list", "look", "write"}
  BY DEF TypeOK, Bundling
<1>2. /\ Cardinality(Services) \in Nat /\ Cardinality(left) \in Nat
      /\ Cardinality(service_assets) \in Nat /\ Cardinality(listing) \in Nat
      /\ Cardinality(ahead) \in Nat /\ PerCount \in Nat /\ PerFolder \in Nat
  BY WalkFinite
<1>3. Cardinality(Services) * (PerCount + PerFolder) \in Nat
  BY <1>2, Products
<1>4. ToCount \in Nat /\ ToList \in Nat /\ AfterAll \in Nat /\ AfterAll # 0
  BY <1>2, Products DEF ToCount, ToList, AfterAll
<1>5. CASE pc = "load"
  BY <1>2, <1>3, <1>4, <1>5 DEF StepsLeft
<1>6. CASE pc \in {"render", "count"}
  BY <1>2, <1>4, <1>6 DEF StepsLeft
<1>7. CASE pc \in {"next", "list", "look", "write"}
  BY <1>2, <1>4, <1>7 DEF StepsLeft
<1>8. CASE pc = "end"
  BY <1>4, <1>8 DEF StepsLeft
<1> QED
  BY <1>1, <1>5, <1>6, <1>7, <1>8

(* What a step does: it brings the end nearer, unless it is somebody       *)
(* else's, who edits a folder.                                             *)
Nearer == StepsLeft' < StepsLeft \/ (disk' # disk /\ StepsLeft' = StepsLeft)

(* However long somebody goes on editing the folders, the build ends after *)
(* at most as many steps of its own as StepsLeft says: each folder is      *)
(* walked through twice, and rglob comes to no entry twice in a walk.      *)
THEOREM BundlingRunsDown ==
  Spec => /\ [](StepsLeft \in Nat /\ (StepsLeft = 0 <=> pc = "end"))
          /\ [][Nearer]_vars
<1>1. IInv => StepsLeft \in Nat /\ (StepsLeft = 0 <=> pc = "end")
  BY StepsLeftType DEF IInv
<1>2. ASSUME IInv, IInv', Next PROVE Nearer
  <2>0. /\ Cardinality(left) \in Nat /\ Cardinality(listing) \in Nat
        /\ Cardinality(ahead) \in Nat
        /\ Cardinality(service_assets) \in Nat /\ PerCount \in Nat /\ PerFolder \in Nat
        /\ Cardinality(Services) \in Nat /\ Cardinality(Entries) \in Nat
        /\ ToCount \in Nat /\ ToList \in Nat /\ AfterAll \in Nat
        /\ PerCount = Cardinality(Entries) + 2
        /\ PerFolder = 3 * Cardinality(Entries) + 3
        /\ TypeOK /\ TypeOK'
    BY <1>2, WalkFinite, StepsLeftType DEF IInv, PerCount, PerFolder
  <2>l. ASSUME NEW s \in left, left' = left \ {s}
        PROVE  /\ Cardinality(left') = Cardinality(left) - 1
               /\ ToCount' = ToCount - PerCount /\ ToList' = ToList - PerFolder
    <3>1. Cardinality(left) # 0 /\ Cardinality(left \ {s}) = Cardinality(left) - 1
      BY <2>0, WalkFinite
    <3>2. /\ (Cardinality(left) - 1) * PerCount = Cardinality(left) * PerCount - PerCount
          /\ (Cardinality(left) - 1) * PerFolder = Cardinality(left) * PerFolder - PerFolder
      BY <2>0, <3>1, Products
    <3> QED  BY <2>l, <3>1, <3>2 DEF ToCount, ToList, PerCount, PerFolder
  <2>a. ASSUME NEW e \in ahead, ahead' = ahead \ {e}
        PROVE  Cardinality(ahead') = Cardinality(ahead) - 1
    BY <2>0, <2>a, WalkFinite
  <2>e. Cardinality({}) = 0
    BY FS_EmptySet
  <2>1. CASE \E s \in Services : FindFolder(s)
    <3>1. PICK s \in left : pc = "load" /\ pc' = pc /\ left' = left \ {s}
      BY <2>1 DEF FindFolder
    <3>2. Cardinality(left') = Cardinality(left) - 1
      BY <2>l, <3>1
    <3>3. Cardinality(Services) * (PerCount + PerFolder) \in Nat
      BY <2>0, Products
    <3> DEFINE Rest == Cardinality(Services) * (PerCount + PerFolder)
    <3>4. StepsLeft = Cardinality(left) + Rest + 3
      BY <3>1 DEF StepsLeft
    <3>5. StepsLeft' = Cardinality(left') + Rest + 3
      BY <3>1 DEF StepsLeft, PerCount, PerFolder
    <3> HIDE DEF Rest
    <3>6. Rest \in Nat
      BY <3>3 DEF Rest
    <3> QED
      BY <2>0, <3>2, <3>4, <3>5, <3>6 DEF Nearer
  <2>2. CASE Loaded
    <3>1. /\ pc = "load" /\ pc' = "render" /\ left = {} /\ left' = service_assets
          /\ service_assets' = service_assets
      BY <2>2 DEF Loaded
    <3>2. Cardinality(service_assets) <= Cardinality(Services)
      BY <2>0, WalkFinite
    <3> DEFINE n == Cardinality(Services)
               k == Cardinality(service_assets)
    <3>3. /\ n * (PerCount + PerFolder) = n * PerCount + n * PerFolder
          /\ k * PerCount <= n * PerCount /\ k * PerFolder <= n * PerFolder
          /\ n * PerCount \in Nat /\ n * PerFolder \in Nat
          /\ k * PerCount \in Nat /\ k * PerFolder \in Nat
      BY <2>0, <3>2, Products
    <3>4. StepsLeft = 0 + n * (PerCount + PerFolder) + 3
      BY <2>e, <3>1 DEF StepsLeft
    <3>5. StepsLeft' = k * PerCount + (k * PerFolder + 2)
      BY <3>1 DEF StepsLeft, ToCount, AfterAll, PerCount, PerFolder
    <3> QED
      BY <3>3, <3>4, <3>5 DEF Nearer
  <2>3. CASE \E s \in Services : BeginCount(s)
    <3>1. PICK s \in left : /\ pc = "render" /\ pc' = "count" /\ left' = left \ {s}
                            /\ ahead' = MayBeIn(s) /\ service_assets' = service_assets
      BY <2>3 DEF BeginCount
    <3>2. ToCount' = ToCount - PerCount /\ AfterAll' = AfterAll
      BY <2>l, <3>1 DEF AfterAll, PerFolder
    <3>3. Cardinality(ahead') \in Nat /\ Cardinality(ahead') <= Cardinality(Entries)
      BY <2>0, <3>1, WalkFinite
    <3>4. /\ StepsLeft = ToCount + AfterAll
          /\ StepsLeft' = ToCount' + Cardinality(ahead') + 1 + AfterAll'
      BY <3>1 DEF StepsLeft
    <3> QED
      BY <2>0, <3>2, <3>3, <3>4 DEF Nearer
  <2>4. CASE \E e \in Entries : CountEntry(e)
    <3>1. PICK e \in ahead : /\ pc = "count" /\ pc' = pc /\ ahead' = ahead \ {e}
                             /\ UNCHANGED <<left, service_assets>>
      BY <2>4 DEF CountEntry
    <3>2. ToCount' = ToCount /\ AfterAll' = AfterAll
      BY <3>1 DEF ToCount, AfterAll, PerCount, PerFolder
    <3>3. /\ StepsLeft = ToCount + Cardinality(ahead) + 1 + AfterAll
          /\ StepsLeft' = ToCount' + Cardinality(ahead') + 1 + AfterAll'
      BY <3>1 DEF StepsLeft
    <3>4. Cardinality(ahead') = Cardinality(ahead) - 1
      BY <2>a, <3>1
    <3> QED
      BY <2>0, <3>2, <3>3, <3>4 DEF Nearer
  <2>5. CASE EndCount
    <3>1. /\ pc = "count" /\ pc' = "render" /\ ahead = {}
          /\ UNCHANGED <<left, service_assets>>
      BY <2>5 DEF EndCount
    <3>2. ToCount' = ToCount /\ AfterAll' = AfterAll
      BY <3>1 DEF ToCount, AfterAll, PerCount, PerFolder
    <3>3. /\ StepsLeft = ToCount + Cardinality(ahead) + 1 + AfterAll
          /\ StepsLeft' = ToCount' + AfterAll'
      BY <3>1 DEF StepsLeft
    <3> QED
      BY <2>0, <3>2, <3>3 DEF Nearer
  <2>6. CASE OpenArchive
    <3>1. pc = "render" /\ pc' = "next" /\ left = {} /\ left' = service_assets
      BY <2>6 DEF OpenArchive
    <3>2. ToList' = Cardinality(service_assets) * PerFolder
      BY <3>1 DEF ToList, PerFolder
    <3>3. AfterAll = Cardinality(service_assets) * PerFolder + 2
      BY DEF AfterAll
    <3>4. Cardinality(service_assets) * PerFolder \in Nat
      BY <2>0, Products
    <3>5. StepsLeft = ToCount + AfterAll /\ StepsLeft' = ToList' + 1
      BY <3>1 DEF StepsLeft
    <3> QED
      BY <2>0, <3>2, <3>3, <3>4, <3>5 DEF Nearer
  <2>7. CASE \E s \in Services : BeginListing(s)
    <3>1. PICK s \in left : /\ pc = "next" /\ pc' = "list" /\ left' = left \ {s}
                            /\ ahead' = MayBeIn(s) /\ listing' = listing
      BY <2>7 DEF BeginListing
    <3>2. Cardinality(listing') = 0
      BY <1>2, <2>e, <3>1 DEF IInv, ArchiveInv
    <3>3. Cardinality(ahead') \in Nat /\ Cardinality(ahead') <= Cardinality(Entries)
      BY <2>0, <3>1, WalkFinite
    <3>4. /\ StepsLeft = ToList + 1
          /\ StepsLeft' = ToList' + 2 * Cardinality(listing') + 3 * Cardinality(ahead') + 3
      BY <3>1 DEF StepsLeft
    <3>5. ToList' = ToList - PerFolder
      BY <2>l, <3>1
    <3> QED
      BY <2>0, <3>2, <3>3, <3>4, <3>5 DEF Nearer
  <2>8. CASE \E e \in Entries : ListEntry(e)
    <3>1. PICK e \in ahead : /\ pc = "list" /\ pc' = pc /\ ahead' = ahead \ {e}
                             /\ left' = left
                             /\ listing' = listing \cup ({e} \cap In(asset))
      BY <2>8 DEF ListEntry
    <3>2. /\ Cardinality(listing') \in Nat
          /\ Cardinality(listing') <= Cardinality(listing) + 1
      BY <2>0, <3>1, WalkFinite
    <3>3. ToList' = ToList
      BY <3>1 DEF ToList, PerFolder
    <3>4. Cardinality(ahead') = Cardinality(ahead) - 1
      BY <2>a, <3>1
    <3>5. /\ StepsLeft = ToList + 2 * Cardinality(listing) + 3 * Cardinality(ahead) + 3
          /\ StepsLeft' = ToList' + 2 * Cardinality(listing') + 3 * Cardinality(ahead') + 3
      BY <3>1 DEF StepsLeft
    <3> QED
      BY <2>0, <3>2, <3>3, <3>4, <3>5 DEF Nearer
  <2>9. CASE EndListing \/ WriteMember \/ NextAsset
    <3>1. ToList' = ToList
      BY <2>9 DEF EndListing, WriteMember, NextAsset, walk, ToList, PerFolder
    <3> QED
      BY <2>0, <2>9, <2>e, <3>1 DEF EndListing, WriteMember, NextAsset, walk, Nearer, StepsLeft
  <2>10. CASE \E e \in Entries : SkipEntry(e) \/ TakeEntry(e)
    <3>1. PICK e \in listing : /\ pc = "look" /\ pc' \in {"look", "write"}
                               /\ left' = left /\ listing' = listing \ {e}
      BY <2>10 DEF SkipEntry, TakeEntry
    <3>2. Cardinality(listing) # 0 /\ Cardinality(listing \ {e}) = Cardinality(listing) - 1
      BY <2>0, WalkFinite
    <3>3. ToList' = ToList
      BY <3>1 DEF ToList, PerFolder
    <3> QED
      BY <2>0, <3>1, <3>2, <3>3 DEF Nearer, StepsLeft
  <2>11. CASE WriteFails \/ CloseArchive
    <3>1. pc # "end" /\ pc' = "end"
      BY <2>11 DEF WriteFails, CloseArchive
    <3>2. StepsLeft' = 0 /\ StepsLeft \in Nat \ {0}
      BY <2>0, <3>1, StepsLeftType DEF StepsLeft
    <3> QED
      BY <3>2 DEF Nearer
  <2>12. CASE \E s \in Services : Edit(s)
    <3>1. PICK s \in Services : Edit(s)
      BY <2>12
    <3>2. UNCHANGED <<pc, service_assets, left, listing, ahead>>
      BY <3>1 DEF Edit, walk
    <3>3. dirs' # dirs \/ tree' # tree
      BY <3>1 DEF Edit, Toggle
    <3>4. disk' # disk
      BY <3>3 DEF disk
    <3>5. StepsLeft' = StepsLeft
      BY <3>2 DEF StepsLeft, ToCount, ToList, AfterAll, PerCount, PerFolder
    <3> QED
      BY <3>4, <3>5 DEF Nearer
  <2> QED
    BY <1>2, <2>1, <2>2, <2>3, <2>4, <2>5, <2>6, <2>7, <2>8, <2>9, <2>10, <2>11, <2>12
       DEF Next, Step
<1>3. IInv /\ IInv' /\ [Next]_vars => [Nearer]_vars
  BY <1>2
<1> QED
  BY <1>1, <1>3, Invariant, PTL DEF Spec

=============================================================================
