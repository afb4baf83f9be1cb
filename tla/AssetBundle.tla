---------------------------- MODULE AssetBundle ----------------------------
(***************************************************************************)
(* The service assets of one build: the loader notes the asset folders,    *)
(* inventory.md counts the files in each while it is rendered, and         *)
(* engine.zip takes the files in once all artifacts are written            *)
(* (data/loader.py, data/renderer.py, data/zip.py).  The folders may be    *)
(* edited all the while, without end.                                      *)
(*                                                                         *)
(* The code takes folders and files in sorted order, here the order is     *)
(* any.  No listing is made at one moment: iterdir and rglob come to each  *)
(* entry there may be at some moment of the walk, and find it if it is     *)
(* there then.  What a file holds is left out, as are the folders that     *)
(* match no service (Validate) and the other artifacts (BuildOutput).      *)
(***************************************************************************)
EXTENDS Naturals, FiniteSets

CONSTANTS
  Services,  \* the services that may have an asset folder
  Files,     \* the files there may be in such a folder
  Folders,   \* the folders there may be in it
  Places     \* pairs: what there may be in the folder of which service

Entries == Files \cup Folders

ASSUME AssetBundleAssumption ==
  /\ Files \cap Folders = {}
  /\ Places \subseteq Services \X Entries
  /\ IsFiniteSet(Services) /\ IsFiniteSet(Entries)

None == "none"

VARIABLES
  dirs,            \* disk: the services that have their folder
  tree,            \* disk: pairs of a service and an entry of its folder
  pc,              \* where the build is
  service_assets,  \* the services whose folder the loader found
  left,            \* those that the loop at hand has yet to come to
  asset,           \* the service whose folder is counted or bundled
  ahead,           \* the entries that rglob has yet to come to in it
  listing,         \* what bundle still has to look at in it
  entry,           \* the file that is to be added
  counts,          \* inventory.md: service -> number of files
  members,         \* engine.zip: the files under assets/services/
  archive,         \* engine.zip: of an earlier build, open, closed or partial
  seen,            \* history: the files there were at some time of the build
  kept,            \* history: the files there were all the time
  counted,         \* history: the files that were counted
  changed          \* history: those added or removed once their count had begun

disk    == <<dirs, tree>>
walk    == <<service_assets, left, asset, ahead, listing, entry>>
output  == <<counts, members, archive>>
history == <<seen, kept, counted, changed>>
vars    == <<disk, pc, walk, output, history>>

In(s) == {e \in Entries : <<s, e>> \in tree}

MayBeIn(s) == {e \in Entries : <<s, e>> \in Places}

FilesIn(s) == In(s) \cap Files

AllFiles == {x \in tree : x[2] \in Files}

Init ==
  /\ dirs \in SUBSET Services
  /\ tree \in SUBSET {x \in Places : x[1] \in dirs}
  /\ pc = "load"
  /\ service_assets = {} /\ left = Services /\ ahead = {} /\ listing = {}
  /\ asset = None /\ entry = None
  /\ counts = [s \in {} |-> 0]
  /\ members \in {{}, Services \X Files} /\ archive = "earlier"
  /\ seen = AllFiles /\ kept = AllFiles /\ counted = {} /\ changed = {}

-----------------------------------------------------------------------------
(* Somebody adds or removes an asset folder, or an entry of one.           *)
Toggle(s, e) ==
  tree' = IF <<s, e>> \in tree THEN tree \ {<<s, e>>} ELSE tree \cup {<<s, e>>}

Edit(s) ==
  /\ pc # "end"
  /\ \/ s \notin dirs /\ dirs' = dirs \cup {s} /\ UNCHANGED tree
     \/ s \in dirs /\ In(s) = {} /\ dirs' = dirs \ {s} /\ UNCHANGED tree
     \/ s \in dirs /\ (\E e \in MayBeIn(s) : Toggle(s, e)) /\ UNCHANGED dirs
  /\ seen' = seen \cup AllFiles'
  /\ kept' = kept \cap AllFiles'
  /\ changed' = changed \cup {x \in (AllFiles \ AllFiles') \cup (AllFiles' \ AllFiles) :
                               x[1] \in DOMAIN counts}
  /\ UNCHANGED <<pc, walk, output, counted>>

-----------------------------------------------------------------------------
(* _load_service_assets                                                    *)
FindFolder(s) ==
  /\ pc = "load"
  /\ s \in left
  /\ left' = left \ {s}
  /\ service_assets' = service_assets \cup ({s} \cap dirs)
  /\ UNCHANGED <<disk, pc, asset, ahead, listing, entry, output, history>>

Loaded ==
  /\ pc = "load"
  /\ left = {}
  /\ left' = service_assets
  /\ pc' = "render"
  /\ UNCHANGED <<disk, service_assets, asset, ahead, listing, entry, output, history>>

-----------------------------------------------------------------------------
(* _build_inventory: sum(1 for _ in asset.path.rglob("*") if _.is_file())  *)

With(f, s, n) == [x \in DOMAIN f \cup {s} |-> IF x = s THEN n ELSE f[x]]

BeginCount(s) ==
  /\ pc = "render"
  /\ s \in left
  /\ asset' = s
  /\ left' = left \ {s}
  /\ ahead' = MayBeIn(s)
  /\ counts' = With(counts, s, 0)
  /\ pc' = "count"
  /\ UNCHANGED <<disk, service_assets, listing, entry, members, archive, history>>

(* Mutant: folders in the folder are counted too.                          *)
CountAny(e) ==
  /\ pc = "count"
  /\ e \in ahead
  /\ ahead' = ahead \ {e}
  /\ counts' = [counts EXCEPT ![asset] = @ + Cardinality({e} \cap In(asset))]
  /\ counted' = counted \cup {<<asset, f>> : f \in {e} \cap FilesIn(asset)}
  /\ UNCHANGED <<disk, pc, service_assets, left, asset, listing, entry, members, archive,
                 seen, kept, changed>>

(* The generator is lazy: is_file is asked of each entry as the walk comes *)
(* to it, and one that has gone, or comes later, is not counted.           *)
CountEntry(e) ==
  /\ pc = "count"
  /\ e \in ahead
  /\ ahead' = ahead \ {e}
  /\ counts' = [counts EXCEPT ![asset] = @ + Cardinality({e} \cap FilesIn(asset))]
  /\ counted' = counted \cup {<<asset, f>> : f \in {e} \cap FilesIn(asset)}
  /\ UNCHANGED <<disk, pc, service_assets, left, asset, listing, entry, members, archive,
                 seen, kept, changed>>

EndCount ==
  /\ pc = "count"
  /\ ahead = {}
  /\ asset' = None
  /\ pc' = "render"
  /\ UNCHANGED <<disk, service_assets, left, ahead, listing, entry, output, history>>

-----------------------------------------------------------------------------
(* EngineZipWriter.bundle, after write_artifacts.                          *)

(* Mutant: the archive is opened to append.                                *)
OpenToAppend ==
  /\ pc = "render"
  /\ left = {}
  /\ archive' = "open"
  /\ left' = service_assets
  /\ pc' = "next"
  /\ UNCHANGED <<disk, service_assets, asset, ahead, listing, entry, counts, members, history>>

(* Mutant: the bundler does not wait for the renderer.                     *)
OpenEarly ==
  /\ pc = "render"
  /\ archive' = "open" /\ members' = {}
  /\ left' = service_assets
  /\ pc' = "next"
  /\ UNCHANGED <<disk, service_assets, asset, ahead, listing, entry, counts, history>>

OpenArchive ==
  /\ pc = "render"
  /\ left = {}
  /\ archive' = "open" /\ members' = {}
  /\ left' = service_assets
  /\ pc' = "next"
  /\ UNCHANGED <<disk, service_assets, asset, ahead, listing, entry, counts, history>>

(* sorted(asset.path.rglob("*")) is a list, complete before its first      *)
(* entry is looked at; of a folder that is gone it is empty.               *)
BeginListing(s) ==
  /\ pc = "next"
  /\ s \in left
  /\ asset' = s
  /\ left' = left \ {s}
  /\ ahead' = MayBeIn(s)
  /\ pc' = "list"
  /\ UNCHANGED <<disk, service_assets, listing, entry, output, history>>

ListEntry(e) ==
  /\ pc = "list"
  /\ e \in ahead
  /\ ahead' = ahead \ {e}
  /\ listing' = listing \cup ({e} \cap In(asset))
  /\ UNCHANGED <<disk, pc, service_assets, left, asset, entry, output, history>>

EndListing ==
  /\ pc = "list"
  /\ ahead = {}
  /\ pc' = "look"
  /\ UNCHANGED <<disk, walk, output, history>>

(* is_file: not of a folder, and not of a file that has gone.              *)
SkipEntry(e) ==
  /\ pc = "look"
  /\ e \in listing
  /\ e \notin FilesIn(asset)
  /\ listing' = listing \ {e}
  /\ UNCHANGED <<disk, pc, service_assets, left, asset, ahead, entry, output, history>>

TakeEntry(e) ==
  /\ pc = "look"
  /\ e \in listing
  /\ e \in FilesIn(asset)
  /\ entry' = e
  /\ listing' = listing \ {e}
  /\ pc' = "write"
  /\ UNCHANGED <<disk, service_assets, left, asset, ahead, output, history>>

(* Mutant: the folder is listed again after each file.                     *)
WriteAndRelist ==
  /\ pc = "write"
  /\ entry \in In(asset)
  /\ members' = members \cup {<<asset, entry>>}
  /\ listing' = In(asset)
  /\ pc' = "look"
  /\ UNCHANGED <<disk, service_assets, left, asset, ahead, entry, counts, archive, history>>

WriteMember ==
  /\ pc = "write"
  /\ entry \in In(asset)
  /\ members' = members \cup {<<asset, entry>>}
  /\ entry' = None
  /\ pc' = "look"
  /\ UNCHANGED <<disk, service_assets, left, asset, ahead, listing, counts, archive, history>>

(* Mutant: a file that is gone ends the archive, but not the build.        *)
WriteGivesUp ==
  /\ pc = "write"
  /\ entry \notin In(asset)
  /\ archive' = "closed"
  /\ pc' = "end"
  /\ UNCHANGED <<disk, walk, counts, members, history>>

(* The file went after is_file: FileNotFoundError leaves the with block,   *)
(* which closes the archive as it is, and fails the build.                 *)
WriteFails ==
  /\ pc = "write"
  /\ entry \notin In(asset)
  /\ archive' = "partial"
  /\ pc' = "end"
  /\ UNCHANGED <<disk, walk, counts, members, history>>

NextAsset ==
  /\ pc = "look"
  /\ listing = {}
  /\ asset' = None
  /\ pc' = "next"
  /\ UNCHANGED <<disk, service_assets, left, ahead, listing, entry, output, history>>

CloseArchive ==
  /\ pc = "next"
  /\ left = {}
  /\ archive' = "closed"
  /\ pc' = "end"
  /\ UNCHANGED <<disk, walk, counts, members, history>>

Step ==
  \/ Loaded \/ EndCount \/ OpenArchive \/ EndListing
  \/ WriteMember \/ WriteFails \/ NextAsset \/ CloseArchive
  \/ \E s \in Services : FindFolder(s) \/ BeginCount(s) \/ BeginListing(s)
  \/ \E e \in Entries : CountEntry(e) \/ ListEntry(e) \/ SkipEntry(e) \/ TakeEntry(e)

Next == Step \/ \E s \in Services : Edit(s)

(* The build runs on; nobody has to edit, or to stop editing.              *)
Spec == Init /\ [][Next]_vars /\ WF_vars(Step)

-----------------------------------------------------------------------------
Bundling == {"next", "list", "look", "write"}

(* Every variable keeps its shape; folders are counted before any is       *)
(* bundled, and only those that the loader found.                          *)
TypeOK ==
  /\ dirs \subseteq Services
  /\ tree \subseteq Places \cap (dirs \X Entries)
  /\ pc \in {"load", "render", "count", "end"} \cup Bundling
  /\ service_assets \subseteq Services
  /\ left \subseteq IF pc = "load" THEN Services ELSE service_assets
  /\ pc \in {"count", "list", "look", "write"} => asset \in service_assets \ left
  /\ ahead \subseteq Entries
  /\ listing \subseteq Entries
  /\ pc = "write" => entry \in Files
  /\ DOMAIN counts = IF pc = "load" THEN {}
                     ELSE IF pc \in {"render", "count"} THEN service_assets \ left
                     ELSE service_assets
  /\ members \subseteq Services \X Files
  /\ archive \in {"earlier", "open", "closed", "partial"}

Bundled(s) == {e \in Files : <<s, e>> \in members}
Counted(s) == {e \in Files : <<s, e>> \in counted}
Changed(s) == {e \in Files : <<s, e>> \in changed}

(* inventory.md and engine.zip tell the same of a folder, although each    *)
(* looks at it for itself and takes its time: the count differs from the   *)
(* members by no more than the files that somebody added or removed since  *)
(* the count began, and not at all if nobody did.                          *)
InventoryMatchesArchive ==
  archive = "closed" =>
    \A s \in service_assets :
      /\ Cardinality(Bundled(s) \ Changed(s)) <= counts[s]
      /\ counts[s] <= Cardinality(Bundled(s) \cup Changed(s))

(* Whatever is edited, a build that returns ok has bundled each file that  *)
(* was there from beginning to end; what it left out was edited meanwhile, *)
(* and a file that goes in the wrong moment fails the build.               *)
KeptFilesAreBundled ==
  archive = "closed" =>
    \A s \in Services : \A e \in Files : <<s, e>> \in kept => <<s, e>> \in members

(* engine.zip holds no file that was not in its folder during this build:  *)
(* none of an earlier archive, also when the build fails.                  *)
MembersWereThere == archive # "earlier" => members \subseteq seen

(* However long somebody goes on editing the folders, the build ends: it   *)
(* walks through each twice, and comes to no entry twice in a walk.        *)
BundlingEnds == <>(pc = "end")

-----------------------------------------------------------------------------
(* Why: the inductive invariant of AssetBundleProofs.                      *)

(* What was there all the time is there now and has been found; what is    *)
(* there now has been seen.                                                *)
HistoryInv ==
  /\ kept \subseteq AllFiles
  /\ AllFiles \subseteq seen
  /\ \A x \in kept : x[1] \in service_assets \/ (pc = "load" /\ x[1] \in left)

(* The walk through the folder of s has come to e.                         *)
Passed(s, e) == ~ (pc \in {"count", "list"} /\ s = asset /\ e \in ahead)

(* What has been counted is what was there when the walk came to it.       *)
CountsInv ==
  /\ counted \subseteq (DOMAIN counts) \X Files
  /\ \A s \in DOMAIN counts :
       /\ counts[s] = Cardinality(Counted(s))
       /\ \A e \in Files :
            IF pc = "count" /\ ~ Passed(s, e) THEN e \notin Counted(s)
            ELSE e \notin Changed(s) => (e \in Counted(s) <=> e \in In(s))

(* The archive and the walk through the folders.                           *)
ArchiveInv ==
  /\ archive = "earlier" <=> pc \in {"load", "render", "count"}
  /\ archive = "closed" => pc = "end" /\ left = {}
  /\ pc \in {"load", "render", "count", "next"} => listing = {}
  /\ pc \in Bundling => \A s \in left : Bundled(s) = {}

(* What has been or is still to be added of the folder of s.               *)
ToBundle(s) ==
  Bundled(s) \cup (IF s # asset THEN {}
                  ELSE IF pc \in {"list", "look"} THEN listing \cap Files
                  ELSE IF pc = "write" THEN (listing \cap Files) \cup {entry}
                  ELSE {})

FolderInv ==
  pc \in Bundling \/ archive = "closed" =>
    \A s \in service_assets \ left : \A e \in Files :
      IF ~ Passed(s, e) THEN e \notin ToBundle(s)
      ELSE /\ e \notin Changed(s) => (e \in ToBundle(s) <=> e \in In(s))
           /\ <<s, e>> \in kept => e \in ToBundle(s)

IInv ==
  TypeOK /\ HistoryInv /\ CountsInv /\ ArchiveInv /\ FolderInv /\ MembersWereThere

=============================================================================
