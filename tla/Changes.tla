------------------------------- MODULE Changes -------------------------------
(***************************************************************************)
(* changes.json: the comparison of a city with the build/network.json that *)
(* git HEAD holds (_build_changes and _diff_networks of data/renderer.py,  *)
(* data/git.py).  The file, the id of the commit and its date are asked    *)
(* for one after another, in three git processes, each of which may fail;  *)
(* in between, and between the builds, people commit and move HEAD.        *)
(*                                                                         *)
(* A city is, for each category, the list of its items; of an item only    *)
(* the key and the rest of its dump are kept.                              *)
(***************************************************************************)
EXTENDS Naturals, Sequences, FiniteSets

CONSTANTS
  Networks,   \* what the schema of network.json accepts
  Cities,     \* the accepted models among them, which may be built
  Histories,  \* the commits there may be at first, as what each holds
  None,       \* Python's None
  NoFile,     \* what a commit without build/network.json holds
  Foreign,    \* a build/network.json that today's schema does not accept
  MaxBuilds,  \* bound on the builds
  MaxMoves    \* bound on commits and moves of HEAD

Category == {"organization", "service", "link"}

File == Networks \cup {NoFile, Foreign}

Keys(items) == {items[i].key : i \in DOMAIN items}

(* {i.id: i for i in items}: a repeated key keeps the last item.           *)
ItemMap(items) ==
  [k \in Keys(items) |->
     items[CHOOSE i \in DOMAIN items :
             items[i].key = k /\ \A j \in DOMAIN items : items[j].key = k => j <= i].body]

ASSUME ChangesAssumption ==
  /\ \A city \in Networks, c \in Category :
       Len(city[c]) \in Nat /\ DOMAIN city[c] = 1 .. Len(city[c])
  /\ Cities \subseteq Networks
  /\ Histories \subseteq Seq(File)
  /\ NoFile \notin Networks /\ Foreign \notin Networks /\ NoFile # Foreign
  /\ None \notin Networks \cup Nat
  /\ MaxBuilds \in Nat
  /\ MaxMoves \in Nat

-----------------------------------------------------------------------------
(* _diff_networks.                                                         *)

Added(prev, curr)    == DOMAIN curr \ DOMAIN prev
Removed(prev, curr)  == DOMAIN prev \ DOMAIN curr

(* Mutant: only what is new or gone counts.                                *)
ModifiedNever(prev, curr) == {}

Modified(prev, curr) ==
  {k \in DOMAIN prev \cap DOMAIN curr : prev[k] # curr[k]}

Entries(category, change, keys) ==
  {[kind |-> category, id |-> k, change |-> change] : k \in keys}

DiffCategory(prev, curr, category) ==
  Entries(category, "added", Added(prev, curr))
    \cup Entries(category, "removed", Removed(prev, curr))
    \cup Entries(category, "modified", Modified(prev, curr))

(* Mutant: the two cities are taken in the wrong order.                    *)
SummaryBackwards(prev, curr) ==
  [added    |-> Cardinality(Removed(prev, curr)),
   removed  |-> Cardinality(Added(prev, curr)),
   modified |-> Cardinality(Modified(prev, curr))]

Summary(prev, curr) ==
  [added    |-> Cardinality(Added(prev, curr)),
   removed  |-> Cardinality(Removed(prev, curr)),
   modified |-> Cardinality(Modified(prev, curr))]

Diff(previous, current) ==
  [summary |-> [c \in Category |-> Summary(ItemMap(previous[c]), ItemMap(current[c]))],
   changes |-> UNION {DiffCategory(ItemMap(previous[c]), ItemMap(current[c]), c) :
                        c \in Category}]

NoDiff ==
  [summary |-> [c \in Category |-> [added |-> 0, removed |-> 0, modified |-> 0]],
   changes |-> {}]

-----------------------------------------------------------------------------
VARIABLES
  model,     \* the city under organizations/
  commits,   \* what build/network.json is in each commit ever made
  head,      \* the commit HEAD is at, 0 before the first one
  out,       \* the network.json of the last build that wrote its artifacts
  pc,        \* where the running build is
  network,   \* the city being rendered
  previous,  \* what the first git process returned
  ref,       \* what the second returned
  time,      \* what the third returned: here the commit that the date is of
  report,    \* changes.json of the last build that rendered
  builds,    \* builds so far
  moves,     \* commits and moves of HEAD so far
  seen,      \* history: the commit HEAD was at when previous was read
  heads,     \* history: the commits HEAD has been at since then
  failed     \* history: which of the other two processes have failed

repo    == <<commits, head, moves>>
answers == <<previous, ref, time>>
history == <<seen, heads, failed>>
vars    == <<model, repo, out, pc, network, answers, report, builds, history>>

Init ==
  /\ model \in Cities
  /\ commits \in Histories /\ head = Len(commits)
  /\ out = None
  /\ pc = "idle" /\ network = model
  /\ previous = None /\ ref = None /\ time = None
  /\ report = [compared |-> None, previous_ref |-> None,
               previous_generated_at |-> None, diff |-> NoDiff]
  /\ builds = 0 /\ moves = 0
  /\ seen = 0 /\ heads = {head} /\ failed = {}

Move(commit) ==
  /\ moves < MaxMoves
  /\ moves' = moves + 1
  /\ head' = commit
  /\ heads' = heads \cup {commit}
  /\ UNCHANGED <<model, out, pc, network, answers, report, builds, seen, failed>>

Held(commit) == IF commit = 0 THEN NoFile ELSE commits[commit]

(* A commit that leaves build/network.json as it is, or, build/ being      *)
(* ignored, one that takes it up by force.                                 *)
Commit ==
  /\ \E file \in {Held(head)} \cup ({out} \ {None}) : commits' = Append(commits, file)
  /\ Move(Len(commits) + 1)

(* git checkout, git reset.                                                *)
Checkout ==
  /\ \E commit \in (1 .. Len(commits)) \ {head} : Move(commit)
  /\ UNCHANGED commits

Edit ==
  /\ pc = "idle"
  /\ model' \in Cities \ {model}
  /\ UNCHANGED <<repo, out, pc, network, answers, report, builds, history>>

-----------------------------------------------------------------------------
(* ArtifactRenderer._build_changes within a build.                         *)

StartBuild ==
  /\ pc = "idle"
  /\ builds < MaxBuilds
  /\ builds' = builds + 1
  /\ network' = model
  /\ pc' = "previous"
  /\ UNCHANGED <<model, repo, out, answers, report, history>>

(* git show HEAD:build/network.json                                        *)
ReadPrevious(answer) ==
  /\ pc = "previous"
  /\ previous' = answer
  /\ seen' = head
  /\ heads' = {head}
  /\ failed' = {}

(* git fails: there is no such file, no commit, or it has failed otherwise *)
(* (CalledProcessError, FileNotFoundError).                                *)
NothingToCompare ==
  /\ ReadPrevious(None)
  /\ report' = [compared |-> None, previous_ref |-> None,
                previous_generated_at |-> None, diff |-> NoDiff]
  /\ pc' = "write"
  /\ UNCHANGED <<model, repo, out, network, ref, time, builds>>

(* model_validate_json raises: the build ends without artifacts.           *)
PreviousIsForeign ==
  /\ Held(head) = Foreign
  /\ ReadPrevious(Foreign)
  /\ pc' = "idle"
  /\ UNCHANGED <<model, repo, out, network, ref, time, report, builds>>

(* Mutant: whatever git returns is taken for a network.                    *)
ReadNetworkUnparsed ==
  /\ \E file \in {Held(head)} \ {NoFile} : ReadPrevious(file)
  /\ pc' = "ref"
  /\ UNCHANGED <<model, repo, out, network, ref, time, report, builds>>

(* The comparison is made before git is asked for the id of the commit.    *)
ReadNetwork ==
  /\ \E city \in {Held(head)} \ {NoFile, Foreign} : ReadPrevious(city)
  /\ pc' = "ref"
  /\ UNCHANGED <<model, repo, out, network, ref, time, report, builds>>

(* Mutant: the id asked for in an earlier build is good enough.            *)
ReadRefOnce ==
  /\ pc = "ref"
  /\ ref' = IF ref = None THEN head ELSE ref
  /\ pc' = "time"
  /\ UNCHANGED <<model, repo, out, network, previous, time, report, builds, history>>

(* git rev-parse HEAD; None if git fails, and the build goes on.           *)
ReadRef ==
  /\ pc = "ref"
  /\ \/ ref' = head /\ UNCHANGED failed
     \/ ref' = None /\ failed' = failed \cup {"ref"}
  /\ pc' = "time"
  /\ UNCHANGED <<model, repo, out, network, previous, time, report, builds, seen, heads>>

(* git log -1 --format=%cI; None if git fails, and the build goes on.      *)
ReadTimestamp ==
  /\ pc = "time"
  /\ \/ time' = head /\ UNCHANGED failed
     \/ time' = None /\ failed' = failed \cup {"time"}
  /\ report' = [compared |-> previous, previous_ref |-> ref,
                previous_generated_at |-> time', diff |-> Diff(previous, network)]
  /\ pc' = "write"
  /\ UNCHANGED <<model, repo, out, network, previous, ref, builds, seen, heads>>

(* The artifacts are written; before that, the build may be interrupted.   *)
WriteArtifacts ==
  /\ pc = "write"
  /\ out' = network
  /\ pc' = "idle"
  /\ UNCHANGED <<model, repo, network, answers, report, builds, history>>

Interrupted ==
  /\ pc # "idle"
  /\ pc' = "idle"
  /\ UNCHANGED <<model, repo, out, network, answers, report, builds, history>>

Build ==
  \/ StartBuild
  \/ NothingToCompare \/ PreviousIsForeign \/ ReadNetwork
  \/ ReadRef \/ ReadTimestamp
  \/ WriteArtifacts \/ Interrupted

Next == Build \/ Edit \/ Commit \/ Checkout

Spec == Init /\ [][Next]_vars

-----------------------------------------------------------------------------
(* Every variable keeps its shape; HEAD is at a commit there is.           *)
TypeOK ==
  /\ model \in Cities /\ network \in Cities
  /\ head \in 0 .. Len(commits)
  /\ out \in Cities \cup {None}
  /\ pc \in {"idle", "previous", "ref", "time", "write"}
  /\ commits \in Seq(File)
  /\ previous \in Networks \cup {Foreign, None}
  /\ pc \in {"ref", "time"} => previous \in Networks
  /\ builds \in 0 .. MaxBuilds
  /\ moves \in 0 .. MaxMoves
  /\ seen \in 0 .. Len(commits)
  /\ heads \subseteq 0 .. Len(commits)
  /\ failed \subseteq {"ref", "time"}

Fresh == pc = "write"

(* What a query tells: nothing if git has failed, else a commit that HEAD   *)
(* was at while changes.json was rendered.                                 *)
Tells(query, answer) == IF query \in failed THEN answer = None ELSE answer \in heads

(* Whatever moves HEAD and whichever git process fails: what changes.json  *)
(* compares with is the city of a commit; the commit it names, and the     *)
(* date it gives, are of one that HEAD was at while it was rendered, so of *)
(* this one unless HEAD has moved, and never of an earlier build.  One of  *)
(* them is missing only if git failed, or if there is nothing to compare.  *)
RefNamesCompared ==
  Fresh =>
    IF report.compared = None
    THEN report.previous_ref = None /\ report.previous_generated_at = None
    ELSE /\ commits[seen] = report.compared
         /\ seen \in heads
         /\ Tells("ref", report.previous_ref)
         /\ Tells("time", report.previous_generated_at)

(* changes.json is exact: the entries turn the items of the compared city  *)
(* into those of the built one, and none of them could be left out.        *)
Listed(changes, c, change) == {e.id : e \in {x \in changes : x.kind = c /\ x.change = change}}

Patched(prev, curr, changes, c) ==
  [k \in (DOMAIN prev \cup Listed(changes, c, "added")) \ Listed(changes, c, "removed") |->
     IF k \in Listed(changes, c, "added") \cup Listed(changes, c, "modified")
     THEN curr[k]
     ELSE prev[k]]

Turns(previous_network, current, changes) ==
  \A c \in Category :
    LET curr == ItemMap(current[c])
    IN  Patched(ItemMap(previous_network[c]), curr, changes, c) = curr

DiffIsExact ==
  Fresh /\ report.compared # None =>
    /\ Turns(report.compared, network, report.diff.changes)
    /\ \A e \in report.diff.changes :
         ~ Turns(report.compared, network, report.diff.changes \ {e})

(* The summary fits the counts of topology.json and of the archive's       *)
(* manifest: as long as no key is repeated in the compared city, a         *)
(* category has grown by what was added less what was removed.             *)
Distinct(items) == \A i, j \in DOMAIN items : items[i].key = items[j].key => i = j

CountsAddUp ==
  Fresh /\ report.compared # None =>
    \A c \in Category :
      LET sum == report.diff.summary[c]
      IN  Distinct(report.compared[c]) /\ Distinct(network[c]) =>
            Len(network[c]) + sum.removed = Len(report.compared[c]) + sum.added

-----------------------------------------------------------------------------
(* Why: the inductive invariant of ChangesProofs.                          *)

(* What the git processes that are done have returned is of commits that   *)
(* HEAD has been at since the first of them.                               *)
AnswersInv ==
  /\ head \in heads
  /\ pc \in {"ref", "time"} => seen # 0 /\ seen \in heads /\ commits[seen] = previous
  /\ pc = "ref" => failed = {}
  /\ pc = "time" => failed \subseteq {"ref"} /\ Tells("ref", ref)

(* changes.json when it is rendered.                                       *)
ReportInv ==
  Fresh /\ report.compared # None =>
    /\ report.compared \in Networks
    /\ seen # 0
    /\ report.diff = Diff(report.compared, network)

IInv == TypeOK /\ AnswersInv /\ ReportInv /\ RefNamesCompared

=============================================================================
