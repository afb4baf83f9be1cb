------------------------------- MODULE InitOrg -------------------------------
(***************************************************************************)
(* `init` (services/init.py, use_cases/init.py, data/filesystem.py):       *)
(* several processes test whether organizations/<id> exists, make it and   *)
(* write its config.yml, each step on its own, while people make, edit and *)
(* remove organization folders.  An init may be killed, or ended by an I/O *)
(* error, between any two steps.                                           *)
(*                                                                         *)
(* Nobody touches a folder by hand in the moment in which an init has its  *)
(* config.yml open.  --kind and the id are taken as given.                 *)
(***************************************************************************)
EXTENDS Naturals

CONSTANTS
  Proc,       \* processes that run init, one after another each
  OrgId,      \* organization ids
  Texts,      \* the templates that --kind and --empty choose from
  Size,       \* template -> its length
  MaxStarts,  \* bound on the inits that are started
  MaxTouches  \* bound on what is done by hand

ASSUME InitAssumption ==
  /\ Size \in [Texts -> Nat]
  /\ MaxStarts \in Nat
  /\ MaxTouches \in Nat

(* services/init.py is what the command line runs; the class of            *)
(* use_cases/init.py does the same with a second test.                     *)
Route == {"service", "use_case"}

(* What organizations/<id> is: nothing, a folder without config.yml, one   *)
(* whose config.yml has just been truncated, one with the whole template   *)
(* in it, one with the end of a longer template behind a shorter one, or   *)
(* somebody's work.                                                        *)
Absent   == [form |-> "absent"]
Bare     == [form |-> "bare"]
Torn     == [form |-> "torn"]
Mixed    == [form |-> "mixed"]
Edited   == [form |-> "edited"]
Whole(t) == [form |-> "whole", text |-> t]
Template == {Whole(t) : t \in Texts}
Folder   == {Absent, Bare, Torn, Mixed, Edited} \cup Template

VARIABLES
  root,       \* organizations/ exists
  folder,     \* org id -> Folder
  pc,         \* process -> where its init is
  want,       \* process -> its arguments
  result,     \* process -> what its last init returned
  starts,     \* inits started so far
  touches,    \* changes by hand so far
  broken,     \* history: the ids an init was interrupted on, mkdir done
  contested,  \* history: the ids that were changed behind the test of an init
  wrote       \* history: org id -> the template the last init to return ok
              \* wrote, "none" when it was touched by hand since

disk    == <<root, folder>>
bounds  == <<starts, touches>>
history == <<broken, contested, wrote>>
vars    == <<disk, pc, want, result, bounds, history>>

Arguments == [org : OrgId, text : Texts, route : Route]

Init ==
  /\ root \in BOOLEAN
  /\ folder = [o \in OrgId |-> Absent]
  /\ pc = [p \in Proc |-> "idle"]
  /\ want \in [Proc -> Arguments]
  /\ result = [p \in Proc |-> "none"]
  /\ starts = 0 /\ touches = 0
  /\ broken = {} /\ contested = {} /\ wrote = [o \in OrgId |-> "none"]

(* The steps that follow a passed test.                                    *)
PastTest == {"recheck", "make", "open", "writing"}

Target(p) == want[p].org

(* Inits other than p that have passed their test of folder o.             *)
Others(p, o) == {q \in Proc \ {p} : pc[q] \in PastTest /\ Target(q) = o}

Behind(p) == contested \cup {o \in {Target(p)} : Others(p, o) # {}}

-----------------------------------------------------------------------------
(* People.                                                                 *)

Untouchable(o) == \E p \in Proc : pc[p] = "writing" /\ Target(p) = o

Touch(o) ==
  /\ touches < MaxTouches
  /\ touches' = touches + 1
  /\ ~ Untouchable(o)
  /\ wrote' = [wrote EXCEPT ![o] = "none"]
  /\ UNCHANGED <<pc, want, result, starts>>

(* A config.yml is written or changed by hand.                             *)
Edit(o) ==
  /\ Touch(o)
  /\ root' = TRUE
  /\ folder' = [folder EXCEPT ![o] = Edited]
  /\ broken' = broken \ {o}
  /\ contested' = contested \cup
       {x \in {o} : \E p \in Proc : pc[p] \in PastTest /\ Target(p) = x}

Remove(o) ==
  /\ folder[o] # Absent
  /\ Touch(o)
  /\ folder' = [folder EXCEPT ![o] = Absent]
  /\ broken' = broken \ {o}
  /\ UNCHANGED <<root, contested>>

(* organizations/ is made, or removed when it is empty.                    *)
ToggleRoot ==
  /\ touches < MaxTouches
  /\ touches' = touches + 1
  /\ \A o \in OrgId : folder[o] = Absent
  /\ root' = ~ root
  /\ UNCHANGED <<folder, pc, want, result, starts, history>>

-----------------------------------------------------------------------------
(* InitService.run and InitUseCase.execute.                                *)

Start(p) ==
  /\ pc[p] = "idle"
  /\ starts < MaxStarts
  /\ starts' = starts + 1
  /\ \E args \in Arguments : want' = [want EXCEPT ![p] = args]
  /\ pc' = [pc EXCEPT ![p] = "root"]
  /\ result' = [result EXCEPT ![p] = "none"]
  /\ UNCHANGED <<disk, touches, history>>

Goto(p, from, to) ==
  /\ pc[p] = from
  /\ pc' = [pc EXCEPT ![p] = to]
  /\ UNCHANGED <<want, bounds>>

Return(p, from, reply) ==
  /\ Goto(p, from, "idle")
  /\ result' = [result EXCEPT ![p] = reply]

EnsureRoot(p) ==
  /\ root
  /\ Goto(p, "root", "target")
  /\ UNCHANGED <<disk, result, history>>

RootMissing(p) ==
  /\ ~ root
  /\ Return(p, "root", "failed")
  /\ UNCHANGED <<disk, history>>

Missing(p) == folder[Target(p)] = Absent

AfterTest(p) == IF want[p].route = "service" THEN "make" ELSE "recheck"

(* Mutant: the folder is not looked at.                                    *)
TargetIsTaken(p) ==
  /\ Goto(p, "target", AfterTest(p))
  /\ UNCHANGED <<disk, result, history>>

TargetIsNew(p) ==
  /\ Missing(p)
  /\ Goto(p, "target", AfterTest(p))
  /\ UNCHANGED <<disk, result, history>>

TargetExists(p) ==
  /\ ~ Missing(p)
  /\ Return(p, "target", "failed")
  /\ UNCHANGED <<disk, history>>

(* InitTemplate.write_config tests again, outside the try statement.       *)
StillNew(p) ==
  /\ Missing(p)
  /\ Goto(p, "recheck", "make")
  /\ UNCHANGED <<disk, result, history>>

NoLongerNew(p) ==
  /\ ~ Missing(p)
  /\ Return(p, "recheck", "raised")
  /\ UNCHANGED <<disk, history>>

(* Mutant: a folder is made, but not organizations/ above it.              *)
CreateDirectoryAlone(p) ==
  /\ Goto(p, "make", "open")
  /\ folder' = IF Missing(p) THEN [folder EXCEPT ![Target(p)] = Bare] ELSE folder
  /\ contested' = Behind(p)
  /\ UNCHANGED <<root, result, broken, wrote>>

(* mkdir(parents=True, exist_ok=True)                                      *)
CreateDirectory(p) ==
  /\ Goto(p, "make", "open")
  /\ root' = TRUE
  /\ folder' = IF Missing(p) THEN [folder EXCEPT ![Target(p)] = Bare] ELSE folder
  /\ contested' = Behind(p)
  /\ UNCHANGED <<result, broken, wrote>>

(* write_text opens config.yml and truncates it ...                        *)
OpenConfig(p) ==
  /\ ~ Missing(p)
  /\ Goto(p, "open", "writing")
  /\ folder' = [folder EXCEPT ![Target(p)] = Torn]
  /\ contested' = Behind(p)
  /\ UNCHANGED <<root, result, broken, wrote>>

(* ... which fails when the folder is gone again ...                       *)
FolderGone(p) ==
  /\ Missing(p)
  /\ Return(p, "open", IF want[p].route = "service" THEN "failed" ELSE "raised")
  /\ UNCHANGED <<disk, history>>

(* ... and writes the template over what is there by now, from its first   *)
(* byte on: the end of a longer one stays.                                 *)
Over(found, text) ==
  IF \/ found = Mixed
     \/ \E t \in Texts : found = Whole(t) /\ Size[t] > Size[text]
  THEN Mixed
  ELSE Whole(text)

(* Mutant: the text is still in the buffer when init returns.              *)
CloseConfigUnflushed(p) ==
  /\ Return(p, "writing", "ok")
  /\ wrote' = [wrote EXCEPT ![Target(p)] = want[p].text]
  /\ contested' = Behind(p)
  /\ UNCHANGED <<disk, broken>>

(* Mutant: --kind and --empty are not looked at.                           *)
CloseConfigAnyTemplate(p) ==
  /\ Return(p, "writing", "ok")
  /\ folder' = [folder EXCEPT ![Target(p)] = Over(@, CHOOSE t \in Texts : TRUE)]
  /\ wrote' = [wrote EXCEPT ![Target(p)] = want[p].text]
  /\ broken' = broken \ {Target(p)}
  /\ contested' = Behind(p)
  /\ UNCHANGED root

CloseConfig(p) ==
  /\ Return(p, "writing", "ok")
  /\ folder' = [folder EXCEPT ![Target(p)] = Over(@, want[p].text)]
  /\ wrote' = [wrote EXCEPT ![Target(p)] = want[p].text]
  /\ broken' = broken \ {Target(p)}
  /\ contested' = Behind(p)
  /\ UNCHANGED root

(* The process is killed, or an error other than FileNotFoundError and     *)
(* FileExistsError ends it.                                                *)
Interrupted(p) ==
  /\ pc[p] # "idle"
  /\ Return(p, pc[p], "raised")
  /\ broken' = broken \cup {o \in {Target(p)} : pc[p] \in {"open", "writing"}}
  /\ UNCHANGED <<disk, contested, wrote>>

Step(p) ==
  \/ EnsureRoot(p) \/ RootMissing(p)
  \/ TargetIsNew(p) \/ TargetExists(p)
  \/ StillNew(p) \/ NoLongerNew(p)
  \/ CreateDirectory(p) \/ OpenConfig(p) \/ FolderGone(p) \/ CloseConfig(p)

Next ==
  \/ \E p \in Proc : Start(p) \/ Step(p) \/ Interrupted(p)
  \/ \E o \in OrgId : Edit(o) \/ Remove(o)
  \/ ToggleRoot

Spec == Init /\ [][Next]_vars

-----------------------------------------------------------------------------
(* Every variable keeps its shape, and a folder is there only below        *)
(* organizations/.                                                         *)
TypeOK ==
  /\ root \in BOOLEAN
  /\ folder \in [OrgId -> Folder]
  /\ pc \in [Proc -> {"idle", "root", "target"} \cup PastTest]
  /\ want \in [Proc -> Arguments]
  /\ result \in [Proc -> {"none", "ok", "failed", "raised"}]
  /\ starts \in 0 .. MaxStarts
  /\ touches \in 0 .. MaxTouches
  /\ broken \subseteq OrgId
  /\ contested \subseteq OrgId
  /\ wrote \in [OrgId -> Texts \cup {"none"}]
  /\ (\E o \in OrgId : folder[o] # Absent) => root

(* What `check` passes over in silence (a folder without config.yml) or    *)
(* refuses (an empty one) is never left behind by an init that returned,   *)
(* with whatever result and however many ran at once: it is the work of an *)
(* init that runs or was interrupted.                                      *)
HalfMadeHasACause ==
  \A o \in OrgId :
    folder[o] \in {Bare, Torn} =>
      \/ o \in broken
      \/ \E p \in Proc : pc[p] \in {"open", "writing"} /\ Target(p) = o

(* An init that returned ok has left its template whole, and no later init *)
(* has changed it, unless two went past the test together.                 *)
OkLeavesTemplate ==
  \A o \in OrgId \ contested :
    wrote[o] # "none" => folder[o] = Whole(wrote[o])

(* What somebody wrote by hand, an init never overwrites, unless the       *)
(* folder came up behind its test.                                         *)
ByHand == touches' # touches

WorkIsKept ==
  [][\A o \in OrgId \ contested' :
       folder[o] = Edited /\ ~ ByHand => folder'[o] = Edited]_vars

(* services/init.py, InitService.run: creates a new organization           *)
(* directory, "raising if it already exists" (_ensure_target).             *)
OnlyNewDirectories ==
  [][\A p \in Proc :
       pc[p] = "make" /\ pc'[p] = "open" => folder[Target(p)] = Absent]_vars

-----------------------------------------------------------------------------
(* Why: the inductive invariant of InitOrgProofs.                          *)

(* While one init alone is past its test of an uncontested folder, the     *)
(* folder is as that init left it.                                         *)
Private ==
  \A p \in Proc : pc[p] \in PastTest /\ Target(p) \notin contested =>
    /\ wrote[Target(p)] = "none"
    /\ pc[p] \in {"recheck", "make"} => folder[Target(p)] = Absent
    /\ pc[p] = "open" => folder[Target(p)] \in {Absent, Bare}
    /\ pc[p] = "writing" =>
         folder[Target(p)] = Torn /\ Others(p, Target(p)) = {}

(* Nobody removes the folder of an open config.yml.                        *)
OpenIsThere == \A p \in Proc : pc[p] = "writing" => folder[Target(p)] # Absent

IInv == TypeOK /\ HalfMadeHasACause /\ OkLeavesTemplate /\ Private /\ OpenIsThere

=============================================================================
