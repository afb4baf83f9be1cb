---------------------------- MODULE InitOrgProofs ----------------------------
(***************************************************************************)
(* Proofs about InitOrg for any number of processes, folders and           *)
(* templates: what inits that run at once may leave behind.                *)
(***************************************************************************)
EXTENDS InitOrg, TLAPS

(* The forms of a folder are told apart, and a template is not "none".     *)
LEMMA Forms ==
  /\ Absent # Bare /\ Absent # Torn /\ Absent # Mixed /\ Absent # Edited
  /\ Bare # Torn /\ Bare # Mixed /\ Torn # Mixed /\ Bare # Edited /\ Torn # Edited
  /\ \A t : Whole(t) # Absent /\ Whole(t) # Bare /\ Whole(t) # Torn /\ Whole(t) # Edited
  /\ Absent \in Folder /\ Bare \in Folder /\ Torn \in Folder /\ Edited \in Folder
  /\ Mixed \in Folder
  /\ \A t \in Texts : Whole(t) \in Folder
<1>1. /\ Absent.form = "absent" /\ Bare.form = "bare" /\ Torn.form = "torn"
      /\ Mixed.form = "mixed" /\ Edited.form = "edited" /\ \A t : Whole(t).form = "whole"
  BY DEF Absent, Bare, Torn, Mixed, Edited, Whole
<1> QED BY <1>1 DEF Folder, Template

(* The arguments of an init name a folder and a template.                  *)
LEMMA WantTyped ==
  ASSUME TypeOK, NEW p \in Proc
  PROVE  Target(p) \in OrgId /\ want[p].text \in Texts
BY DEF TypeOK, Arguments, Target

(* What write_text leaves of an empty file is the template.                *)
LEMMA OverTorn ==
  ASSUME NEW t \in Texts
  PROVE  Over(Torn, t) = Whole(t) /\ \A f \in Folder : Over(f, t) \in {Mixed, Whole(t)}
BY Forms DEF Over

(* The invariant holds before the first init.                              *)
LEMMA InitInv == Init => IInv
<1> SUFFICES ASSUME Init PROVE IInv
  OBVIOUS
<1>1. TypeOK
  BY Forms, InitAssumption DEF Init, TypeOK, PastTest
<1>2. HalfMadeHasACause /\ OkLeavesTemplate /\ Private /\ OpenIsThere
  BY Forms DEF Init, HalfMadeHasACause, OkLeavesTemplate, Private, OpenIsThere, PastTest
<1> QED BY <1>1, <1>2 DEF IInv

-----------------------------------------------------------------------------
(* What an action says of the process that takes it, and of the others.    *)
LEMMA GotoOf ==
  ASSUME TypeOK, NEW p \in Proc, NEW from, NEW to, Goto(p, from, to)
  PROVE  /\ pc[p] = from /\ pc'[p] = to /\ DOMAIN pc' = Proc
         /\ \A q \in Proc \ {p} : pc'[q] = pc[q]
         /\ want' = want /\ \A q : Target(q)' = Target(q)
BY DEF Goto, TypeOK, Target

(* People.                                                                 *)
LEMMA PeopleInv ==
  ASSUME IInv, NEW o \in OrgId, Edit(o) \/ Remove(o)
  PROVE  IInv'
<1> USE DEF IInv
<1>0. /\ touches < MaxTouches /\ touches' = touches + 1
      /\ \A p \in Proc : ~ (pc[p] = "writing" /\ Target(p) = o)
      /\ wrote' = [wrote EXCEPT ![o] = "none"]
      /\ pc' = pc /\ want' = want /\ result' = result /\ starts' = starts
      /\ broken' = broken \ {o}
      /\ folder' \in {[folder EXCEPT ![o] = Edited], [folder EXCEPT ![o] = Absent]}
      /\ \A p : Target(p)' = Target(p)
  BY DEF Edit, Remove, Touch, Untouchable, Target
<1>1. TypeOK'
  <2>1. CASE Edit(o)
    BY <1>0, <2>1, Forms, InitAssumption DEF TypeOK, Edit, PastTest
  <2>2. CASE Remove(o)
    BY <1>0, <2>2, Forms, InitAssumption DEF TypeOK, Remove, PastTest
  <2> QED BY <2>1, <2>2
<1>2. HalfMadeHasACause'
  BY <1>0, Forms DEF HalfMadeHasACause, TypeOK
<1>3. contested \subseteq contested'
  BY DEF Edit, Remove
<1>4. OkLeavesTemplate'
  BY <1>0, <1>3 DEF OkLeavesTemplate, TypeOK
<1>5. Private'
  <2>1. SUFFICES ASSUME NEW p \in Proc, pc[p] \in PastTest, Target(p) \notin contested'
                 PROVE  /\ wrote'[Target(p)] = "none"
                        /\ pc[p] \in {"recheck", "make"} => folder'[Target(p)] = Absent
                        /\ pc[p] = "open" => folder'[Target(p)] \in {Absent, Bare}
                        /\ pc[p] = "writing" =>
                             folder'[Target(p)] = Torn /\ Others(p, Target(p))' = {}
    BY <1>0 DEF Private
  <2>2. Others(p, Target(p))' = Others(p, Target(p))
    BY <1>0 DEF Others
  <2>3. CASE Target(p) # o
    BY <1>0, <1>3, <2>1, <2>2, <2>3, WantTyped DEF Private, TypeOK
  <2>4. CASE Target(p) = o
    <3>1. ~ Edit(o)
      BY <2>1, <2>4 DEF Edit
    <3>2. Remove(o)
      BY <3>1
    <3>3. folder' = [folder EXCEPT ![o] = Absent]
      BY <3>2 DEF Remove
    <3> QED BY <1>0, <3>3, <2>1, <2>4 DEF TypeOK
  <2> QED BY <2>3, <2>4
<1>6. OpenIsThere'
  BY <1>0, WantTyped DEF OpenIsThere, TypeOK
<1> QED BY <1>1, <1>2, <1>4, <1>5, <1>6

(* organizations/ made or removed while there is nothing in it.            *)
LEMMA ToggleInv == IInv /\ ToggleRoot => IInv'
<1> SUFFICES ASSUME IInv, ToggleRoot PROVE IInv'
  OBVIOUS
<1>1. \A p : Target(p)' = Target(p) /\ Others(p, Target(p))' = Others(p, Target(p))
  BY DEF ToggleRoot, Target, Others
<1>2. TypeOK'
  <2>1. root' \in BOOLEAN
    BY ZenonT(20) DEF ToggleRoot
  <2>2. touches' \in 0 .. MaxTouches /\ \A o \in OrgId : folder'[o] = Absent
    BY InitAssumption DEF IInv, TypeOK, ToggleRoot
  <2> QED BY <2>1, <2>2 DEF IInv, TypeOK, ToggleRoot, history
<1>3. HalfMadeHasACause' /\ OkLeavesTemplate' /\ OpenIsThere'
  BY <1>1 DEF IInv, ToggleRoot, history, HalfMadeHasACause, OkLeavesTemplate, OpenIsThere
<1>4. Private'
  <2>1. folder' = folder /\ pc' = pc /\ wrote' = wrote /\ contested' = contested
    BY DEF ToggleRoot, history
  <2>2. Private
    BY DEF IInv
  <2> QED BY <1>1, <2>1, <2>2 DEF Private
<1> QED BY <1>2, <1>3, <1>4 DEF IInv

(* Steps that leave the disk and the histories alone, and take nobody past *)
(* the test or out of the middle of mkdir and write.                       *)
LEMMA QuietInv ==
  ASSUME IInv, TypeOK', NEW p \in Proc, UNCHANGED <<disk, contested, wrote>>,
         \A q \in Proc \ {p} : pc'[q] = pc[q] /\ Target(q)' = Target(q),
         pc'[p] \notin PastTest,
         \/ pc[p] \notin {"open", "writing"} /\ broken' = broken
         \/ folder[Target(p)] = Absent /\ broken' = broken
         \/ broken' = broken \cup {Target(p)}
  PROVE  IInv'
<1> USE DEF IInv, disk
<1>1. HalfMadeHasACause'
  BY Forms DEF HalfMadeHasACause
<1>2. OkLeavesTemplate'
  BY DEF OkLeavesTemplate
<1>3. Private'
  BY DEF Private, Others
<1>4. OpenIsThere'
  BY DEF OpenIsThere, PastTest
<1> QED BY <1>1, <1>2, <1>3, <1>4

(* Passing a test.                                                         *)
LEMMA PassInv ==
  ASSUME IInv, NEW p \in Proc,
         TargetIsNew(p) \/ StillNew(p)
  PROVE  IInv'
<1> USE DEF IInv
<1>1. PICK to \in {"make", "recheck"} : \E from \in {"target", "recheck"} : Goto(p, from, to)
  BY DEF TargetIsNew, StillNew, AfterTest
<1>2. /\ folder[Target(p)] = Absent
      /\ UNCHANGED <<disk, result, history>>
  BY DEF TargetIsNew, StillNew, Missing
<1>3. /\ pc[p] \in {"target", "recheck"} /\ pc'[p] = to /\ DOMAIN pc' = Proc
      /\ \A q \in Proc \ {p} : pc'[q] = pc[q]
      /\ want' = want /\ \A q : Target(q)' = Target(q)
  BY <1>1, GotoOf
<1>4. TypeOK'
  BY <1>1, <1>2 DEF TypeOK, Goto, PastTest, disk, history, bounds
<1>5. HalfMadeHasACause'
  BY <1>2, <1>3 DEF HalfMadeHasACause, disk, history
<1>6. OkLeavesTemplate'
  BY <1>2 DEF OkLeavesTemplate, disk, history
<1>7. Private'
  <2>1. Target(p) \notin contested => wrote[Target(p)] = "none"
    BY <1>2, Forms, WantTyped DEF OkLeavesTemplate
  <2>2. ASSUME NEW q \in Proc \ {p}, pc[q] = "writing", Target(q) \notin contested
        PROVE  Target(q) # Target(p)
    BY <1>2, <2>2, Forms DEF Private, PastTest
  <2>3. ASSUME NEW q \in Proc \ {p}, Target(q) # Target(p)
        PROVE  Others(q, Target(q))' = Others(q, Target(q))
    BY <1>3, <2>3 DEF Others
  <2> QED BY <1>2, <1>3, <2>1, <2>2, <2>3 DEF Private, disk, history, PastTest
<1>8. OpenIsThere'
  BY <1>2, <1>3 DEF OpenIsThere, disk
<1> QED BY <1>4, <1>5, <1>6, <1>7, <1>8

(* mkdir, opening and closing config.yml: after each, the folder is        *)
(* contested if anybody else is past its test.                             *)
LEMMA CreateInv == ASSUME IInv, NEW p \in Proc, CreateDirectory(p) PROVE IInv'
<1> USE DEF IInv
<1>1. /\ pc[p] = "make" /\ pc'[p] = "open" /\ DOMAIN pc' = Proc
      /\ \A q \in Proc \ {p} : pc'[q] = pc[q]
      /\ want' = want /\ \A q : Target(q)' = Target(q)
  BY GotoOf DEF CreateDirectory
<1>2. /\ contested' = contested \cup {o \in {Target(p)} : Others(p, o) # {}}
      /\ \A o \in OrgId \ {Target(p)} : folder'[o] = folder[o]
      /\ folder'[Target(p)] = IF folder[Target(p)] = Absent THEN Bare ELSE folder[Target(p)]
      /\ folder' \in [OrgId -> Folder] /\ Target(p) \in OrgId
      /\ broken' = broken /\ wrote' = wrote
  BY WantTyped, Forms DEF CreateDirectory, Behind, Missing, TypeOK
<1>3. TypeOK'
  BY <1>1, <1>2 DEF TypeOK, CreateDirectory, Goto, bounds, PastTest
<1>4. HalfMadeHasACause'
  BY <1>1, <1>2 DEF HalfMadeHasACause
<1>5. OkLeavesTemplate'
  BY <1>1, <1>2, Forms DEF OkLeavesTemplate, Private, PastTest
<1>6. Private'
  <2>1. ASSUME NEW q \in Proc \ {p}, pc'[q] \in PastTest, Target(q) \notin contested'
        PROVE  Target(q) # Target(p)
    BY <1>1, <1>2, <2>1 DEF Others
  <2>2. ASSUME NEW q \in Proc \ {p}, Target(q) # Target(p)
        PROVE  Others(q, Target(q))' = Others(q, Target(q))
    BY <1>1, <2>2 DEF Others
  <2> QED BY <1>1, <1>2, <2>1, <2>2, WantTyped DEF Private, PastTest
<1>7. OpenIsThere'
  BY <1>1, <1>2, Forms, WantTyped DEF OpenIsThere
<1> QED BY <1>3, <1>4, <1>5, <1>6, <1>7

LEMMA OpenInv == ASSUME IInv, NEW p \in Proc, OpenConfig(p) PROVE IInv'
<1> USE DEF IInv
<1>1. /\ pc[p] = "open" /\ pc'[p] = "writing" /\ DOMAIN pc' = Proc
      /\ \A q \in Proc \ {p} : pc'[q] = pc[q]
      /\ want' = want /\ \A q : Target(q)' = Target(q)
  BY GotoOf DEF OpenConfig
<1>2. /\ contested' = contested \cup {o \in {Target(p)} : Others(p, o) # {}}
      /\ \A o \in OrgId \ {Target(p)} : folder'[o] = folder[o]
      /\ folder'[Target(p)] = Torn /\ folder[Target(p)] # Absent
      /\ folder' \in [OrgId -> Folder] /\ Target(p) \in OrgId
      /\ broken' = broken /\ wrote' = wrote
  BY WantTyped, Forms DEF OpenConfig, Behind, Missing, TypeOK
<1>3. TypeOK'
  BY <1>1, <1>2 DEF TypeOK, OpenConfig, Goto, bounds, PastTest
<1>4. HalfMadeHasACause'
  BY <1>1, <1>2 DEF HalfMadeHasACause
<1>5. OkLeavesTemplate'
  BY <1>1, <1>2, Forms DEF OkLeavesTemplate, Private, PastTest
<1>6. Private'
  <2>1. ASSUME NEW q \in Proc \ {p}, pc'[q] \in PastTest, Target(q) \notin contested'
        PROVE  Target(q) # Target(p)
    BY <1>1, <1>2, <2>1 DEF Others
  <2>2. ASSUME NEW q \in Proc, Target(q) # Target(p) \/ q = p
        PROVE  Others(q, Target(q))' = Others(q, Target(q))
    BY <1>1, <2>2 DEF Others, PastTest
  <2> QED BY <1>1, <1>2, <2>1, <2>2, WantTyped DEF Private, PastTest
<1>7. OpenIsThere'
  BY <1>1, <1>2, Forms, WantTyped DEF OpenIsThere
<1> QED BY <1>3, <1>4, <1>5, <1>6, <1>7

LEMMA CloseInv == ASSUME IInv, NEW p \in Proc, CloseConfig(p) PROVE IInv'
<1> USE DEF IInv
<1>1. /\ pc[p] = "writing" /\ pc'[p] = "idle" /\ DOMAIN pc' = Proc
      /\ \A q \in Proc \ {p} : pc'[q] = pc[q]
      /\ want' = want /\ \A q : Target(q)' = Target(q)
      /\ result' = [result EXCEPT ![p] = "ok"]
  BY GotoOf DEF CloseConfig, Return
<1>2. /\ contested' = contested \cup {o \in {Target(p)} : Others(p, o) # {}}
      /\ \A o \in OrgId \ {Target(p)} : folder'[o] = folder[o] /\ wrote'[o] = wrote[o]
      /\ folder'[Target(p)] = Over(folder[Target(p)], want[p].text)
      /\ wrote'[Target(p)] = want[p].text
      /\ wrote' \in [OrgId -> Texts \cup {"none"}]
      /\ folder' \in [OrgId -> Folder] /\ Target(p) \in OrgId
      /\ broken' = broken \ {Target(p)} /\ root' = root
      /\ folder'[Target(p)] \notin {Absent, Bare, Torn}
  BY WantTyped, Forms, OverTorn DEF CloseConfig, Behind, TypeOK
<1>3. TypeOK'
  <2>1. root
    BY <1>1, <1>2 DEF OpenIsThere, TypeOK
  <2> QED BY <1>1, <1>2, <2>1 DEF TypeOK, CloseConfig, Return, Goto, bounds, PastTest
<1>4. HalfMadeHasACause'
  BY <1>1, <1>2 DEF HalfMadeHasACause
<1>5. OkLeavesTemplate'
  BY <1>1, <1>2, OverTorn, WantTyped DEF OkLeavesTemplate, Private, PastTest
<1>6. Private'
  <2>1. ASSUME NEW q \in Proc \ {p}, pc'[q] \in PastTest, Target(q) \notin contested'
        PROVE  Target(q) # Target(p)
    BY <1>1, <1>2, <2>1 DEF Others
  <2>2. ASSUME NEW q \in Proc, Target(q) # Target(p)
        PROVE  Others(q, Target(q))' = Others(q, Target(q))
    BY <1>1, <2>2 DEF Others, PastTest
  <2> QED BY <1>1, <1>2, <2>1, <2>2, WantTyped DEF Private, PastTest
<1>7. OpenIsThere'
  BY <1>1, <1>2, Forms, WantTyped DEF OpenIsThere
<1> QED BY <1>3, <1>4, <1>5, <1>6, <1>7

-----------------------------------------------------------------------------
(* Every step keeps the invariant.                                         *)
LEMMA NextInv == IInv /\ [Next]_vars => IInv'
<1> SUFFICES ASSUME IInv, [Next]_vars PROVE IInv'
  OBVIOUS
<1>1. ASSUME NEW p \in Proc, Start(p) PROVE IInv'
  <2>1. TypeOK'
    BY <1>1, InitAssumption DEF IInv, TypeOK, Start, disk, history, PastTest
  <2>2. /\ pc[p] = "idle" /\ pc'[p] = "root"
        /\ \A q \in Proc \ {p} : pc'[q] = pc[q] /\ Target(q)' = Target(q)
    BY <1>1 DEF IInv, TypeOK, Start, Target
  <2> QED BY <1>1, <2>1, <2>2, QuietInv DEF Start, disk, history, PastTest
<1>2. ASSUME NEW p \in Proc,
             \/ EnsureRoot(p) \/ RootMissing(p) \/ TargetExists(p)
             \/ NoLongerNew(p) \/ FolderGone(p) \/ Interrupted(p)
      PROVE  IInv'
  <2>1. PICK from \in {"root", "target", "recheck", "open", pc[p]}, to \in {"target", "idle"} :
          /\ Goto(p, from, to)
          /\ from = "open" => FolderGone(p) \/ Interrupted(p)
    BY <1>2 DEF EnsureRoot, RootMissing, TargetExists, NoLongerNew, FolderGone, Interrupted,
                Return
  <2>2. TypeOK'
    BY <1>2, WantTyped DEF IInv, TypeOK, EnsureRoot, RootMissing, TargetExists, NoLongerNew, FolderGone,
                Interrupted, Return, Goto, disk, history, bounds, PastTest
  <2>3. /\ pc'[p] = to
        /\ \A q \in Proc \ {p} : pc'[q] = pc[q] /\ Target(q)' = Target(q)
    BY <2>1, GotoOf DEF IInv
  <2>4. \/ pc[p] \notin {"open", "writing"} /\ broken' = broken
        \/ folder[Target(p)] = Absent /\ broken' = broken
        \/ broken' = broken \cup {Target(p)}
    BY <1>2 DEF EnsureRoot, RootMissing, TargetExists, NoLongerNew, FolderGone, Interrupted,
                Return, Goto, history, Missing
  <2>5. UNCHANGED <<disk, contested, wrote>>
    BY <1>2 DEF EnsureRoot, RootMissing, TargetExists, NoLongerNew, FolderGone, Interrupted,
                history
  <2> QED BY <2>2, <2>3, <2>4, <2>5, QuietInv DEF PastTest
<1>3. ASSUME NEW p \in Proc, TargetIsNew(p) \/ StillNew(p) PROVE IInv'
  BY <1>3, PassInv
<1>4. ASSUME NEW p \in Proc, CreateDirectory(p) \/ OpenConfig(p) \/ CloseConfig(p) PROVE IInv'
  BY <1>4, CreateInv, OpenInv, CloseInv
<1>5. ASSUME NEW o \in OrgId, Edit(o) \/ Remove(o) PROVE IInv'
  BY <1>5, PeopleInv
<1>6. CASE ToggleRoot
  BY <1>6, ToggleInv
<1>7. CASE UNCHANGED vars
  <2>1. \A p : Target(p)' = Target(p) /\ \A o : Others(p, o)' = Others(p, o)
    BY <1>7 DEF vars, Target, Others
  <2> QED BY <1>7, <2>1 DEF vars, disk, bounds, history, IInv, TypeOK, HalfMadeHasACause,
             OkLeavesTemplate, Private, OpenIsThere
<1> QED BY <1>1, <1>2, <1>3, <1>4, <1>5, <1>6, <1>7 DEF Next, Step

(* The inductive invariant holds of every reachable state.                 *)
THEOREM Invariant == Spec => []IInv
BY InitInv, NextInv, PTL DEF Spec

(* Every variable keeps its shape, and a folder is there only below        *)
(* organizations/ (mkdir(parents=True) makes both).                        *)
THEOREM TypeCorrect == Spec => []TypeOK
<1>1. IInv => TypeOK
  BY DEF IInv
<1> QED BY <1>1, Invariant, PTL

(* An init that has returned leaves no folder without a config.yml and no  *)
(* empty config.yml, however many run at once (InitService.run).           *)
THEOREM NothingHalfMade == Spec => []HalfMadeHasACause
<1>1. IInv => HalfMadeHasACause
  BY DEF IInv
<1> QED BY <1>1, Invariant, PTL

(* The template of an init that returned ok stays, unless two went past    *)
(* the test of its folder together (_ensure_target, create_directory).     *)
THEOREM OkIsLasting == Spec => []OkLeavesTemplate
<1>1. IInv => OkLeavesTemplate
  BY DEF IInv
<1> QED BY <1>1, Invariant, PTL

(* Somebody's own config.yml is not overwritten, unless it came up behind  *)
(* the test (_ensure_target, write_text).                                  *)
THEOREM WorkIsSafe == Spec => WorkIsKept
<1> DEFINE Kept == \A o \in OrgId \ contested' :
                     folder[o] = Edited /\ ~ ByHand => folder'[o] = Edited
<1>1. IInv /\ [Next]_vars => [Kept]_vars
  <2> SUFFICES ASSUME IInv, Next PROVE Kept
    BY DEF vars
  <2>1. SUFFICES ASSUME NEW o \in OrgId \ contested', folder[o] = Edited, ~ ByHand
                 PROVE  folder'[o] = Edited
    OBVIOUS
  <2>2. ASSUME NEW p \in Proc, OpenConfig(p) \/ CloseConfig(p) PROVE folder'[o] = Edited
    <3>1. folder' = [folder EXCEPT ![Target(p)] = folder'[Target(p)]] /\ contested \subseteq contested'
      BY <2>2, WantTyped DEF OpenConfig, CloseConfig, IInv, TypeOK, Behind
    <3>2. pc[p] \in {"open", "writing"}
      BY <2>2 DEF OpenConfig, CloseConfig, Return, Goto
    <3>3. Target(p) # o
      BY <2>1, <3>1, <3>2, Forms DEF IInv, Private, PastTest
    <3> QED BY <2>1, <3>1, <3>3 DEF IInv, TypeOK
  <2>3. ASSUME NEW p \in Proc, CreateDirectory(p) PROVE folder'[o] = Edited
    BY <2>1, <2>3, Forms DEF CreateDirectory, Missing, IInv, TypeOK
  <2>4. ASSUME NEW x \in OrgId, Edit(x) \/ Remove(x) PROVE FALSE
    <3>1. touches' = touches + 1 /\ touches \in Nat
      BY <2>4, InitAssumption DEF Edit, Remove, Touch, IInv, TypeOK
    <3> QED BY <2>1, <3>1 DEF ByHand
  <2>5. ASSUME NEW p \in Proc,
               \/ Start(p) \/ EnsureRoot(p) \/ RootMissing(p) \/ TargetIsNew(p)
               \/ TargetExists(p) \/ StillNew(p) \/ NoLongerNew(p) \/ FolderGone(p)
               \/ Interrupted(p)
        PROVE  folder' = folder
    BY <2>5 DEF Start, EnsureRoot, RootMissing, TargetIsNew, TargetExists, StillNew, NoLongerNew,
                FolderGone, Interrupted, disk
  <2>6. ToggleRoot => folder' = folder
    BY DEF ToggleRoot
  <2> QED BY <2>1, <2>2, <2>3, <2>4, <2>5, <2>6 DEF Next, Step
<1>2. Spec => [][Kept]_vars
  BY <1>1, Invariant, PTL DEF Spec
<1> QED BY <1>2 DEF WorkIsKept

=============================================================================
