---------------------------- MODULE ValidateProofs ----------------------------
(***************************************************************************)
(* Proofs about the pipeline and about the views of what it accepts, for   *)
(* every content of the files, every edit and every draw of the allocator. *)
(*                                                                         *)
(* The inductive invariant says, besides the types, what the loader has    *)
(* read so far (Reading), that an issue accounts for everything it left    *)
(* out (Whole), where the assets come from (Noted), and what allocator and *)
(* rules have computed (Computed).  The properties of accepted models then *)
(* follow from the facts about cities of PlanProofs.                       *)
(*                                                                         *)
(* While nobody edits, all that the loader holds is what the files make of *)
(* it (Steady), and so a second run ends as the first did (Repeating).     *)
(***************************************************************************)
EXTENDS Views, PlanProofs

-----------------------------------------------------------------------------
(* What a config.yml declares.                                             *)

(* The fields of a mapping, as the schema leaves them.                     *)
LEMMA MappingFields ==
  ASSUME NEW cfg \in ConfigFile, cfg.form = "mapping"
  PROVE  /\ cfg.id \in STRING /\ cfg.valid \in BOOLEAN
         /\ cfg.networks \in Seq(Network(NetworkName))
         /\ cfg.services \in Seq(Service(STRING, NetworkName, STRING) \cup {Invalid})
         /\ cfg.links \in Seq(Link(STRING) \cup {Invalid})
BY DEF ConfigFile, Unreadable, Malformed

(* Of a list of items and refused items, those that are left are items.    *)
LEMMA ValidItemsType ==
  ASSUME NEW T, NEW items \in Seq(T \cup {Invalid})
  PROVE  /\ ValidItems(items) \in Seq(T)
         /\ (\A i \in DOMAIN items : IsValid(items[i])) => ValidItems(items) = items
<1> DEFINE A == {i \in DOMAIN items : IsValid(items[i])}
<1>1. A \in SUBSET DOMAIN items /\ \A i \in A : items[i] \in T
  BY DEF IsValid
<1>2. (\A i \in DOMAIN items : IsValid(items[i])) => A = DOMAIN items
  OBVIOUS
<1> HIDE DEF A
<1>3. /\ A = DOMAIN items => Selected(items, A) = items
      /\ \A U : (\A i \in A : items[i] \in U) => Selected(items, A) \in Seq(U)
  BY <1>1, SelectedFacts
<1> QED
  BY <1>1, <1>2, <1>3 DEF ValidItems, A

(* Setting the org_id of the services leaves services.                     *)
LEMMA WithOrgType ==
  ASSUME NEW d \in STRING, NEW items \in Seq(Service(STRING, NetworkName, STRING))
  PROVE  /\ WithOrg(d, items) \in Seq(Service(STRING, NetworkName, STRING))
         /\ Len(WithOrg(d, items)) = Len(items)
         /\ DOMAIN WithOrg(d, items) = DOMAIN items
         /\ \A i \in DOMAIN items : WithOrg(d, items)[i].id = items[i].id
<1> DEFINE S == Service(STRING, NetworkName, STRING)
           n == Len(items)
<1>1. n \in Nat /\ DOMAIN items = 1 .. n /\ \A i \in 1 .. n : items[i] \in S
  OBVIOUS
<1>2. \A s \in S : [s EXCEPT !.org_id = d] \in S /\ [s EXCEPT !.org_id = d].id = s.id
  BY DEF Service
<1>3. /\ DOMAIN WithOrg(d, items) = 1 .. n
      /\ \A i \in 1 .. n : /\ WithOrg(d, items)[i] \in S
                           /\ WithOrg(d, items)[i].id = items[i].id
  BY <1>1, <1>2 DEF WithOrg
<1>4. WithOrg(d, items) \in [1 .. n -> S]
  BY <1>1, <1>3 DEF WithOrg
<1>5. WithOrg(d, items) \in Seq(S)
  BY <1>1, <1>4, SeqDef
<1> QED
  BY <1>1, <1>3, <1>5, LenProperties

(* Nor does it make a list longer.                                         *)
LEMMA WithOrgLength ==
  ASSUME NEW d, NEW cfg \in ConfigFile, cfg.form = "mapping"
  PROVE  Len(WithOrg(d, cfg.services)) \in Nat
<1> DEFINE items == cfg.services
           T == {WithOrg(d, items)[i] : i \in 1 .. Len(items)}
<1>1. Len(items) \in Nat /\ DOMAIN items = 1 .. Len(items)
  BY MappingFields
<1>2. WithOrg(d, items) \in [1 .. Len(items) -> T]
  BY <1>1 DEF WithOrg
<1>3. WithOrg(d, items) \in Seq(T)
  BY <1>1, <1>2, SeqDef
<1> QED
  BY <1>3, LenProperties

(* What the loader takes from a mapping it keeps.                          *)
LEMMA DeclaredLists ==
  ASSUME NEW d \in STRING, NEW cfg \in ConfigFile, cfg.form = "mapping"
  PROVE  /\ OrgOf(d, cfg) \in Organization(STRING, NetworkName)
         /\ ServicesOf(d, cfg) \in Seq(Service(STRING, NetworkName, STRING))
         /\ LinksOf(cfg) \in Seq(Link(STRING))
<1>1. /\ cfg.networks \in Seq(Network(NetworkName))
      /\ cfg.services \in Seq(Service(STRING, NetworkName, STRING) \cup {Invalid})
      /\ cfg.links \in Seq(Link(STRING) \cup {Invalid})
  BY MappingFields
<1>2. ValidItems(cfg.services) \in Seq(Service(STRING, NetworkName, STRING))
  BY <1>1, ValidItemsType
<1>3. ValidItems(cfg.links) \in Seq(Link(STRING))
  BY <1>1, ValidItemsType
<1>4. OrgOf(d, cfg) \in Organization(STRING, NetworkName)
  BY <1>1 DEF OrgOf, Organization
<1> QED
  BY <1>2, <1>3, <1>4, WithOrgType DEF ServicesOf, LinksOf

(* The schema accepts every item.                                          *)
AllValid(cfg) ==
  /\ \A i \in DOMAIN cfg.services : IsValid(cfg.services[i])
  /\ \A i \in DOMAIN cfg.links : IsValid(cfg.links[i])

(* Items are dropped under an error: without one, nothing was.             *)
LEMMA NothingInvalid ==
  ASSUME NEW d, NEW cfg \in ConfigFile, cfg.form = "mapping",
         \A issue \in ItemIssues(d, cfg) : IsWarning(issue)
  PROVE  AllValid(cfg)
<1>1. \A i \in DOMAIN cfg.services : ~ IsValid(cfg.services[i]) =>
        <<"L002", <<d, "services", i>>>> \in ItemIssues(d, cfg)
  BY DEF ItemIssues, Issues
<1>2. \A i \in DOMAIN cfg.links : ~ IsValid(cfg.links[i]) =>
        <<"L002", <<d, "links", i>>>> \in ItemIssues(d, cfg)
  BY DEF ItemIssues, Issues
<1>3. \A place : ~ IsWarning(<<"L002", place>>)
  BY DEF IsWarning
<1> QED
  BY <1>1, <1>2, <1>3 DEF AllValid

(* So without an error the lists are kept as they are.                     *)
LEMMA KeptWhole ==
  ASSUME NEW d, NEW cfg \in ConfigFile, cfg.form = "mapping",
         \A issue \in ItemIssues(d, cfg) : IsWarning(issue)
  PROVE  /\ ServicesOf(d, cfg) = WithOrg(d, cfg.services)
         /\ LinksOf(cfg) = cfg.links
<1>1. /\ cfg.services \in Seq(Service(STRING, NetworkName, STRING) \cup {Invalid})
      /\ cfg.links \in Seq(Link(STRING) \cup {Invalid})
  BY MappingFields
<1>2. ValidItems(cfg.services) = cfg.services
  BY <1>1, NothingInvalid, ValidItemsType DEF AllValid
<1>3. ValidItems(cfg.links) = cfg.links
  BY <1>1, NothingInvalid, ValidItemsType DEF AllValid
<1> QED
  BY <1>2, <1>3 DEF ServicesOf, LinksOf

-----------------------------------------------------------------------------
(* Lists put together.                                                     *)

(* Nothing is the concatenation of no parts.                               *)
LEMMA ConcatenatesNothing ==
  ASSUME NEW parts, parts = <<>>
  PROVE  Concatenates(<<>>, parts)
<1> DEFINE cut == [i \in 0 .. 0 |-> 0]
<1>1. Len(<<>>) = 0 /\ Len(parts) = 0
  OBVIOUS
<1>2. /\ cut \in [0 .. Len(parts) -> 0 .. Len(<<>>)]
      /\ cut[0] = 0 /\ cut[Len(parts)] = Len(<<>>)
  BY <1>1
<1>3. \A i \in 1 .. Len(parts) : FALSE
  BY <1>1
<1> HIDE DEF cut
<1> QED
  BY <1>2, <1>3 DEF Concatenates

(* One more part.                                                          *)
LEMMA ConcatenatesMore ==
  ASSUME NEW T, NEW whole \in Seq(T), NEW more \in Seq(T),
         NEW P, NEW parts \in Seq(P), \A i \in DOMAIN parts : Len(parts[i]) \in Nat,
         Concatenates(whole, parts)
  PROVE  Concatenates(whole \o more, Append(parts, more))
<1> DEFINE n   == Len(parts)
           all == whole \o more
           new == Append(parts, more)
<1>1. PICK cut \in [0 .. n -> 0 .. Len(whole)] :
        /\ cut[0] = 0 /\ cut[n] = Len(whole)
        /\ \A i \in 1 .. n :
             /\ cut[i] = cut[i - 1] + Len(parts[i])
             /\ \A j \in 1 .. Len(parts[i]) : whole[cut[i - 1] + j] = parts[i][j]
  BY DEF Concatenates
<1> DEFINE next == [i \in 0 .. n + 1 |-> IF i = n + 1 THEN Len(all) ELSE cut[i]]
<1>2. /\ n \in Nat /\ Len(whole) \in Nat /\ Len(more) \in Nat
      /\ Len(all) = Len(whole) + Len(more) /\ Len(new) = n + 1
      /\ \A i \in 1 .. n : new[i] = parts[i] /\ Len(parts[i]) \in Nat
      /\ new[n + 1] = more
      /\ \A j \in 1 .. Len(whole) : all[j] = whole[j]
      /\ \A j \in 1 .. Len(more) : all[Len(whole) + j] = more[j]
  OBVIOUS
<1>21. \A i \in 0 .. n : cut[i] \in 0 .. Len(whole) /\ cut[i] \in 0 .. Len(all) /\ i # n + 1
  BY <1>2
<1>22. \A i \in 0 .. n + 1 : i = n + 1 \/ i \in 0 .. n
  BY <1>2
<1>23. Len(all) \in 0 .. Len(all) /\ 0 \in 0 .. n /\ n + 1 \in 0 .. n + 1
  BY <1>2
<1>3. /\ next \in [0 .. n + 1 -> 0 .. Len(all)]
      /\ next[0] = 0 /\ next[n + 1] = Len(all)
      /\ \A i \in 0 .. n : next[i] = cut[i] /\ cut[i] \in 0 .. Len(whole)
  <2> HIDE DEF all, new, n
  <2>1. next \in [0 .. n + 1 -> 0 .. Len(all)]
    BY <1>21, <1>22, <1>23
  <2>2. \A i \in 0 .. n : next[i] = cut[i] /\ cut[i] \in 0 .. Len(whole)
    <3>1. \A i \in 0 .. n : i \in 0 .. n + 1
      BY <1>2
    <3> QED
      BY <1>21, <3>1
  <2>3. next[n + 1] = Len(all)
    BY <1>23
  <2>4. next[0] = 0
    BY <1>1, <1>23, <2>2
  <2> QED
    BY <2>1, <2>2, <2>3, <2>4
<1> HIDE DEF next, all, new, n
<1>4. ASSUME NEW i \in 1 .. n + 1
      PROVE  /\ next[i] = next[i - 1] + Len(new[i])
             /\ \A j \in 1 .. Len(new[i]) : all[next[i - 1] + j] = new[i][j]
  <2>1. CASE i = n + 1
    <3>1. next[n] = Len(whole) /\ i - 1 = n /\ new[i] = more
      BY <1>1, <1>2, <1>3, <2>1
    <3> QED
      BY <1>2, <1>3, <2>1, <3>1
  <2>2. CASE i \in 1 .. n
    <3>1. /\ next[i] = cut[i] /\ next[i - 1] = cut[i - 1] /\ new[i] = parts[i]
          /\ cut[i] = cut[i - 1] + Len(parts[i])
          /\ cut[i] \in 0 .. Len(whole) /\ cut[i - 1] \in 0 .. Len(whole)
          /\ Len(parts[i]) \in Nat
      BY <1>1, <1>2, <1>3, <2>2
    <3>2. \A j \in 1 .. Len(parts[i]) : /\ cut[i - 1] + j \in 1 .. Len(whole)
                                        /\ whole[cut[i - 1] + j] = parts[i][j]
      <4>1. \A j \in 1 .. Len(parts[i]) : cut[i - 1] + j \in 1 .. Len(whole)
        BY <1>2, <3>1
      <4> QED
        BY <1>1, <2>2, <4>1
    <3> QED
      BY <1>2, <3>1, <3>2
  <2> QED
    BY <1>2, <2>1, <2>2
<1>5. Concatenates(all, new)
  <2>1. /\ next \in [0 .. Len(new) -> 0 .. Len(all)]
        /\ next[0] = 0 /\ next[Len(new)] = Len(all)
    BY <1>2, <1>3
  <2>2. \A i \in 1 .. Len(new) :
          /\ next[i] = next[i - 1] + Len(new[i])
          /\ \A j \in 1 .. Len(new[i]) : all[next[i - 1] + j] = new[i][j]
    BY <1>2, <1>4
  <2> QED
    BY <2>1, <2>2 DEF Concatenates
<1> QED
  BY <1>5 DEF all, new

-----------------------------------------------------------------------------
(* The inductive invariant.                                                *)

(* So many folders have been read.                                         *)
FoldersRead == IF pc = "assets" THEN pos ELSE pos - 1

(* The loader keeps what it has read of this folder.                       *)
Kept(d, cfg) == cfg.form = "mapping" /\ ~ Refused(d, cfg)

(* What the loader has read of a folder is a config.yml that could be      *)
(* read, and the services it keeps of it are in the city.                  *)
Reading ==
  /\ pc = "find" => found = <<>> /\ city = EmptyCity
  /\ found = <<>> => pc \in {"find", "raised"}
  /\ pc = "assets" => pos <= Len(found) /\ Kept(found[pos], read[found[pos]])
  /\ \A d \in DOMAIN read :
       /\ read[d] \in ConfigFile \ {Unreadable}
       /\ Kept(d, read[d]) => Range(ServicesOf(d, read[d])) \subseteq Range(city.services)

(* As long as the loader has found no error, the city is what the folders  *)
(* it has read declare, and the schema accepts all of it.                  *)
Whole ==
  (\A issue \in issues : IsWarning(issue)) =>
    /\ \A i \in 1 .. FoldersRead : Declared(found[i]) /\ AllValid(read[found[i]])
    /\ city.organizations = [i \in 1 .. FoldersRead |-> OrgOf(found[i], read[found[i]])]
    /\ Concatenates(city.services,
         [i \in 1 .. FoldersRead |-> WithOrg(found[i], read[found[i]].services)])
    /\ Concatenates(city.links, [i \in 1 .. FoldersRead |-> read[found[i]].links])

(* The asset folder a was declared in its organization's config.yml.       *)
Owns(a, cfg) == Kept(a[1], cfg) /\ a[2] \in Ids(ServicesOf(a[1], cfg))

(* An asset belongs to a service that its folder's config.yml declares: in *)
(* what a new loader has read and, as long as nobody edits, in the files.  *)
Noted ==
  /\ IsFiniteSet(assets) /\ assets \subseteq Dirs \X SvcId
  /\ runs = 1 => \A a \in assets : a[1] \in DOMAIN read /\ Owns(a, read[a[1]])
  /\ edits = 0 =>
       /\ \A a \in assets : Owns(a, config[a[1]])
       /\ \A d \in DOMAIN read : read[d] = config[d]
       /\ pc # "find" => \A d \in Dirs : HasConfig(d) => d \in Range(found)

(* Once the plan is drawn, the whole city has been read and fits; in the   *)
(* end the report and the verdict are those of the rules.                  *)
Computed ==
  /\ pc \in {"check", "done"} =>
       /\ pos = Len(found) + 1
       /\ Fits(city)
       /\ \E indices \in Shuffles(Len(city.organizations)) : plan = Plan(city, indices)
  /\ pc = "done" => report = Check(city, plan) /\ ok = Accepts(issues \cup report)

(* The conjunction of them is inductive.                                   *)
IInv == TypeOK /\ Reading /\ Whole /\ Noted /\ Computed

-----------------------------------------------------------------------------
(* The folder that is read.                                                *)

(* The folders are texts.                                                  *)
LEMMA DirsAreTexts == Dirs \subseteq STRING
BY ValidateAssumption DEF Dirs, Range

(* A config.yml that is there and can be read is a file.                   *)
LEMMA ReadableFile ==
  ASSUME NEW d \in Dirs, NEW cfg \in Contents(d)
  PROVE  /\ cfg \in ConfigFile \cup {Absent}
         /\ cfg.form = "mapping" => cfg \in ConfigFile \ {Unreadable} /\ cfg # Absent
         /\ Refused(d, cfg) => cfg \in ConfigFile \ {Unreadable} /\ cfg # Absent
         /\ cfg \in ConfigFile \ {Unreadable} => cfg.form \in {"mapping", "malformed"}
<1>1. cfg \in ConfigFile \cup {Absent}
  BY ConfigsAssumption DEF Contents, Dirs
<1>2. Absent.form = "absent" /\ Unreadable.form = "unreadable" /\ Malformed.form = "malformed"
  BY DEF Absent, Unreadable, Malformed
<1>3. cfg \in ConfigFile => cfg \in {Unreadable, Malformed} \/ cfg.form = "mapping"
  BY DEF ConfigFile
<1> QED
  BY <1>1, <1>2, <1>3 DEF Refused

(* The folder at hand is one of those found, and is read once.             *)
LEMMA AtFolder ==
  ASSUME TypeOK, pos <= Len(found)
  PROVE  /\ found[pos] \in Dirs /\ found[pos] \in STRING
         /\ config[found[pos]] \in Contents(found[pos])
         /\ pos \in 1 .. Len(found) /\ Len(found) \in Nat
         /\ pc # "assets" =>
              /\ found[pos] \notin DOMAIN read
              /\ DOMAIN read \cup {found[pos]} = {found[i] : i \in 1 .. pos}
<1>1. /\ found \in Seq(Dirs) /\ IsInjective(found) /\ pos \in 1 .. Len(found) + 1
      /\ Len(found) \in Nat
  BY DEF TypeOK
<1>2. pos \in 1 .. Len(found) /\ found[pos] \in Dirs
  BY <1>1
<1>3. \A i \in 1 .. pos - 1 : found[i] # found[pos]
  BY <1>1, <1>2 DEF IsInjective
<1>4. pc # "assets" => DOMAIN read = {found[i] : i \in 1 .. pos - 1}
  BY DEF TypeOK
<1>5. \A i \in 1 .. pos : i = pos \/ i \in 1 .. pos - 1
  BY <1>2
<1>6. \A i \in 1 .. pos - 1 : i \in 1 .. pos
  BY <1>2
<1>7. pc # "assets" =>
        /\ found[pos] \notin DOMAIN read
        /\ DOMAIN read \cup {found[pos]} = {found[i] : i \in 1 .. pos}
  BY <1>2, <1>3, <1>4, <1>5, <1>6
<1> QED
  BY <1>1, <1>2, <1>7, DirsAreTexts DEF TypeOK

(* find_org_dirs finds the folders with a config.yml, each once.           *)
LEMMA FoundFolders ==
  ASSUME TypeOK, FindOrgDirs
  PROVE  /\ found' \in Seq(Dirs) /\ IsInjective(found')
         /\ \A d \in Dirs : HasConfig(d) => d \in Range(found')
<1> DEFINE A == {i \in DOMAIN OrgDirs : HasConfig(OrgDirs[i])}
<1>1. OrgDirs \in Seq(STRING) /\ IsInjective(OrgDirs) /\ A \in SUBSET DOMAIN OrgDirs
  BY ValidateAssumption
<1>2. \A i \in DOMAIN OrgDirs : OrgDirs[i] \in Dirs
  BY DEF Dirs, Range
<1>3. found' = Selected(OrgDirs, A)
  BY DEF FindOrgDirs
<1>4. \A i \in A : OrgDirs[i] \in Dirs
  BY <1>1, <1>2
<1> HIDE DEF A
<1>5. /\ \A i \in A : \E k \in DOMAIN found' : found'[k] = OrgDirs[i]
      /\ IsInjective(found')
      /\ found' \in Seq(Dirs)
  BY <1>1, <1>3, <1>4, SelectedFacts
<1>6. \A d \in Dirs : HasConfig(d) => \E i \in A : OrgDirs[i] = d
  BY DEF A, Dirs, Range
<1> QED
  BY <1>5, <1>6 DEF Range

-----------------------------------------------------------------------------
(* Types.                                                                  *)

(* A new loader, about to look for folders.                                *)
Started ==
  /\ DOMAIN config = Dirs /\ \A d \in Dirs : config[d] \in Contents(d)
  /\ asset_dirs \in [Dirs -> SUBSET SvcId]
  /\ edits \in 0 .. MaxEdits /\ strict \in StrictModes
  /\ runs \in 1 .. MaxRuns /\ prior \in {"none", "ok", "refused", "raised"}
  /\ pc = "find" /\ found = <<>> /\ pos = 1 /\ read = EmptyDict
  /\ city = EmptyCity /\ assets = {} /\ ok = FALSE

(* It satisfies the invariant.                                             *)
LEMMA StartInv == Started => IInv
<1> SUFFICES ASSUME Started PROVE IInv
  OBVIOUS
<1>1. /\ found = <<>> /\ pos = 1 /\ read = EmptyDict /\ city = EmptyCity
      /\ assets = {} /\ pc = "find" /\ prior \in {"none", "ok", "refused", "raised"}
      /\ edits \in 0 .. MaxEdits /\ runs \in 1 .. MaxRuns
      /\ ok = FALSE /\ strict \in StrictModes
      /\ asset_dirs \in [Dirs -> SUBSET SvcId]
      /\ DOMAIN config = Dirs /\ \A d \in Dirs : config[d] \in Contents(d)
  BY DEF Started
<1>2. DOMAIN read = {} /\ \A d \in DOMAIN read : FALSE
  BY <1>1 DEF EmptyDict
<1>3. 1 .. FoldersRead = {} /\ FoldersRead = 0
  BY <1>1 DEF FoldersRead
<1>4. TypeOK
  <2>1. city \in CityNetwork(STRING, NetworkName, STRING) /\ OrgIds(city) = {}
    BY <1>1 DEF EmptyCity, CityNetwork, OrgIds, Ids
  <2>2. found \in Seq(Dirs) /\ IsInjective(found) /\ Len(found) = 0
    BY <1>1 DEF IsInjective
  <2>3. pos \in 1 .. Len(found) + 1
    BY <1>1, <2>2
  <2>4. DOMAIN read = {found[i] : i \in 1 .. IF pc = "assets" THEN pos ELSE pos - 1}
    BY <1>2, <1>3 DEF FoldersRead
  <2> QED
    BY <1>1, <2>1, <2>2, <2>3, <2>4 DEF TypeOK
<1>5. Reading
  BY <1>1, <1>2 DEF Reading
<1>6. Whole
  <2>1. \A f : [i \in 1 .. FoldersRead |-> f[i]] = <<>>
    BY <1>3
  <2>2. /\ [i \in 1 .. FoldersRead |-> OrgOf(found[i], read[found[i]])] = <<>>
        /\ [i \in 1 .. FoldersRead |-> WithOrg(found[i], read[found[i]].services)] = <<>>
        /\ [i \in 1 .. FoldersRead |-> read[found[i]].links] = <<>>
    BY <1>3
  <2>3. city.organizations = <<>> /\ city.services = <<>> /\ city.links = <<>>
    BY <1>1 DEF EmptyCity
  <2> QED
    BY <1>3, <2>2, <2>3, ConcatenatesNothing DEF Whole
<1>7. Noted
  BY <1>1, <1>2, FS_EmptySet DEF Noted
<1>8. Computed
  BY <1>1 DEF Computed
<1> QED
  BY <1>4, <1>5, <1>6, <1>7, <1>8 DEF IInv

(* Every action keeps the types.                                           *)
LEMMA TypeStep == IInv /\ [Next]_vars => TypeOK'
<1> SUFFICES ASSUME IInv, [Next]_vars PROVE TypeOK'
  OBVIOUS
<1>1. TypeOK /\ Reading
  BY DEF IInv
<1>2. CASE UNCHANGED vars
  BY <1>1, <1>2 DEF vars, disk, loader, request, TypeOK, Contents, OrgIds
<1>3. CASE Edit
  <2>1. UNCHANGED <<request, pc, loader, plan, report, ok>> /\ edits < MaxEdits /\ edits' = edits + 1
    BY <1>3 DEF Edit
  <2>2. edits' \in 0 .. MaxEdits
    BY <1>1, <2>1, ValidateAssumption DEF TypeOK
  <2>3. /\ DOMAIN config' = Dirs /\ \A d \in Dirs : config'[d] \in Contents(d)
        /\ asset_dirs' \in [Dirs -> SUBSET SvcId]
    BY <1>1, <1>3 DEF Edit, TypeOK
  <2> QED
    BY <1>1, <2>1, <2>2, <2>3 DEF loader, request, TypeOK, OrgIds
<1>4. CASE FindOrgDirs
  <2>1. /\ UNCHANGED <<disk, request, pos, read, city, issues, assets, plan, report, ok>>
        /\ pc = "find" /\ pc' \in {"raised", "read"}
    BY <1>4 DEF FindOrgDirs
  <2>2. found' \in Seq(Dirs) /\ IsInjective(found')
    BY <1>1, <1>4, FoundFolders
  <2>3. found = <<>>
    BY <1>1, <2>1 DEF Reading
  <2>4. pos = 1 /\ DOMAIN read = {}
    BY <1>1, <2>1, <2>3 DEF TypeOK
  <2>5. /\ pos' \in 1 .. Len(found') + 1
        /\ DOMAIN read' = {found'[i] : i \in 1 .. IF pc' = "assets" THEN pos' ELSE pos' - 1}
    BY <2>1, <2>2, <2>4
  <2> QED
    BY <1>1, <2>1, <2>2, <2>4, <2>5 DEF disk, request, TypeOK, OrgIds
<1>5. CASE ReadFails
  BY <1>1, <1>5 DEF ReadFails, AtConfig, disk, request, loader, TypeOK, OrgIds
<1>6. CASE RefuseOrganization
  <2>1. /\ AtConfig /\ Refused(found[pos], config[found[pos]])
        /\ read' = Assigned(read, found[pos], config[found[pos]])
        /\ pos' = pos + 1
        /\ UNCHANGED <<disk, request, pc, found, city, assets, plan, report, ok>>
    BY <1>6 DEF RefuseOrganization, Here
  <2>2. /\ pc = "read" /\ pos <= Len(found) /\ pos \in 1 .. Len(found) /\ Len(found) \in Nat
        /\ DOMAIN read \cup {found[pos]} = {found[i] : i \in 1 .. pos}
    BY <1>1, <2>1, AtFolder DEF AtConfig
  <2>3. DOMAIN read' = DOMAIN read \cup {found[pos]}
    BY <2>1 DEF Assigned
  <2>4. /\ pos' \in 1 .. Len(found') + 1
        /\ DOMAIN read' = {found'[i] : i \in 1 .. IF pc' = "assets" THEN pos' ELSE pos' - 1}
    BY <2>1, <2>2, <2>3
  <2>5. OrgIds(city') \subseteq DOMAIN read' /\ (runs' = 1 => assets' \subseteq (DOMAIN read') \X SvcId)
    BY <1>1, <2>1, <2>3 DEF TypeOK, request
  <2> QED
    BY <1>1, <2>1, <2>4, <2>5 DEF disk, request, TypeOK, OrgIds
<1>7. CASE LoadOrganization
  <2> DEFINE d == found[pos]
             cfg == config[d]
  <2>1. /\ AtConfig /\ cfg.form = "mapping"
        /\ city' = [organizations |-> Append(city.organizations, OrgOf(d, cfg)),
                    services |-> city.services \o ServicesOf(d, cfg),
                    links |-> city.links \o LinksOf(cfg)]
        /\ read' = Assigned(read, d, cfg)
        /\ pc' = "assets"
        /\ UNCHANGED <<disk, request, found, pos, assets, plan, report, ok>>
    BY <1>7 DEF LoadOrganization, Here
  <2>2. /\ pc = "read" /\ pos \in 1 .. Len(found) /\ d \in STRING /\ d \in Dirs
        /\ cfg \in Contents(d)
        /\ DOMAIN read \cup {d} = {found[i] : i \in 1 .. pos}
    BY <1>1, <2>1, AtFolder DEF AtConfig
  <2>3. cfg \in ConfigFile
    BY <2>1, <2>2, ReadableFile
  <2> HIDE DEF cfg
  <2>4. DOMAIN read' = DOMAIN read \cup {d}
    BY <2>1 DEF Assigned
  <2>5. /\ OrgOf(d, cfg) \in Organization(STRING, NetworkName)
        /\ ServicesOf(d, cfg) \in Seq(Service(STRING, NetworkName, STRING))
        /\ LinksOf(cfg) \in Seq(Link(STRING))
    BY <2>1, <2>2, <2>3, DeclaredLists
  <2>6. /\ city.organizations \in Seq(Organization(STRING, NetworkName))
        /\ city.services \in Seq(Service(STRING, NetworkName, STRING))
        /\ city.links \in Seq(Link(STRING))
    BY <1>1 DEF TypeOK, CityNetwork
  <2>7. /\ Append(city.organizations, OrgOf(d, cfg)) \in Seq(Organization(STRING, NetworkName))
        /\ city.services \o ServicesOf(d, cfg) \in Seq(Service(STRING, NetworkName, STRING))
        /\ city.links \o LinksOf(cfg) \in Seq(Link(STRING))
    BY <2>5, <2>6
  <2>8. city' \in CityNetwork(STRING, NetworkName, STRING)
    BY <2>1, <2>7 DEF CityNetwork
  <2>9. OrgIds(city') \subseteq DOMAIN read'
    <3>1. OrgIds(city) \subseteq DOMAIN read
      BY <1>1 DEF TypeOK
    <3>2. \A o \in DOMAIN Append(city.organizations, OrgOf(d, cfg)) :
            \/ Append(city.organizations, OrgOf(d, cfg))[o] = OrgOf(d, cfg)
            \/ /\ o \in DOMAIN city.organizations
               /\ Append(city.organizations, OrgOf(d, cfg))[o] = city.organizations[o]
      <4> DEFINE orgs == city.organizations
                 new  == OrgOf(d, cfg)
      <4> HIDE DEF new
      <4>1. /\ orgs \in Seq(Organization(STRING, NetworkName)) /\ Len(orgs) \in Nat
            /\ DOMAIN orgs = 1 .. Len(orgs)
        BY <2>6
      <4>2. /\ DOMAIN Append(orgs, new) = 1 .. Len(orgs) + 1
            /\ \A o \in 1 .. Len(orgs) : Append(orgs, new)[o] = orgs[o]
            /\ Append(orgs, new)[Len(orgs) + 1] = new
        BY <4>1, <2>5, AppendProperties DEF new
      <4> QED
        BY <4>1, <4>2 DEF new
    <3>3. OrgOf(d, cfg).id = d
      BY DEF OrgOf
    <3>4. city'.organizations = Append(city.organizations, OrgOf(d, cfg))
      BY <2>1
    <3> QED
      BY <2>4, <3>1, <3>2, <3>3, <3>4 DEF OrgIds, Ids
  <2>10. /\ pos' \in 1 .. Len(found') + 1
         /\ DOMAIN read' = {found'[i] : i \in 1 .. IF pc' = "assets" THEN pos' ELSE pos' - 1}
    BY <2>1, <2>2, <2>4
  <2>11. runs' = 1 => assets' \subseteq (DOMAIN read') \X SvcId
    BY <1>1, <2>1, <2>4 DEF TypeOK, request
  <2> QED
    BY <1>1, <2>1, <2>8, <2>9, <2>10, <2>11 DEF disk, request, TypeOK
<1>8. CASE LoadAssets
  <2>1. /\ pc = "assets" /\ pc' = "read" /\ pos' = pos + 1
        /\ \E ids : assets' = assets \cup ({found[pos]} \X (asset_dirs[found[pos]] \cap ids))
        /\ UNCHANGED <<disk, request, found, read, city, plan, report, ok>>
    BY <1>8 DEF LoadAssets, Here
  <2>2. pos <= Len(found)
    BY <1>1, <2>1 DEF Reading
  <2>3. found[pos] \in Dirs /\ pos \in 1 .. Len(found) /\ Len(found) \in Nat
    BY <1>1, <2>2, AtFolder
  <2>4. found[pos] \in DOMAIN read
    BY <1>1, <2>1, <2>3 DEF TypeOK
  <2>5. asset_dirs[found[pos]] \subseteq SvcId
    BY <1>1, <2>3 DEF TypeOK
  <2>6. runs' = 1 => assets' \subseteq (DOMAIN read') \X SvcId
    BY <1>1, <2>1, <2>4, <2>5 DEF TypeOK, request
  <2>7. pos' \in 1 .. Len(found') + 1 /\ pos' - 1 = pos
    BY <2>1, <2>3
  <2> QED
    BY <1>1, <2>1, <2>6, <2>7 DEF disk, request, TypeOK, OrgIds
<1>9. CASE Allocate
  BY <1>1, <1>9 DEF Allocate, Loaded, disk, request, loader, TypeOK, OrgIds
<1>10. CASE AllocationFails
  BY <1>1, <1>10 DEF AllocationFails, Loaded, disk, request, loader, TypeOK, OrgIds
<1>11. CASE RunRules
  BY <1>1, <1>11 DEF RunRules, Accepts, disk, request, loader, TypeOK, OrgIds
<1>12. CASE ValidateAgain
  <2>1. /\ found' = <<>> /\ pos' = 1 /\ read' = EmptyDict /\ city' = EmptyCity
        /\ pc' = "find" /\ ok' = FALSE /\ prior' = Outcome
        /\ runs < MaxRuns /\ runs' = runs + 1
        /\ UNCHANGED <<disk, strict, issues, assets>>
    BY <1>12 DEF ValidateAgain
  <2>2. city' \in CityNetwork(STRING, NetworkName, STRING) /\ OrgIds(city') = {}
    BY <2>1 DEF EmptyCity, CityNetwork, OrgIds, Ids
  <2>3. /\ found' \in Seq(Dirs) /\ IsInjective(found') /\ Len(found') = 0
        /\ pos' \in 1 .. Len(found') + 1
    BY <2>1 DEF IsInjective
  <2>4. DOMAIN read' = {found'[i] : i \in 1 .. IF pc' = "assets" THEN pos' ELSE pos' - 1}
    BY <2>1 DEF EmptyDict
  <2>5. runs' \in 1 .. MaxRuns /\ runs' # 1
    BY <1>1, <2>1, ValidateAssumption DEF TypeOK
  <2>6. prior' \in {"ok", "refused", "raised"}
    BY <2>1 DEF Outcome
  <2> QED
    BY <1>1, <2>1, <2>2, <2>3, <2>4, <2>5, <2>6 DEF disk, TypeOK
<1> QED
  BY <1>2, <1>3, <1>4, <1>5, <1>6, <1>7, <1>8, <1>9, <1>10, <1>11, <1>12 DEF Next, Pipeline

-----------------------------------------------------------------------------
(* What the loader has read.                                               *)

(* A longer list has the elements of its parts.                            *)
LEMMA RangeOfJoined ==
  ASSUME NEW T, NEW s \in Seq(T), NEW t \in Seq(T)
  PROVE  Range(s) \subseteq Range(s \o t) /\ Range(t) \subseteq Range(s \o t)
<1>1. /\ Len(s) \in Nat /\ Len(t) \in Nat /\ DOMAIN s = 1 .. Len(s) /\ DOMAIN t = 1 .. Len(t)
      /\ DOMAIN (s \o t) = 1 .. Len(s) + Len(t)
      /\ \A i \in 1 .. Len(s) : (s \o t)[i] = s[i]
      /\ \A i \in 1 .. Len(t) : (s \o t)[Len(s) + i] = t[i]
  OBVIOUS
<1>2. \A i \in 1 .. Len(s) : i \in 1 .. Len(s) + Len(t)
  BY <1>1
<1>3. \A i \in 1 .. Len(t) : Len(s) + i \in 1 .. Len(s) + Len(t)
  BY <1>1
<1> QED
  BY <1>1, <1>2, <1>3 DEF Range

(* Every action keeps what the loader knows of the folders it has read.    *)
LEMMA ReadingStep == IInv /\ [Next]_vars => Reading'
<1> SUFFICES ASSUME IInv, [Next]_vars PROVE Reading'
  OBVIOUS
<1>1. TypeOK /\ Reading
  BY DEF IInv
<1>2. ASSUME UNCHANGED <<found, pos, read, city>>,
             \/ pc' = pc
             \/ pc \notin {"find", "raised"} /\ pc' \notin {"find", "assets"}
      PROVE  Reading'
  BY <1>1, <1>2 DEF Reading
<1>3. CASE UNCHANGED vars
  BY <1>2, <1>3 DEF vars, loader
<1>4. CASE Edit
  BY <1>2, <1>4 DEF Edit, loader
<1>5. CASE FindOrgDirs
  BY <1>1, <1>5 DEF FindOrgDirs, Reading
<1>6. CASE ReadFails
  BY <1>2, <1>6 DEF ReadFails, AtConfig, loader
<1>7. CASE RefuseOrganization
  <2> DEFINE d == found[pos]
             cfg == config[d]
  <2>1. /\ AtConfig /\ Refused(d, cfg) /\ read' = Assigned(read, d, cfg)
        /\ UNCHANGED <<pc, found, city>>
    BY <1>7 DEF RefuseOrganization, Here
  <2>2. pc = "read" /\ cfg \in ConfigFile \ {Unreadable}
    BY <1>1, <2>1, AtFolder, ReadableFile DEF AtConfig
  <2> HIDE DEF cfg, d
  <2>3. \A e \in DOMAIN read' : \/ e = d /\ read'[e] = cfg
                                \/ e \in DOMAIN read /\ read'[e] = read[e]
    BY <2>1 DEF Assigned
  <2>4. ~ Kept(d, cfg)
    BY <2>1 DEF Kept
  <2>5. \A e \in DOMAIN read' :
          /\ read'[e] \in ConfigFile \ {Unreadable}
          /\ Kept(e, read'[e]) => Range(ServicesOf(e, read'[e])) \subseteq Range(city'.services)
    BY <1>1, <2>1, <2>2, <2>3, <2>4 DEF Reading
  <2>6. pc' = "read" /\ found' # <<>>
    BY <1>1, <2>1, <2>2 DEF Reading
  <2> QED
    BY <2>5, <2>6 DEF Reading
<1>8. CASE LoadOrganization
  <2> DEFINE d == found[pos]
             cfg == config[d]
  <2>1. /\ AtConfig /\ cfg.form = "mapping" /\ ~ Refused(d, cfg)
        /\ read' = Assigned(read, d, cfg)
        /\ city'.services = city.services \o ServicesOf(d, cfg)
        /\ pc' = "assets" /\ UNCHANGED <<found, pos>>
    BY <1>8 DEF LoadOrganization, Here, loader
  <2>2. /\ pos <= Len(found) /\ d \in STRING /\ cfg \in ConfigFile \ {Unreadable}
    BY <1>1, <2>1, AtFolder, ReadableFile DEF AtConfig
  <2> HIDE DEF cfg, d
  <2>3. \A e \in DOMAIN read' : \/ e = d /\ read'[e] = cfg
                                \/ e \in DOMAIN read /\ read'[e] = read[e]
    BY <2>1 DEF Assigned
  <2>4. /\ city.services \in Seq(Service(STRING, NetworkName, STRING))
        /\ ServicesOf(d, cfg) \in Seq(Service(STRING, NetworkName, STRING))
    BY <1>1, <2>1, <2>2, DeclaredLists DEF TypeOK, CityNetwork
  <2>5. /\ Range(city.services) \subseteq Range(city'.services)
        /\ Range(ServicesOf(d, cfg)) \subseteq Range(city'.services)
    BY <2>1, <2>4, RangeOfJoined
  <2>6. \A e \in DOMAIN read' :
          /\ read'[e] \in ConfigFile \ {Unreadable}
          /\ Kept(e, read'[e]) => Range(ServicesOf(e, read'[e])) \subseteq Range(city'.services)
    BY <1>1, <2>2, <2>3, <2>5 DEF Reading
  <2>7. pos' <= Len(found') /\ Kept(found'[pos'], read'[found'[pos']]) /\ found' # <<>>
    BY <1>1, <2>1, <2>2 DEF Assigned, AtConfig, Kept, Reading, d
  <2> QED
    BY <2>1, <2>6, <2>7 DEF Reading
<1>9. CASE LoadAssets
  BY <1>1, <1>9 DEF LoadAssets, Reading
<1>10. CASE Allocate
  BY <1>2, <1>10 DEF Allocate, Loaded, loader
<1>11. CASE AllocationFails
  BY <1>2, <1>11 DEF AllocationFails, Loaded, loader
<1>12. CASE RunRules
  BY <1>2, <1>12 DEF RunRules, loader
<1>13. CASE ValidateAgain
  BY <1>13 DEF ValidateAgain, EmptyDict, Reading
<1> QED
  BY <1>3, <1>4, <1>5, <1>6, <1>7, <1>8, <1>9, <1>10, <1>11, <1>12, <1>13 DEF Next, Pipeline

-----------------------------------------------------------------------------
(* Where the assets come from.                                             *)

(* A list has finitely many ids.                                           *)
LEMMA IdsFinite ==
  ASSUME NEW T, NEW items \in Seq(T)
  PROVE  IsFiniteSet(Ids(items))
<1> DEFINE f == [i \in 1 .. Len(items) |-> items[i].id]
<1>1. f \in Surjection(1 .. Len(items), Ids(items))
  BY DEF Surjection, Ids
<1>2. IsFiniteSet(1 .. Len(items))
  BY FirstNumbers
<1> HIDE DEF f
<1> QED
  BY <1>1, <1>2, FS_Surjection

(* Every action keeps the origin of the assets.                            *)
LEMMA NotedStep == IInv /\ [Next]_vars => Noted'
<1> SUFFICES ASSUME IInv, [Next]_vars PROVE Noted'
  OBVIOUS
<1>1. TypeOK /\ Reading /\ Noted
  BY DEF IInv
<1>2. ASSUME UNCHANGED <<found, read, assets, runs, config, edits>>,
             pc # "find" \/ pc' = "find"
      PROVE  Noted'
  BY <1>1, <1>2 DEF Noted, HasConfig
<1>3. CASE UNCHANGED vars
  BY <1>2, <1>3 DEF vars, loader, disk, request
<1>4. CASE Edit
  <2>1. edits' # 0 /\ UNCHANGED <<read, assets, runs>>
    BY <1>1, <1>4 DEF Edit, loader, request, TypeOK
  <2> QED
    BY <1>1, <2>1 DEF Noted
<1>5. CASE FindOrgDirs
  <2>1. \A d \in Dirs : HasConfig(d) => d \in Range(found')
    BY <1>1, <1>5, FoundFolders
  <2>2. UNCHANGED <<read, assets, runs, config, edits>>
    BY <1>5 DEF FindOrgDirs, disk, request
  <2> QED
    BY <1>1, <2>1, <2>2 DEF Noted, HasConfig
<1>6. CASE ReadFails
  BY <1>2, <1>6 DEF ReadFails, AtConfig, loader, disk, request
<1>7. CASE RefuseOrganization \/ LoadOrganization
  <2> DEFINE d == found[pos]
             cfg == config[d]
  <2>1. /\ AtConfig /\ read' = Assigned(read, d, cfg)
        /\ UNCHANGED <<disk, found, assets, runs>>
    BY <1>7 DEF RefuseOrganization, LoadOrganization, Here, request
  <2>2. pc = "read" /\ d \notin DOMAIN read
    BY <1>1, <2>1, AtFolder DEF AtConfig
  <2> HIDE DEF cfg
  <2>3. /\ DOMAIN read' = DOMAIN read \cup {d} /\ read'[d] = cfg
        /\ \A e \in DOMAIN read : read'[e] = read[e]
    BY <2>1, <2>2 DEF Assigned
  <2>4. runs' = 1 => \A a \in assets' : a[1] \in DOMAIN read' /\ Owns(a, read'[a[1]])
    BY <1>1, <2>1, <2>3 DEF Noted
  <2>5. edits' = 0 => \A e \in DOMAIN read' : read'[e] = config'[e]
    BY <1>1, <2>1, <2>3 DEF Noted, disk, cfg
  <2>6. edits' = 0 => /\ \A a \in assets' : Owns(a, config'[a[1]])
                      /\ \A e \in Dirs : HasConfig(e)' => e \in Range(found')
    BY <1>1, <2>1, <2>2 DEF Noted, disk, HasConfig
  <2> QED
    BY <1>1, <2>1, <2>4, <2>5, <2>6 DEF Noted, HasConfig
<1>8. CASE LoadAssets
  <2> DEFINE d == found[pos]
             ids == Ids(ServicesOf(d, read[d]))
             new == {d} \X (asset_dirs[d] \cap ids)
  <2>1. /\ pc = "assets" /\ pc' = "read" /\ assets' = assets \cup new
        /\ UNCHANGED <<disk, request, found, read>>
    BY <1>8 DEF LoadAssets, Here
  <2>2. pos <= Len(found) /\ Kept(d, read[d])
    BY <1>1, <2>1 DEF Reading
  <2>3. /\ d \in Dirs /\ d \in STRING /\ pos \in 1 .. Len(found)
        /\ asset_dirs[d] \subseteq SvcId
    BY <1>1, <2>2, AtFolder DEF TypeOK
  <2>4. d \in DOMAIN read
    BY <1>1, <2>1, <2>3 DEF TypeOK
  <2>5. IsFiniteSet(ids)
    <3>1. read[d] \in ConfigFile /\ read[d].form = "mapping"
      BY <1>1, <2>2, <2>4 DEF Reading, Kept
    <3> QED
      BY <2>3, <3>1, DeclaredLists, IdsFinite
  <2>6. IsFiniteSet(new)
    <3>1. IsFiniteSet({d}) /\ IsFiniteSet(asset_dirs[d] \cap ids)
      BY <2>5, FS_Singleton, FS_Intersection
    <3> QED
      BY <3>1, FS_Product
  <2>7. \A a \in new : a[1] = d /\ a[2] \in ids /\ a \in Dirs \X SvcId
    BY <2>3
  <2> HIDE DEF new
  <2>8. IsFiniteSet(assets') /\ assets' \subseteq Dirs \X SvcId
    BY <1>1, <2>1, <2>6, <2>7, FS_Union DEF Noted
  <2>9. \A a \in new : a[1] \in DOMAIN read /\ Owns(a, read[a[1]])
    BY <2>2, <2>4, <2>7 DEF Owns
  <2> HIDE DEF ids
  <2>10. runs' = 1 => \A a \in assets' : a[1] \in DOMAIN read' /\ Owns(a, read'[a[1]])
    BY <1>1, <2>1, <2>9 DEF Noted, request
  <2>11. edits' = 0 =>
           /\ \A a \in assets' : Owns(a, config'[a[1]])
           /\ \A e \in DOMAIN read' : read'[e] = config'[e]
           /\ \A e \in Dirs : HasConfig(e)' => e \in Range(found')
    BY <1>1, <2>1, <2>9 DEF Noted, disk, HasConfig
  <2> QED
    BY <2>8, <2>10, <2>11 DEF Noted, HasConfig
<1>9. CASE Allocate
  BY <1>2, <1>9 DEF Allocate, Loaded, loader, disk, request
<1>10. CASE AllocationFails
  BY <1>2, <1>10 DEF AllocationFails, Loaded, loader, disk, request
<1>11. CASE RunRules
  BY <1>2, <1>11 DEF RunRules, loader, disk, request
<1>12. CASE ValidateAgain
  <2>1. /\ runs' = runs + 1 /\ read' = EmptyDict /\ pc' = "find"
        /\ UNCHANGED <<disk, assets>>
    BY <1>12 DEF ValidateAgain
  <2>2. runs' # 1
    BY <1>1, <2>1 DEF TypeOK
  <2>3. DOMAIN read' = {}
    BY <2>1 DEF EmptyDict
  <2> QED
    BY <1>1, <2>1, <2>2, <2>3 DEF Noted, disk
<1> QED
  BY <1>3, <1>4, <1>5, <1>6, <1>7, <1>8, <1>9, <1>10, <1>11, <1>12 DEF Next, Pipeline

-----------------------------------------------------------------------------
(* What allocator and rules compute.                                       *)

(* Every action keeps what allocator and rules have computed.              *)
LEMMA ComputedStep == IInv /\ [Next]_vars => Computed'
<1> SUFFICES ASSUME IInv, [Next]_vars PROVE Computed'
  OBVIOUS
<1>1. TypeOK /\ Computed
  BY DEF IInv
<1>2. CASE UNCHANGED vars
  BY <1>1, <1>2 DEF vars, loader, request, Computed, Accepts
<1>3. CASE Edit
  BY <1>1, <1>3 DEF Edit, loader, request, Computed, Accepts
<1>4. CASE FindOrgDirs
  BY <1>4 DEF FindOrgDirs, Computed
<1>5. CASE ReadFails
  BY <1>5 DEF ReadFails, Computed
<1>6. CASE RefuseOrganization
  BY <1>6 DEF RefuseOrganization, AtConfig, Computed
<1>7. CASE LoadOrganization
  BY <1>7 DEF LoadOrganization, Computed
<1>8. CASE LoadAssets
  BY <1>8 DEF LoadAssets, Computed
<1>9. CASE Allocate
  <2>1. /\ pos > Len(found) /\ Fits(city) /\ pc' = "check"
        /\ \E indices \in Shuffles(Len(city.organizations)) : plan' = Plan(city, indices)
        /\ UNCHANGED <<found, pos, city>>
    BY <1>9 DEF Allocate, Loaded, loader
  <2>2. pos = Len(found) + 1
    BY <1>1, <2>1 DEF TypeOK
  <2> QED
    BY <2>1, <2>2 DEF Computed
<1>10. CASE AllocationFails
  BY <1>10 DEF AllocationFails, Computed
<1>11. CASE RunRules
  BY <1>1, <1>11 DEF RunRules, loader, request, Computed, Accepts
<1>12. CASE ValidateAgain
  BY <1>12 DEF ValidateAgain, Computed
<1> QED
  BY <1>2, <1>3, <1>4, <1>5, <1>6, <1>7, <1>8, <1>9, <1>10, <1>11, <1>12 DEF Next, Pipeline

-----------------------------------------------------------------------------
(* Nothing is left out without an error.                                   *)

(* A list of k + 1 elements is its first k and one more.                   *)
LEMMA OneMore ==
  ASSUME NEW T, NEW k \in Nat, NEW f \in [1 .. k + 1 -> T], NEW g,
         g = [i \in 1 .. k |-> f[i]]
  PROVE  g \in Seq(T) /\ DOMAIN g = 1 .. k /\ f = Append(g, f[k + 1])
<1>1. \A i \in 1 .. k : i \in 1 .. k + 1
  OBVIOUS
<1>2. g \in [1 .. k -> T]
  BY <1>1
<1>3. g \in Seq(T) /\ Len(g) = k
  BY <1>2, SeqDef, LenProperties
<1>4. f \in Seq(T) /\ Len(f) = k + 1
  BY SeqDef, LenProperties
<1>5. /\ Append(g, f[k + 1]) \in Seq(T) /\ Len(Append(g, f[k + 1])) = k + 1
      /\ \A i \in 1 .. k : Append(g, f[k + 1])[i] = f[i]
      /\ Append(g, f[k + 1])[k + 1] = f[k + 1]
  BY <1>3
<1>6. \A i \in 1 .. k + 1 : Append(g, f[k + 1])[i] = f[i]
  BY <1>5
<1> QED
  BY <1>3, <1>4, <1>5, <1>6, SeqEqual

(* A folder that is refused leaves an error.                               *)
LEMMA RefusalIsError ==
  ASSUME NEW d, NEW cfg
  PROVE  \E issue \in Issues(RefusalCode(d, cfg), {<<d>>}) : ~ IsWarning(issue)
<1>1. RefusalCode(d, cfg) # "assets"
  BY DEF RefusalCode
<1>2. <<RefusalCode(d, cfg), <<d>>>> \in Issues(RefusalCode(d, cfg), {<<d>>})
  BY DEF Issues
<1> QED
  BY <1>1, <1>2 DEF IsWarning

(* Every action keeps the city whole, or leaves an error.                  *)
LEMMA WholeStep == IInv /\ [Next]_vars => Whole'
<1> SUFFICES ASSUME IInv, [Next]_vars PROVE Whole'
  OBVIOUS
<1>1. TypeOK /\ Reading /\ Whole
  BY DEF IInv
<1>2. ASSUME UNCHANGED <<found, read, city>>, issues \subseteq issues',
             FoldersRead' = FoldersRead
      PROVE  Whole'
  BY <1>1, <1>2 DEF Whole, Declared
<1>3. CASE UNCHANGED vars
  BY <1>2, <1>3 DEF vars, loader, FoldersRead
<1>4. CASE Edit
  BY <1>2, <1>4 DEF Edit, loader, FoldersRead
<1>5. CASE FindOrgDirs
  <2>1. /\ pc = "find" /\ pc' # "assets" /\ UNCHANGED <<pos, read, city>>
    BY <1>5 DEF FindOrgDirs
  <2>2. found = <<>> /\ city = EmptyCity
    BY <1>1, <2>1 DEF Reading
  <2>3. pos = 1
    BY <1>1, <2>2 DEF TypeOK
  <2>4. FoldersRead' = 0
    BY <2>1, <2>3 DEF FoldersRead
  <2> QED
    BY <2>1, <2>2, <2>4, ConcatenatesNothing DEF Whole, EmptyCity
<1>6. CASE ReadFails
  BY <1>2, <1>6 DEF ReadFails, AtConfig, loader, FoldersRead
<1>7. CASE RefuseOrganization
  <2>1. issues' = issues \cup Issues(RefusalCode(Here, config[Here]), {<<Here>>})
    BY <1>7 DEF RefuseOrganization
  <2> QED
    BY <2>1, RefusalIsError DEF Whole, IsWarning
<1>8. CASE LoadOrganization
  <2> DEFINE d == found[pos]
             cfg == config[d]
             k == pos - 1
             svcs(i) == WithOrg(found[i], read[found[i]].services)
  <2>1. /\ AtConfig /\ cfg.form = "mapping" /\ ~ Refused(d, cfg)
        /\ city'.organizations = Append(city.organizations, OrgOf(d, cfg))
        /\ city'.services = city.services \o ServicesOf(d, cfg)
        /\ city'.links = city.links \o LinksOf(cfg)
        /\ issues' = issues \cup ItemIssues(d, cfg)
        /\ read' = Assigned(read, d, cfg)
        /\ pc' = "assets" /\ UNCHANGED <<found, pos>>
    BY <1>8 DEF LoadOrganization, Here
  <2>2. /\ pc = "read" /\ pos \in 1 .. Len(found) /\ Len(found) \in Nat
        /\ d \in STRING /\ d \in Dirs /\ cfg \in ConfigFile
        /\ d \notin DOMAIN read
    BY <1>1, <2>1, AtFolder, ReadableFile DEF AtConfig
  <2>3. /\ k \in Nat /\ pos = k + 1 /\ FoldersRead = k /\ FoldersRead' = k + 1
        /\ \A i \in 1 .. k : i \in 1 .. k + 1
        /\ \A i \in 1 .. k + 1 : i = k + 1 \/ i \in 1 .. k
    BY <2>1, <2>2 DEF FoldersRead
  <2>4. /\ read'[d] = cfg
        /\ \A i \in 1 .. k : found[i] \in DOMAIN read /\ read'[found[i]] = read[found[i]]
    <3>1. DOMAIN read = {found[i] : i \in 1 .. k}
      BY <1>1, <2>2 DEF TypeOK
    <3> QED
      BY <2>1, <2>2, <3>1 DEF Assigned
  <2> SUFFICES ASSUME \A issue \in issues' : IsWarning(issue)'
               PROVE  /\ \A i \in 1 .. k + 1 : Declared(found[i])' /\ AllValid(read'[found[i]])
                      /\ city'.organizations =
                           [i \in 1 .. k + 1 |-> OrgOf(found[i], read'[found[i]])]
                      /\ Concatenates(city'.services,
                           [i \in 1 .. k + 1 |-> WithOrg(found[i], read'[found[i]].services)])
                      /\ Concatenates(city'.links,
                           [i \in 1 .. k + 1 |-> read'[found[i]].links])
    BY <2>1, <2>3 DEF Whole, IsWarning
  <2>5. /\ \A issue \in issues : IsWarning(issue)
        /\ \A issue \in ItemIssues(d, cfg) : IsWarning(issue)
    BY <2>1 DEF IsWarning
  <2>6. /\ \A i \in 1 .. k : Declared(found[i]) /\ AllValid(read[found[i]])
        /\ city.organizations = [i \in 1 .. k |-> OrgOf(found[i], read[found[i]])]
        /\ Concatenates(city.services,
             [i \in 1 .. k |-> WithOrg(found[i], read[found[i]].services)])
        /\ Concatenates(city.links, [i \in 1 .. k |-> read[found[i]].links])
    BY <1>1, <2>3, <2>5 DEF Whole
  <2> HIDE DEF cfg, d, k
  <2>7. ServicesOf(d, cfg) = WithOrg(d, cfg.services) /\ LinksOf(cfg) = cfg.links
    BY <2>1, <2>2, <2>5, KeptWhole
  <2>8. found[k + 1] = d /\ read'[found[k + 1]] = cfg
    BY <2>3, <2>4 DEF d
  <2>9. \A i \in 1 .. k + 1 : Declared(found[i])' /\ AllValid(read'[found[i]])
    <3>1. cfg.id = d /\ cfg.valid
      BY <2>1, <2>2, MappingFields DEF Refused
    <3>2. \A i \in 1 .. k : Declared(found[i])' /\ AllValid(read'[found[i]])
      BY <2>1, <2>4, <2>6 DEF Declared
    <3>3. \A i \in {k + 1} : Declared(found[i])' /\ AllValid(read'[found[i]])
      BY <2>1, <2>2, <2>5, <2>8, <3>1, NothingInvalid DEF Declared
    <3> QED
      BY <2>3, <3>2, <3>3
  <2>10. city'.organizations = [i \in 1 .. k + 1 |-> OrgOf(found[i], read'[found[i]])]
    <3> DEFINE f == [i \in 1 .. k + 1 |-> OrgOf(found[i], read'[found[i]])]
               g == city.organizations
               T == {f[i] : i \in 1 .. k + 1}
    <3>1. f \in [1 .. k + 1 -> T] /\ f[k + 1] = OrgOf(d, cfg)
      BY <2>3, <2>8
    <3>2. g = [i \in 1 .. k |-> f[i]]
      BY <2>3, <2>4, <2>6
    <3> HIDE DEF f, g, T
    <3>3. f = Append(g, OrgOf(d, cfg))
      BY <2>3, <3>1, <3>2, OneMore
    <3> QED
      BY <2>1, <3>3 DEF f, g
  <2>11. Concatenates(city'.services,
           [i \in 1 .. k + 1 |-> WithOrg(found[i], read'[found[i]].services)])
    <3> DEFINE S == Service(STRING, NetworkName, STRING)
               f == [i \in 1 .. k + 1 |-> WithOrg(found[i], read'[found[i]].services)]
               g == [i \in 1 .. k |-> WithOrg(found[i], read[found[i]].services)]
    <3>1. f[k + 1] = ServicesOf(d, cfg) /\ ServicesOf(d, cfg) \in Seq(S)
      BY <2>1, <2>2, <2>3, <2>7, <2>8, DeclaredLists
    <3>2. g = [i \in 1 .. k |-> f[i]]
      BY <2>3, <2>4
    <3>3. \A i \in 1 .. k : Len(g[i]) \in Nat
      BY <1>1, <2>4, <2>6, WithOrgLength DEF Reading, Declared
    <3> DEFINE P == {f[i] : i \in 1 .. k + 1}
    <3>4. f \in [1 .. k + 1 -> P]
      OBVIOUS
    <3> HIDE DEF f, g, S, P
    <3>5. g \in Seq(P) /\ DOMAIN g = 1 .. k /\ f = Append(g, ServicesOf(d, cfg))
      BY <2>3, <3>1, <3>2, <3>4, OneMore
    <3>6. city.services \in Seq(S)
      BY <1>1 DEF TypeOK, CityNetwork, S
    <3>7. Concatenates(city.services \o ServicesOf(d, cfg), f)
      BY <2>6, <3>1, <3>3, <3>5, <3>6, ConcatenatesMore DEF g
    <3> QED
      BY <2>1, <3>7 DEF f
  <2>12. Concatenates(city'.links, [i \in 1 .. k + 1 |-> read'[found[i]].links])
    <3> DEFINE S == Link(STRING)
               P == Seq(S \cup {Invalid})
               f == [i \in 1 .. k + 1 |-> read'[found[i]].links]
               g == [i \in 1 .. k |-> read[found[i]].links]
    <3>1. f[k + 1] = LinksOf(cfg) /\ LinksOf(cfg) \in Seq(S)
      BY <2>1, <2>2, <2>3, <2>7, <2>8, DeclaredLists
    <3>2. g = [i \in 1 .. k |-> f[i]]
      BY <2>3, <2>4
    <3>3. \A i \in 1 .. k : g[i] \in P
      BY <1>1, <2>4, <2>6, MappingFields DEF Reading, Declared
    <3>4. cfg.links \in P
      BY <2>1, <2>2, MappingFields
    <3>5. f \in [1 .. k + 1 -> P]
      <4>1. \A i \in 1 .. k + 1 : f[i] \in P
        BY <2>3, <2>7, <3>1, <3>2, <3>3, <3>4
      <4> QED
        BY <4>1
    <3>6. \A i \in 1 .. k : Len(g[i]) \in Nat
      BY <3>3
    <3> HIDE DEF f, g, S, P
    <3>7. g \in Seq(P) /\ DOMAIN g = 1 .. k /\ f = Append(g, LinksOf(cfg))
      BY <2>3, <3>1, <3>2, <3>5, OneMore
    <3>8. city.links \in Seq(S)
      BY <1>1 DEF TypeOK, CityNetwork, S
    <3>9. Concatenates(city.links \o LinksOf(cfg), f)
      BY <2>6, <3>1, <3>6, <3>7, <3>8, ConcatenatesMore DEF g
    <3> QED
      BY <2>1, <3>9 DEF f
  <2> QED
    BY <2>9, <2>10, <2>11, <2>12
<1>9. CASE LoadAssets
  <2>1. UNCHANGED <<found, read, city>> /\ issues \subseteq issues'
    BY <1>9 DEF LoadAssets
  <2>2. FoldersRead' = FoldersRead
    BY <1>1, <1>9 DEF LoadAssets, FoldersRead, TypeOK
  <2> QED
    BY <1>2, <2>1, <2>2
<1>10. CASE Allocate
  BY <1>2, <1>10 DEF Allocate, Loaded, loader, FoldersRead
<1>11. CASE AllocationFails
  BY <1>2, <1>11 DEF AllocationFails, Loaded, loader, FoldersRead
<1>12. CASE RunRules
  BY <1>2, <1>12 DEF RunRules, loader, FoldersRead
<1>13. CASE ValidateAgain
  <2>1. city' = EmptyCity /\ FoldersRead' = 0
    BY <1>13 DEF ValidateAgain, FoldersRead
  <2> QED
    BY <2>1, ConcatenatesNothing DEF Whole, EmptyCity
<1> QED
  BY <1>3, <1>4, <1>5, <1>6, <1>7, <1>8, <1>9, <1>10, <1>11, <1>12, <1>13 DEF Next, Pipeline

-----------------------------------------------------------------------------
(* Every action of the pipeline keeps the invariant.                       *)
LEMMA InvariantStep == IInv /\ [Next]_vars => IInv'
BY TypeStep, ReadingStep, WholeStep, NotedStep, ComputedStep DEF IInv

(* The inductive invariant holds of every step, whatever the files hold    *)
(* and whenever they are edited.                                           *)
THEOREM PipelineInvariant == Spec => []IInv
<1>1. Init => Started
  BY ValidateAssumption DEF Init, Started
<1> QED
  BY <1>1, StartInv, InvariantStep, PTL DEF Spec

(* The state of the pipeline keeps its shape: TypeOK.                      *)
THEOREM PipelineTypes == Spec => []TypeOK
<1>1. IInv => TypeOK
  BY DEF IInv
<1> QED
  BY <1>1, PipelineInvariant, PTL

-----------------------------------------------------------------------------
(* What is accepted.                                                       *)

(* The rules report errors only.                                           *)
LEMMA RulesReportErrors ==
  ASSUME NEW c, NEW p, NEW issue \in Check(c, p)
  PROVE  ~ IsWarning(issue)
<1>1. \A code, places : \A i \in Issues(code, places) : i[1] = code
  BY DEF Issues
<1>2. \A i \in AddressIssues(c, p) : i[1] # "assets"
  BY <1>1 DEF AddressIssues, NetworkIndexRule, IpInNetworkRule, IpUniqueRule,
              NetworkOverlapRule, IpSchemeRule
<1>3. \A i \in IdsRule(c) : i[1] # "assets"
  BY <1>1 DEF IdsRule
<1>4. \A i \in RefsRule(c) \cup NetworkBelongsRule(c) : i[1] # "assets"
  BY <1>1 DEF RefsRule, NetworkBelongsRule
<1>5. \A i \in ExposureNetworkRule(c) \cup SelfLoopRule(c) \cup HoneypotRule(c) :
        i[1] # "assets"
  BY <1>1 DEF ExposureNetworkRule, SelfLoopRule, HoneypotRule
<1> QED
  BY <1>2, <1>3, <1>4, <1>5 DEF Check, IsWarning

(* An accepted city breaks no rule, and the loader found no error.         *)
LEMMA AcceptedMeans ==
  ASSUME IInv, Accepted
  PROVE  /\ IsCity(city) /\ Fits(city) /\ AllDistinct(city)
         /\ pos = Len(found) + 1
         /\ \A issue \in issues : IsWarning(issue)
         /\ Check(city, plan) = {}
         /\ \E indices \in Shuffles(Len(city.organizations)) : plan = Plan(city, indices)
<1>1. /\ pos = Len(found) + 1 /\ Fits(city)
      /\ \E indices \in Shuffles(Len(city.organizations)) : plan = Plan(city, indices)
      /\ report = Check(city, plan) /\ Accepts(issues \cup report)
  BY DEF IInv, Computed, Accepted
<1>2. \A issue \in issues \cup report : IsWarning(issue)
  BY <1>1 DEF Accepts
<1>3. Check(city, plan) = {}
  BY <1>1, <1>2, RulesReportErrors
<1>4. IsCity(city)
  BY DEF IInv, TypeOK, IsCity
<1>5. AllDistinct(city)
  BY <1>3, IdsRuleDistinct DEF Check
<1> QED
  BY <1>1, <1>2, <1>3, <1>4, <1>5

(* Every service of a city without a broken rule names an organization of  *)
(* the city, and every link services of the city.                          *)
LEMMA RefsRuleHolds ==
  ASSUME NEW c, RefsRule(c) = {}
  PROVE  /\ \A i \in DOMAIN c.services : c.services[i].org_id \in OrgIds(c)
         /\ \A i \in DOMAIN c.links : /\ c.links[i].from_service \in SvcIds(c)
                                      /\ c.links[i].to_service \in SvcIds(c)
<1>1. \A A, x : Issues("refs", {x} \X A) = {} => A = {}
  <2>1. \A A, x : \A a \in A : <<"refs", <<x, a>>>> \in Issues("refs", {x} \X A)
    BY DEF Issues
  <2> QED
    BY <2>1
<1> DEFINE A == {i \in DOMAIN c.services : c.services[i].org_id \notin OrgIds(c)}
           F == {i \in DOMAIN c.links : c.links[i].from_service \notin SvcIds(c)}
           T == {i \in DOMAIN c.links : c.links[i].to_service \notin SvcIds(c)}
<1>2. /\ Issues("refs", {"services"} \X A) = {}
      /\ Issues("refs", {"from"} \X F) = {}
      /\ Issues("refs", {"to"} \X T) = {}
  BY DEF RefsRule
<1> HIDE DEF A, F, T
<1>3. A = {} /\ F = {} /\ T = {}
  BY <1>1, <1>2
<1> QED
  BY <1>3 DEF A, F, T

(* Every lookup of the renderer succeeds: RenderLookupsDefined.            *)
THEOREM LookupsDefined == Spec => []RenderLookupsDefined
<1>1. IInv => RenderLookupsDefined
  <2> SUFFICES ASSUME IInv, Accepted
               PROVE  /\ OrgIds(city) \subseteq DOMAIN plan.org_index
                      /\ NetIds(city) \subseteq DOMAIN plan.net_cidr
                      /\ \A i \in DOMAIN city.services :
                           /\ city.services[i].org_id \in DOMAIN plan.org_index
                           /\ city.services[i].id \in DOMAIN plan.svc_ip
    BY DEF RenderLookupsDefined
  <2>1. IsCity(city) /\ AllDistinct(city) /\ Check(city, plan) = {}
    BY AcceptedMeans
  <2>2. PICK indices : plan = Plan(city, indices)
    BY AcceptedMeans
  <2>3. RefsRule(city) = {} /\ NetworkBelongsRule(city) = {}
    BY <2>1 DEF Check
  <2>4. DOMAIN plan.org_index = OrgIds(city) /\ DOMAIN plan.net_cidr = NetIds(city)
    BY <2>1, <2>2, IndexOfOrg, CidrKeys
  <2>5. \A i \in DOMAIN city.services : \E o, n : Stands(city, i, o, n)
    BY <2>1, <2>3, EveryServiceStands
  <2>6. \A i \in DOMAIN city.services : city.services[i].id \in DOMAIN plan.svc_ip
    BY <2>1, <2>2, <2>5, AddressKeys
  <2> QED
    BY <2>3, <2>4, <2>6, RefsRuleHolds
<1> QED
  BY <1>1, PipelineInvariant, PTL

(* Nothing declared is lost in an accepted model: NothingDropped.          *)
THEOREM AllIsLoaded == Spec => []NothingDropped
<1>1. IInv => NothingDropped
  <2> SUFFICES ASSUME IInv, Accepted PROVE NothingDropped
    BY DEF NothingDropped
  <2>1. pos = Len(found) + 1 /\ \A issue \in issues : IsWarning(issue)
    BY AcceptedMeans
  <2>2. pc = "done" /\ found \in Seq(Dirs)
    BY DEF IInv, TypeOK, Accepted
  <2>3. 1 .. FoldersRead = DOMAIN found
    BY <2>1, <2>2 DEF FoldersRead
  <2> QED
    BY <2>1, <2>3 DEF IInv, Whole, NothingDropped
<1> QED
  BY <1>1, PipelineInvariant, PTL

(* The address rules never fire alone: AddressRulesNeedRepeatedIds.        *)
THEOREM AddressErrorsHaveACause == Spec => []AddressRulesNeedRepeatedIds
<1>1. IInv => AddressRulesNeedRepeatedIds
  <2> SUFFICES ASSUME IInv, pc = "done", AddressIssues(city, plan) # {}
               PROVE  IdsRule(city) \cap report # {}
    BY DEF AddressRulesNeedRepeatedIds
  <2>1. IsCity(city)
    BY DEF IInv, TypeOK, IsCity
  <2>2. Fits(city) /\ report = Check(city, plan)
    BY DEF IInv, Computed
  <2>3. PICK indices \in Shuffles(Len(city.organizations)) : plan = Plan(city, indices)
    BY DEF IInv, Computed
  <2>4. ~ AllDistinct(city)
    BY <2>1, <2>2, <2>3, AddressRulesHold
  <2>5. IdsRule(city) # {}
    BY <2>4, IdsRuleDistinct
  <2> QED
    BY <2>2, <2>5 DEF Check
<1> QED
  BY <1>1, PipelineInvariant, PTL

(* From a honeypot no chain of write links leads to a real service:        *)
(* HoneypotsContained.  The honeypots are closed under write links.        *)
THEOREM HoneypotsHold == Spec => []HoneypotsContained
<1>1. IInv => HoneypotsContained
  <2> SUFFICES ASSUME IInv, Accepted,
                      NEW a \in SvcIds(city), IsHoneypot(city, a), NEW b \in WrittenFrom(a)
               PROVE  IsHoneypot(city, b)
    BY DEF HoneypotsContained
  <2> DEFINE pots == {id \in SvcIds(city) : IsHoneypot(city, id)}
             bad  == {j \in DOMAIN city.links :
                        LET link == city.links[j]
                        IN  /\ {link.from_service, link.to_service} \subseteq SvcIds(city)
                            /\ IsHoneypot(city, link.from_service)
                            /\ link.kind \in WriteKinds
                            /\ ~ IsHoneypot(city, link.to_service)}
  <2>1. HoneypotRule(city) = {}
    BY AcceptedMeans DEF Check
  <2>2. bad = {}
    BY <2>1, NoIssue DEF HoneypotRule
  <2>3. \A x \in pots, y \in SvcIds(city) : Writes(x, y) => y \in pots
    BY <2>2 DEF Writes
  <2>4. a \in pots /\ pots \in SUBSET SvcIds(city)
    OBVIOUS
  <2>5. b \in pots
    BY <2>3, <2>4 DEF WrittenFrom
  <2> QED
    BY <2>5
<1> QED
  BY <1>1, PipelineInvariant, PTL

(* In an accepted model an address tells where its service stands, and no  *)
(* two services share one: AddressTellsZone.                               *)
THEOREM AddressesTellZones == Spec => []AddressTellsZone
<1>1. IInv => AddressTellsZone
  <2> SUFFICES ASSUME IInv, Accepted PROVE AddressTellsZone
    BY DEF AddressTellsZone
  <2> DEFINE orgs == city.organizations
             svcs == city.services
             nets(o) == orgs[o].networks
  <2>1. IsCity(city) /\ Fits(city) /\ AllDistinct(city) /\ Check(city, plan) = {}
    BY AcceptedMeans
  <2>2. PICK indices \in Shuffles(Len(orgs)) : plan = Plan(city, indices)
    BY AcceptedMeans
  <2>3. NetworkBelongsRule(city) = {} /\ ExposureNetworkRule(city) = {}
    BY <2>1 DEF Check
  <2>4. \A i \in DOMAIN svcs : \E o, n : Stands(city, i, o, n)
    BY <2>1, <2>3, EveryServiceStands
  <2>5. ASSUME NEW i \in DOMAIN svcs, NEW o, NEW n, Stands(city, i, o, n)
        PROVE  /\ plan.svc_ip[svcs[i].id] =
                    <<indices[o], ThirdOf(nets(o), n), HostOf(city, orgs[o], i)>>
               /\ plan.org_index[svcs[i].org_id] = indices[o]
               /\ ThirdOf(nets(o), n) \in ZoneOf(svcs[i].exposure)
    <3>1. plan.svc_ip[svcs[i].id] =
            <<indices[o], ThirdOf(nets(o), n), HostOf(city, orgs[o], i)>>
      BY <2>1, <2>2, <2>5, AddressOfService
    <3>2. plan.org_index[svcs[i].org_id] = indices[o]
      BY <2>1, <2>2, <2>5, IndexOfOrg DEF Stands, AllDistinct
    <3>3. /\ svcs[i].exposure = "public" => ThirdOf(nets(o), n) \in 0 .. BackFirst - 1
          /\ svcs[i].exposure \in {"intranet", "ot"} =>
               ThirdOf(nets(o), n) \in BackFirst .. MgmtThird - 1
          /\ svcs[i].exposure = "mgmt" => ThirdOf(nets(o), n) = MgmtThird
      BY <2>1, <2>3, <2>5, PoolOfExposure
    <3>4. svcs[i].exposure \in {"public", "intranet", "ot", "mgmt"}
      BY <2>1, ServiceFields DEF Exposure
    <3>5. ThirdOf(nets(o), n) \in ZoneOf(svcs[i].exposure)
      <4>1. CASE svcs[i].exposure = "public"
        BY <3>3, <4>1 DEF ZoneOf
      <4>2. CASE svcs[i].exposure \in {"intranet", "ot"}
        BY <3>3, <4>2 DEF ZoneOf
      <4>3. CASE svcs[i].exposure = "mgmt"
        BY <3>3, <4>3 DEF ZoneOf
      <4> QED
        BY <3>4, <4>1, <4>2, <4>3
    <3> QED
      BY <3>1, <3>2, <3>5
  <2>6. \A i \in DOMAIN svcs :
          LET svc == svcs[i]
              ip  == plan.svc_ip[svc.id]
          IN  /\ ip[1] = plan.org_index[svc.org_id]
              /\ ip[2] \in ZoneOf(svc.exposure)
    <3> SUFFICES ASSUME NEW i \in DOMAIN svcs
                 PROVE  /\ plan.svc_ip[svcs[i].id][1] = plan.org_index[svcs[i].org_id]
                        /\ plan.svc_ip[svcs[i].id][2] \in ZoneOf(svcs[i].exposure)
      OBVIOUS
    <3>1. PICK o, n : Stands(city, i, o, n)
      BY <2>4
    <3>2. /\ plan.svc_ip[svcs[i].id] =
               <<indices[o], ThirdOf(nets(o), n), HostOf(city, orgs[o], i)>>
          /\ plan.org_index[svcs[i].org_id] = indices[o]
          /\ ThirdOf(nets(o), n) \in ZoneOf(svcs[i].exposure)
      BY <2>5, <3>1
    <3> HIDE DEF svcs, nets
    <3> QED
      BY <3>2
  <2>7. ASSUME NEW i \in DOMAIN svcs, NEW j \in DOMAIN svcs, i < j
        PROVE  plan.svc_ip[svcs[i].id] # plan.svc_ip[svcs[j].id]
    <3> SUFFICES ASSUME plan.svc_ip[svcs[i].id] = plan.svc_ip[svcs[j].id] PROVE FALSE
      OBVIOUS
    <3>1. PICK o, n : Stands(city, i, o, n)
      BY <2>4
    <3>2. PICK q, m : Stands(city, j, q, m)
      BY <2>4
    <3>3. /\ indices[o] = indices[q] /\ ThirdOf(nets(o), n) = ThirdOf(nets(q), m)
          /\ HostOf(city, orgs[o], i) = HostOf(city, orgs[q], j)
      BY <2>5, <3>1, <3>2
    <3>4. o = q /\ n = m
      BY <2>1, <2>2, <3>1, <3>2, <3>3, CidrsDiffer DEF Stands
    <3>5. Binds(orgs[o], svcs[i]) /\ svcs[i].network_id = svcs[j].network_id
      BY <3>1, <3>2, <3>4 DEF Stands, Binds, Ids
    <3>6. i \in Nat \ {0} /\ j \in Nat \ {0}
      BY <2>1, ServiceFields
    <3> QED
      BY <2>7, <3>3, <3>4, <3>5, <3>6, HostsDiffer
  <2>8. IsInjective([i \in DOMAIN svcs |-> plan.svc_ip[svcs[i].id]])
    <3>1. DOMAIN svcs \subseteq Nat
      BY <2>1, CityLists
    <3> QED
      BY <2>7, <3>1 DEF IsInjective
  <2> QED
    BY <2>6, <2>8 DEF AddressTellsZone
<1> QED
  BY <1>1, PipelineInvariant, PTL

-----------------------------------------------------------------------------
(* Assets.                                                                 *)

(* An asset of an accepted city is the folder of one of its services.      *)
LEMMA AssetOfService ==
  ASSUME IInv, Accepted, runs = 1 \/ edits = 0, NEW a \in assets
  PROVE  /\ a[1] \in DOMAIN read /\ a[1] \in STRING
         /\ read[a[1]] \in ConfigFile /\ Owns(a, read[a[1]])
         /\ Range(ServicesOf(a[1], read[a[1]])) \subseteq Range(city.services)
<1>1. TypeOK /\ Reading /\ Noted /\ pc = "done"
  BY DEF IInv, Accepted
<1>2. a[1] \in DOMAIN read /\ Owns(a, read[a[1]])
  <2>1. CASE runs = 1
    BY <1>1, <2>1 DEF Noted
  <2>2. CASE edits = 0
    <3>1. Owns(a, config[a[1]]) /\ a[1] \in Dirs
      BY <1>1, <2>2 DEF Noted
    <3>2. config[a[1]].form = "mapping"
      BY <3>1 DEF Owns, Kept
    <3>3. HasConfig(a[1])
      BY <3>2 DEF HasConfig, Absent
    <3>4. a[1] \in Range(found)
      BY <1>1, <2>2, <3>1, <3>3 DEF Noted
    <3>5. Range(found) = DOMAIN read
      <4>1. found \in Seq(Dirs) /\ pos = Len(found) + 1
        BY <1>1, AcceptedMeans DEF TypeOK
      <4>2. DOMAIN read = {found[i] : i \in 1 .. pos - 1}
        BY <1>1 DEF TypeOK
      <4> QED
        BY <4>1, <4>2 DEF Range
    <3> QED
      BY <1>1, <2>2, <3>1, <3>4, <3>5 DEF Noted
  <2> QED
    BY <2>1, <2>2
<1>3. a[1] \in STRING
  BY <1>1, DirsAreTexts DEF Noted
<1> QED
  BY <1>1, <1>2, <1>3 DEF Reading, Owns

(* The services kept of a folder are among those it declares.              *)
LEMMA KeptIsDeclared ==
  ASSUME NEW d \in STRING, NEW cfg \in ConfigFile, cfg.form = "mapping",
         NEW i \in DOMAIN ServicesOf(d, cfg)
  PROVE  \E j \in DOMAIN cfg.services :
           /\ cfg.services[j] # Invalid
           /\ cfg.services[j].id = ServicesOf(d, cfg)[i].id
           /\ cfg.services[j].org_id = Unset => ServicesOf(d, cfg)[i].org_id = d
<1> DEFINE S == Service(STRING, NetworkName, STRING)
           items == cfg.services
           A == {j \in DOMAIN items : IsValid(items[j])}
           valid == ValidItems(items)
<1>1. items \in Seq(S \cup {Invalid}) /\ A \in SUBSET DOMAIN items
  BY MappingFields
<1>2. valid \in Seq(S)
  BY <1>1, ValidItemsType
<1>3. i \in DOMAIN valid
  BY DEF ServicesOf, WithOrg
<1>4. valid = Selected(items, A)
  BY DEF ValidItems
<1> HIDE DEF A, valid
<1>5. PICK j \in A : valid[i] = items[j]
  BY <1>1, <1>3, <1>4, SelectedFacts
<1>6. /\ valid[i] \in S
      /\ ServicesOf(d, cfg)[i] = IF valid[i].org_id = Unset
                                 THEN [valid[i] EXCEPT !.org_id = d] ELSE valid[i]
  BY <1>2, <1>3 DEF ServicesOf, WithOrg, valid
<1>7. /\ ServicesOf(d, cfg)[i].id = valid[i].id
      /\ valid[i].org_id = Unset => ServicesOf(d, cfg)[i].org_id = d
  BY <1>6 DEF Service
<1> QED
  BY <1>5, <1>7 DEF A, IsValid

(* The assets of an accepted model belong to its services:                 *)
(* AssetsMatchServices.                                                    *)
THEOREM AssetsBelong == Spec => []AssetsMatchServices
<1>1. IInv => AssetsMatchServices
  <2> SUFFICES ASSUME IInv, Accepted, runs = 1 \/ edits = 0, NEW a \in assets
               PROVE  \E i \in DOMAIN read[a[1]].services :
                        /\ read[a[1]].services[i] # Invalid
                        /\ read[a[1]].services[i].id = a[2]
                        /\ a[2] \in SvcIds(city)
    BY DEF AssetsMatchServices
  <2> DEFINE cfg == read[a[1]]
  <2>1. /\ a[1] \in STRING /\ cfg \in ConfigFile /\ Owns(a, cfg)
        /\ Range(ServicesOf(a[1], cfg)) \subseteq Range(city.services)
    BY AssetOfService
  <2> HIDE DEF cfg
  <2>2. cfg.form = "mapping" /\ a[2] \in Ids(ServicesOf(a[1], cfg))
    BY <2>1 DEF Owns, Kept
  <2>3. PICK i \in DOMAIN ServicesOf(a[1], cfg) : ServicesOf(a[1], cfg)[i].id = a[2]
    BY <2>2 DEF Ids
  <2>4. a[2] \in SvcIds(city)
    BY <2>1, <2>3 DEF Range, SvcIds, Ids
  <2> QED
    BY <2>1, <2>2, <2>3, <2>4, KeptIsDeclared DEF cfg
<1> QED
  BY <1>1, PipelineInvariant, PTL

-----------------------------------------------------------------------------
(* The views.                                                              *)

(* Where an id is looked up, its only service is found.                    *)
LEMMA ServiceFound ==
  ASSUME NEW c, IsCity(c), AllDistinct(c), NEW id \in SvcIds(c)
  PROVE  \E i \in DOMAIN c.services :
           /\ c.services[i].id = id
           /\ LastWithId(c.services, id) = i
           /\ {j \in DOMAIN c.services : c.services[j].id = id} = {i}
<1>1. PICK i \in DOMAIN c.services : c.services[i].id = id
  BY DEF SvcIds, Ids
<1>2. LastWithId(c.services, id) = i
  BY <1>1, CityLists, LastOfDistinct DEF AllDistinct
<1>3. {j \in DOMAIN c.services : c.services[j].id = id} = {i}
  BY <1>1 DEF AllDistinct, DistinctIds
<1> QED
  BY <1>1, <1>2, <1>3

(* Each end of an edge is the id of exactly one node: EdgesJoinNodes.      *)
THEOREM GraphIsWhole == Spec => []EdgesJoinNodes
<1>1. IInv => EdgesJoinNodes
  <2> DEFINE nodes == Nodes(city, plan)
             At(id) == {i \in DOMAIN nodes : nodes[i].id = id}
             Is(id, org) == /\ Cardinality(At(id)) = 1
                            /\ \A i \in At(id) : nodes[i].org_id = org
                            /\ org \in DOMAIN OrgLookup(city, plan)
  <2> SUFFICES ASSUME IInv, Accepted, NEW j \in DOMAIN Edges(city)
               PROVE  /\ Is(Edges(city)[j].from, LinkTable(city)[j].from_org)
                      /\ Is(Edges(city)[j].to, LinkTable(city)[j].to_org)
    BY DEF EdgesJoinNodes
  <2>1. IsCity(city) /\ AllDistinct(city) /\ RefsRule(city) = {}
    BY AcceptedMeans DEF Check
  <2>2. ASSUME NEW id \in SvcIds(city)
        PROVE  Is(id, OrgOfService(city, id))
    <3>1. PICK i \in DOMAIN city.services :
            /\ city.services[i].id = id
            /\ LastWithId(city.services, id) = i
            /\ {k \in DOMAIN city.services : city.services[k].id = id} = {i}
      BY <2>1, ServiceFound
    <3>2. /\ DOMAIN nodes = DOMAIN city.services
          /\ \A k \in DOMAIN city.services : /\ nodes[k].id = city.services[k].id
                                             /\ nodes[k].org_id = city.services[k].org_id
      BY DEF Nodes
    <3> HIDE DEF nodes
    <3>3. At(id) = {i}
      BY <3>1, <3>2
    <3>4. Cardinality(At(id)) = 1
      BY <3>3, FS_Singleton
    <3>5. OrgOfService(city, id) = city.services[i].org_id
      BY <3>1 DEF OrgOfService
    <3>6. city.services[i].org_id \in DOMAIN OrgLookup(city, plan)
      BY <2>1, RefsRuleHolds DEF OrgLookup
    <3> QED
      BY <3>2, <3>3, <3>4, <3>5, <3>6
  <2>3. /\ j \in DOMAIN city.links
        /\ Edges(city)[j].from = city.links[j].from_service
        /\ Edges(city)[j].to = city.links[j].to_service
        /\ LinkTable(city)[j].from_org = OrgOfService(city, city.links[j].from_service)
        /\ LinkTable(city)[j].to_org = OrgOfService(city, city.links[j].to_service)
    BY DEF Edges, LinkTable
  <2> HIDE DEF Is
  <2> QED
    BY <2>1, <2>2, <2>3, RefsRuleHolds
<1> QED
  BY <1>1, PipelineInvariant, PTL

(* A list of distinct ids has as many ids as elements.                     *)
LEMMA DistinctIdsCount ==
  ASSUME NEW c, IsCity(c), AllDistinct(c)
  PROVE  Cardinality(SvcIds(c)) = Len(c.services)
<1> DEFINE n == Len(c.services)
           f == [i \in 1 .. n |-> c.services[i].id]
<1>1. n \in Nat /\ DOMAIN c.services = 1 .. n
  BY CityLists
<1>2. f \in Surjection(1 .. n, SvcIds(c))
  BY <1>1 DEF Surjection, SvcIds, Ids
<1>3. f \in Injection(1 .. n, SvcIds(c))
  BY <1>1, <1>2 DEF Injection, IsInjective, Surjection, AllDistinct, DistinctIds
<1>4. IsFiniteSet(1 .. n) /\ Cardinality(1 .. n) = n
  BY <1>1, FirstNumbers
<1> HIDE DEF f, n
<1>5. IsFiniteSet(SvcIds(c)) /\ Cardinality(SvcIds(c)) = Cardinality(1 .. n)
  BY <1>2, <1>3, <1>4, FS_Surjection
<1> QED
  BY <1>4, <1>5 DEF n

(* The two adjacency lists of engine.json tell one story:                  *)
(* ReachabilityIsDual.                                                     *)
THEOREM AdjacencyIsDual == Spec => []ReachabilityIsDual
<1>1. IInv => ReachabilityIsDual
  <2> SUFFICES ASSUME IInv, Accepted PROVE ReachabilityIsDual
    BY DEF ReachabilityIsDual
  <2> DEFINE lookup == ServiceLookup(city, plan)
             links  == city.links
             loops  == {i \in DOMAIN links : links[i].from_service = links[i].to_service}
  <2>1. IsCity(city) /\ AllDistinct(city) /\ RefsRule(city) = {} /\ SelfLoopRule(city) = {}
    BY AcceptedMeans DEF Check
  <2>2. DOMAIN lookup = SvcIds(city)
    BY DEF ServiceLookup
  <2>3. Cardinality(DOMAIN lookup) = Len(city.services)
    BY <2>1, <2>2, DistinctIdsCount
  <2>4. ASSUME NEW id \in SvcIds(city)
        PROVE  /\ lookup[id].can_reach = CanReach(city, id)
               /\ lookup[id].reachable_from = ReachableFrom(city, id)
    <3>1. city.services[LastWithId(city.services, id)].id = id
      BY <2>1, ServiceFound
    <3> QED
      BY <3>1 DEF ServiceLookup, RuntimeService
  <2>5. /\ \A j \in DOMAIN links : links[j].from_service # links[j].to_service
        /\ \A j \in DOMAIN links : /\ links[j].from_service \in SvcIds(city)
                                   /\ links[j].to_service \in SvcIds(city)
    <3>1. loops = {}
      BY <2>1, NoIssue DEF SelfLoopRule
    <3> QED
      BY <2>1, <3>1, RefsRuleHolds
  <2> HIDE DEF lookup
  <2>6. \A s \in SvcIds(city) :
          lookup[s].can_reach \cup lookup[s].reachable_from \subseteq SvcIds(city) \ {s}
    BY <2>4, <2>5 DEF CanReach, ReachableFrom
  <2>7. \A s, t \in SvcIds(city) :
          t \in lookup[s].can_reach <=> s \in lookup[t].reachable_from
    BY <2>4 DEF CanReach, ReachableFrom
  <2> QED
    BY <2>2, <2>3, <2>6, <2>7 DEF ReachabilityIsDual, lookup
<1> QED
  BY <1>1, PipelineInvariant, PTL

(* attack-surface.json lists what stands in front: SurfaceIsFront.         *)
THEOREM SurfaceIsWhatIsInFront == Spec => []SurfaceIsFront
<1>1. IInv => SurfaceIsFront
  <2> SUFFICES ASSUME IInv, Accepted PROVE SurfaceIsFront
    BY DEF SurfaceIsFront
  <2> DEFINE nodes == Nodes(city, plan)
             A == {i \in DOMAIN nodes : IsPublic(nodes[i])}
  <2>1. IsCity(city) /\ Fits(city) /\ AllDistinct(city) /\ Check(city, plan) = {}
    BY AcceptedMeans
  <2>2. PICK indices \in Shuffles(Len(city.organizations)) : plan = Plan(city, indices)
    BY AcceptedMeans
  <2>3. /\ DOMAIN nodes = DOMAIN city.services
        /\ \A i \in DOMAIN city.services :
             /\ nodes[i].exposure = city.services[i].exposure
             /\ nodes[i].bind_ip = plan.svc_ip[city.services[i].id]
    BY DEF Nodes, BindIp
  <2>4. nodes \in Seq(Range(nodes))
    <3>1. nodes \in [1 .. Len(city.services) -> Range(nodes)] /\ Len(city.services) \in Nat
      BY <2>1, CityLists DEF Nodes, Range
    <3> QED
      BY <3>1, SeqDef
  <2> HIDE DEF nodes
  <2>5. \A i \in DOMAIN nodes : IsPublic(nodes[i]) <=> nodes[i].bind_ip[2] < BackFirst
    <3> SUFFICES ASSUME NEW i \in DOMAIN nodes
                 PROVE  IsPublic(nodes[i]) <=> nodes[i].bind_ip[2] < BackFirst
      OBVIOUS
    <3>1. PICK o, n : Stands(city, i, o, n)
      BY <2>1, <2>3, EveryServiceStands DEF Check
    <3> DEFINE svc == city.services[i]
               third == ThirdOf(city.organizations[o].networks, n)
    <3>2. nodes[i].bind_ip[2] = third /\ nodes[i].exposure = svc.exposure
      <4>1. nodes[i].bind_ip = plan.svc_ip[svc.id] /\ nodes[i].exposure = svc.exposure
        BY <2>3
      <4>2. plan.svc_ip[svc.id] =
              <<indices[o], third, HostOf(city, city.organizations[o], i)>>
        <5>1. i \in DOMAIN city.services
          BY <2>3
        <5>2. Plan(city, indices).svc_ip[city.services[i].id] =
                <<indices[o], ThirdOf(city.organizations[o].networks, n),
                  HostOf(city, city.organizations[o], i)>>
          BY <2>1, <3>1, <5>1, AddressOfService
        <5> QED
          BY <2>2, <5>2
      <4> HIDE DEF svc, third
      <4> QED
        BY <4>1, <4>2
    <3>3. /\ svc.exposure = "public" => third \in 0 .. BackFirst - 1
          /\ svc.exposure \in {"intranet", "ot"} => third \in BackFirst .. MgmtThird - 1
          /\ svc.exposure = "mgmt" => third = MgmtThird
      BY <2>1, <2>3, <3>1, PoolOfExposure DEF Check
    <3>4. svc.exposure \in {"public", "intranet", "ot", "mgmt"}
      BY <2>1, <2>3, ServiceFields DEF Exposure
    <3> HIDE DEF svc, third
    <3> QED
      BY <3>2, <3>3, <3>4, PlanAssumption DEF IsPublic
  <2>6. Range(Selected(nodes, A)) = {nodes[i] : i \in A}
    <3>1. A \in SUBSET DOMAIN nodes
      OBVIOUS
    <3> HIDE DEF A
    <3>2. /\ \A k \in DOMAIN Selected(nodes, A) : \E i \in A : Selected(nodes, A)[k] = nodes[i]
          /\ \A i \in A : \E k \in DOMAIN Selected(nodes, A) : Selected(nodes, A)[k] = nodes[i]
      BY <2>4, <3>1, SelectedFacts
    <3> QED
      BY <3>2 DEF Range
  <2>7. AttackSurface(city, plan) = Selected(nodes, A)
    BY DEF AttackSurface, nodes
  <2>8. {nodes[i] : i \in A} = {node \in Range(nodes) : node.bind_ip[2] < BackFirst}
    BY <2>5 DEF Range
  <2> QED
    BY <2>6, <2>7, <2>8 DEF SurfaceIsFront, nodes
<1> QED
  BY <1>1, PipelineInvariant, PTL

(* The networks at the head of network.md are those of the city: what the  *)
(* generator expression of the source adds up.                             *)
LEMMA NetworksOfTotal ==
  ASSUME NEW c, IsCity(c)
  PROVE  Total(c).networks = Cardinality(NetPlaces(c))
<1> DEFINE orgs == c.organizations
           S == DOMAIN orgs
           pick(T) == CHOOSE x \in T : TRUE
           part == PlacesOf(c)
           Recurs(f) == f = [T \in SUBSET S |->
                               IF T = {} THEN 0
                               ELSE f[T \ {pick(T)}] + Len(orgs[pick(T)].networks)]
           size == [T \in SUBSET S |-> Cardinality(Together(part, T))]
           sum  == CHOOSE f : Recurs(f)
<1>0. \A T : T # {} => pick(T) \in T
  OBVIOUS
<1>1. Total(c).networks = sum[S]
  BY DEF Total, FoldFunction, FoldFunctionOnSet, MapThenFoldSet
<1> HIDE DEF pick
<1>2. /\ IsFiniteSet(S) /\ Apart(part, S) /\ Together(part, S) = NetPlaces(c)
      /\ \A x \in S : /\ Len(orgs[x].networks) \in Nat
                      /\ Len(orgs[x].networks) = Cardinality(part[x])
  BY PlacesByOrganization
<1> HIDE DEF S, part, orgs
<1>3. ASSUME NEW T \in SUBSET S
      PROVE  size[T] = IF T = {} THEN 0
                       ELSE size[T \ {pick(T)}] + Len(orgs[pick(T)].networks)
  <2>1. CASE T = {}
    <3>1. Together(part, T) = {}
      BY <2>1 DEF Together
    <3> QED
      BY <2>1, <3>1, FS_EmptySet
  <2>2. CASE T # {}
    BY <1>0, <1>2, <2>2, OnePartMore
  <2> QED
    BY <2>1, <2>2
<1>4. Recurs(size)
  <2>1. size = [T \in SUBSET S |-> size[T]]
    OBVIOUS
  <2> HIDE DEF size
  <2> QED
    BY <1>3, <2>1
<1>5. Recurs(sum)
  <2> HIDE DEF size, Recurs
  <2> QED
    BY <1>4
<1> HIDE DEF size, sum
<1>6. \A T \in SUBSET S :
        sum[T] = IF T = {} THEN 0
                 ELSE sum[T \ {pick(T)}] + Len(orgs[pick(T)].networks)
  BY <1>5
<1> HIDE DEF Recurs
<1>7. ASSUME NEW T \in SUBSET S, T # {}
      PROVE  \E y \in T : sum[T \ {y}] \in Nat =>
                            sum[T] = Cardinality(part[y]) + sum[T \ {y}]
  <2>1. pick(T) \in T /\ pick(T) \in S
    BY <1>0, <1>7
  <2>2. /\ sum[T] = sum[T \ {pick(T)}] + Len(orgs[pick(T)].networks)
        /\ Len(orgs[pick(T)].networks) \in Nat
        /\ Len(orgs[pick(T)].networks) = Cardinality(part[pick(T)])
    BY <1>6, <1>7, <1>2, <2>1
  <2> DEFINE y == pick(T)
  <2>3. sum[T \ {y}] \in Nat => sum[T] = Cardinality(part[y]) + sum[T \ {y}]
    <3> HIDE DEF y
    <3> QED
      BY <2>2 DEF y
  <2> QED
    BY <2>1, <2>3
<1>8. sum[{}] = 0
  BY <1>6
<1>9. sum[S] = Cardinality(Together(part, S))
  BY <1>7, <1>8, <1>2, SizeByParts
<1> QED
  BY <1>1, <1>9, <1>2

(* The tables of network.md add up: ServicesCountedOnce.                   *)
THEOREM TablesAddUp == Spec => []ServicesCountedOnce
<1>1. IInv => ServicesCountedOnce
  <2> SUFFICES ASSUME IInv, Accepted PROVE ServicesCountedOnce
    BY DEF ServicesCountedOnce
  <2> DEFINE nets == NetworkTable(city, plan)
             orgs == OrganizationTable(city)
             svcs == city.services
             Of(o) == {i \in DOMAIN svcs : svcs[i].org_id = orgs[o].id}
             Own(o) == {x \in DOMAIN nets : nets[x].org = orgs[o].id}
             counts == [x \in DOMAIN nets |-> nets[x].services]
             inside == [x \in DOMAIN nets |->
                          {i \in DOMAIN svcs : svcs[i].network_id = nets[x].network}]
             held == [o \in DOMAIN orgs |-> Of(o)]
  <2>1. IsCity(city) /\ AllDistinct(city) /\ Check(city, plan) = {}
    BY AcceptedMeans
  <2>2. /\ DOMAIN nets = NetPlaces(city) /\ DOMAIN orgs = DOMAIN city.organizations
        /\ \A x \in DOMAIN nets :
             /\ nets[x].org = city.organizations[x[1]].id
             /\ nets[x].network = city.organizations[x[1]].networks[x[2]].id
             /\ nets[x].services = Cardinality(inside[x])
        /\ \A o \in DOMAIN orgs :
             /\ orgs[o].id = city.organizations[o].id
             /\ orgs[o].networks = Len(city.organizations[o].networks)
             /\ orgs[o].services = Cardinality(held[o])
    BY DEF NetworkTable, OrganizationTable, NetAt, ServicesIn
  <2>3. \A i \in DOMAIN svcs : \E o, n : Stands(city, i, o, n)
    BY <2>1, EveryServiceStands DEF Check
  <2>4. /\ IsFiniteSet(DOMAIN orgs) /\ IsFiniteSet(DOMAIN nets)
        /\ IsFiniteSet(DOMAIN svcs) /\ Cardinality(DOMAIN svcs) = Len(svcs)
    <3>1. IsFiniteSet(NetPlaces(city))
      BY <2>1, PlacesByOrganization, TogetherFinite
    <3>2. IsFiniteSet(DOMAIN city.organizations)
      BY <2>1, PlacesByOrganization
    <3>3. DOMAIN svcs = 1 .. Len(svcs) /\ Len(svcs) \in Nat
      BY <2>1, CityLists
    <3> QED
      BY <2>2, <3>1, <3>2, <3>3, FirstNumbers
  <2> HIDE DEF nets, orgs
  <2>5. Apart(inside, DOMAIN nets)
    <3>1. \A x \in DOMAIN nets : IsFiniteSet(inside[x])
      BY <2>4, FS_Subset
    <3>2. ASSUME NEW x \in DOMAIN nets, NEW y \in DOMAIN nets,
                 nets[x].network = nets[y].network
          PROVE  x = y
      <4>1. NetAt(city, x).id = NetAt(city, y).id
        BY <2>2, <3>2 DEF NetAt
      <4> QED
        BY <2>1, <2>2, <4>1 DEF AllDistinct, DistinctNetIds
    <3> QED
      BY <3>1, <3>2 DEF Apart
  <2>6. Apart(held, DOMAIN orgs)
    <3>1. \A o \in DOMAIN orgs : IsFiniteSet(held[o])
      BY <2>4, FS_Subset
    <3>2. \A o, q \in DOMAIN orgs : orgs[o].id = orgs[q].id => o = q
      BY <2>1, <2>2 DEF AllDistinct, DistinctIds
    <3> QED
      BY <3>1, <3>2 DEF Apart
  <2>7. ASSUME NEW i, NEW q, NEW n, Stands(city, i, q, n)
        PROVE  /\ q \in DOMAIN orgs /\ svcs[i].org_id = orgs[q].id
               /\ <<q, n>> \in DOMAIN nets
               /\ nets[<<q, n>>].org = orgs[q].id
               /\ nets[<<q, n>>].network = svcs[i].network_id
    <3>1. /\ q \in DOMAIN city.organizations /\ svcs[i].org_id = city.organizations[q].id
          /\ n \in DOMAIN city.organizations[q].networks
          /\ svcs[i].network_id = city.organizations[q].networks[n].id
      BY <2>7 DEF Stands
    <3>2. <<q, n>> \in NetPlaces(city)
      BY <3>1 DEF NetPlaces
    <3>3. <<q, n>>[1] = q /\ <<q, n>>[2] = n
      OBVIOUS
    <3> QED
      BY <2>2, <3>1, <3>2, <3>3
  <2>8. ASSUME NEW o \in DOMAIN orgs
        PROVE  FoldFunctionOnSet(+, 0, counts, Own(o)) = orgs[o].services
    <3>1. Own(o) \in SUBSET DOMAIN nets
      OBVIOUS
    <3>2. IsFiniteSet(Own(o)) /\ Apart(inside, Own(o))
      BY <2>4, <2>5, <3>1, FS_Subset DEF Apart
    <3>3. \A x \in Own(o) : counts[x] = Cardinality(inside[x])
      BY <2>2
    <3>4. Together(inside, Own(o)) = held[o]
      <4>1. ASSUME NEW x \in Own(o), NEW i \in inside[x]
            PROVE  i \in held[o]
        <5>1. PICK q, n : Stands(city, i, q, n)
          BY <2>3
        <5>2. q \in DOMAIN orgs /\ <<q, n>> \in DOMAIN nets /\ svcs[i].org_id = orgs[q].id
              /\ svcs[i].network_id = nets[<<q, n>>].network
              /\ nets[<<q, n>>].org = orgs[q].id
          BY <2>7, <5>1
        <5>3. i \in inside[<<q, n>>]
          BY <5>2
        <5>4. x = <<q, n>>
          BY <2>5, <5>2, <5>3 DEF Apart
        <5> QED
          BY <5>2, <5>4
      <4>2. ASSUME NEW i \in held[o]
            PROVE  \E x \in Own(o) : i \in inside[x]
        <5>1. PICK q, n : Stands(city, i, q, n)
          BY <2>3
        <5>2. q \in DOMAIN orgs /\ <<q, n>> \in DOMAIN nets /\ svcs[i].org_id = orgs[q].id
              /\ svcs[i].network_id = nets[<<q, n>>].network
              /\ nets[<<q, n>>].org = orgs[q].id
          BY <2>7, <5>1
        <5> QED
          BY <5>2
      <4> QED
        BY <4>1, <4>2 DEF Together
    <3> HIDE DEF Own, counts, inside, held
    <3>5. FoldFunctionOnSet(+, 0, counts, Own(o)) = Cardinality(Together(inside, Own(o)))
      BY <3>2, <3>3, SumOfParts
    <3> QED
      BY <2>2, <3>4, <3>5
  <2>9. FoldFunctionOnSet(+, 0, [o \in DOMAIN orgs |-> orgs[o].services], DOMAIN orgs)
          = Total(city).services
    <3> DEFINE h == [o \in DOMAIN orgs |-> orgs[o].services]
    <3>1. \A o \in DOMAIN orgs : h[o] = Cardinality(held[o])
      BY <2>2
    <3>2. Together(held, DOMAIN orgs) = DOMAIN svcs
      <4>1. ASSUME NEW i \in DOMAIN svcs
            PROVE  \E o \in DOMAIN orgs : i \in held[o]
        <5>1. PICK o, n : Stands(city, i, o, n)
          BY <2>3
        <5>2. o \in DOMAIN orgs /\ svcs[i].org_id = orgs[o].id
          BY <2>2, <5>1 DEF Stands
        <5> QED
          BY <5>2
      <4> QED
        BY <4>1 DEF Together
    <3> HIDE DEF h, held
    <3>3. FoldFunctionOnSet(+, 0, h, DOMAIN orgs) = Cardinality(Together(held, DOMAIN orgs))
      BY <2>4, <2>6, <3>1, SumOfParts
    <3> QED
      BY <2>4, <3>2, <3>3 DEF Total, h
  <2>10. /\ FoldFunctionOnSet(+, 0, [o \in DOMAIN orgs |-> orgs[o].networks], DOMAIN orgs)
             = Total(city).networks
        /\ Cardinality(NetPlaces(city)) = Total(city).networks
    <3> DEFINE h == [o \in DOMAIN orgs |-> orgs[o].networks]
    <3>1. /\ Apart(PlacesOf(city), DOMAIN orgs)
          /\ Together(PlacesOf(city), DOMAIN orgs) = NetPlaces(city)
          /\ \A o \in DOMAIN orgs : h[o] = Cardinality(PlacesOf(city)[o])
      <4>1. /\ Apart(PlacesOf(city), DOMAIN city.organizations)
            /\ Together(PlacesOf(city), DOMAIN city.organizations) = NetPlaces(city)
            /\ \A o \in DOMAIN city.organizations :
                 Len(city.organizations[o].networks) = Cardinality(PlacesOf(city)[o])
        BY <2>1, PlacesByOrganization
      <4> QED
        BY <2>2, <4>1
    <3> HIDE DEF h
    <3>2. FoldFunctionOnSet(+, 0, h, DOMAIN orgs) = Cardinality(NetPlaces(city))
      BY <2>4, <3>1, SumOfParts
    <3> QED
      BY <2>1, <3>2, NetworksOfTotal DEF h
  <2>11. /\ FoldFunction(+, 0, [o \in DOMAIN orgs |-> orgs[o].services])
              = FoldFunctionOnSet(+, 0, [o \in DOMAIN orgs |-> orgs[o].services], DOMAIN orgs)
         /\ FoldFunction(+, 0, [o \in DOMAIN orgs |-> orgs[o].networks])
              = FoldFunctionOnSet(+, 0, [o \in DOMAIN orgs |-> orgs[o].networks], DOMAIN orgs)
    BY DEF FoldFunction
  <2> QED
    BY <2>8, <2>9, <2>10, <2>11 DEF ServicesCountedOnce, nets, orgs
<1> QED
  BY <1>1, PipelineInvariant, PTL

(* The files of a service are where engine.json leads to: AssetsAreFound.  *)
THEOREM AssetsAreWhereSaid == Spec => []AssetsAreFound
<1>1. IInv => AssetsAreFound
  <2> SUFFICES ASSUME IInv, Accepted, LoaderSetsOrgIds, runs = 1 \/ edits = 0
               PROVE  AssetsAreFound
    BY DEF AssetsAreFound
  <2> DEFINE lookup == ServiceLookup(city, plan)
  <2>1. IsCity(city) /\ AllDistinct(city)
    BY AcceptedMeans
  <2>2. ASSUME NEW a \in assets
        PROVE  /\ a = <<a[1], a[2]>> /\ a[2] \in DOMAIN lookup
               /\ lookup[a[2]].org_id = a[1]
    <3> DEFINE cfg == read[a[1]]
               svcs == ServicesOf(a[1], cfg)
    <3>1. /\ a[1] \in DOMAIN read /\ a[1] \in STRING /\ cfg \in ConfigFile /\ Owns(a, cfg)
          /\ Range(svcs) \subseteq Range(city.services)
      BY AssetOfService
    <3>2. cfg.form = "mapping" /\ a[2] \in Ids(svcs)
      BY <3>1 DEF Owns, Kept
    <3>3. PICK i \in DOMAIN svcs : svcs[i].id = a[2]
      BY <3>2 DEF Ids
    <3>4. svcs[i].org_id = a[1]
      <4>1. \A j \in DOMAIN cfg.services :
              cfg.services[j] # Invalid => cfg.services[j].org_id = Unset
        BY <3>1, <3>2 DEF LoaderSetsOrgIds, IsValid
      <4> HIDE DEF cfg
      <4> QED
        BY <3>1, <3>2, <3>3, <4>1, KeptIsDeclared
    <3> HIDE DEF svcs
    <3>5. PICK k \in DOMAIN city.services : city.services[k] = svcs[i]
      BY <3>1, <3>3 DEF Range
    <3>6. a[2] \in SvcIds(city)
      BY <3>3, <3>5 DEF SvcIds, Ids
    <3>7. LastWithId(city.services, a[2]) = k
      BY <2>1, <3>3, <3>5, CityLists, LastOfDistinct DEF AllDistinct
    <3>8. a[2] \in DOMAIN lookup /\ lookup[a[2]].org_id = a[1]
      BY <3>4, <3>5, <3>6, <3>7 DEF ServiceLookup, RuntimeService
    <3>9. a \in Dirs \X SvcId
      BY DEF IInv, Noted
    <3> QED
      BY <3>8, <3>9
  <2> HIDE DEF lookup
  <2>3. \A a \in assets : /\ a[2] \in DOMAIN lookup
                          /\ ArchivePath(a) = ArchivePath(<<lookup[a[2]].org_id, a[2]>>)
    BY <2>2 DEF ArchivePath
  <2>4. Cardinality({row.service : row \in Inventory(assets)}) = Cardinality(assets)
    <3> DEFINE T == {row.service : row \in Inventory(assets)}
               f == [a \in assets |-> a[2]]
    <3>1. T = {a[2] : a \in assets}
      <4>1. \A a \in assets : [org |-> a[1], service |-> a[2]].service = a[2]
        OBVIOUS
      <4> QED
        BY <4>1 DEF Inventory
    <3>2. f \in Surjection(assets, T)
      BY <3>1 DEF Surjection
    <3>3. \A a, b \in assets : a[2] = b[2] => a = b
      BY <2>2
    <3>4. f \in Injection(assets, T)
      BY <3>2, <3>3 DEF Injection, IsInjective, Surjection
    <3>5. IsFiniteSet(assets)
      BY DEF IInv, Noted
    <3> HIDE DEF f, T
    <3>6. Cardinality(T) = Cardinality(assets)
      BY <3>2, <3>4, <3>5, FS_Surjection
    <3> QED
      BY <3>6 DEF T
  <2> QED
    BY <2>3, <2>4 DEF AssetsAreFound, lookup
<1> QED
  BY <1>1, PipelineInvariant, PTL

-----------------------------------------------------------------------------
(* One verdict on the same files.  As long as nobody edits them, what the  *)
(* pipeline finds is determined by the files and by --strict.              *)

(* The folders that have a config.yml, in order.                           *)
Folders(cfgs) == Selected(OrgDirs, {i \in DOMAIN OrgDirs : cfgs[OrgDirs[i]] # Absent})

(* The city after one more folder.                                         *)
After(cfgs, c, d) ==
  IF Refused(d, cfgs[d])
  THEN c
  ELSE [organizations |-> Append(c.organizations, OrgOf(d, cfgs[d])),
        services |-> c.services \o ServicesOf(d, cfgs[d]),
        links |-> c.links \o LinksOf(cfgs[d])]

(* The first k folders make up the city c.                                 *)
Assembled(cfgs, c, k) ==
  \E g : /\ g[0] = EmptyCity /\ g[k] = c
         /\ \A i \in 1 .. k : g[i] = After(cfgs, g[i - 1], Folders(cfgs)[i])

(* What the loader reports of one folder.                                  *)
FolderIssues(cfgs, dirs, d) ==
  IF Refused(d, cfgs[d])
  THEN Issues(RefusalCode(d, cfgs[d]), {<<d>>})
  ELSE IF cfgs[d].form = "mapping"
  THEN ItemIssues(d, cfgs[d])
         \cup Issues("assets", {d} \X (dirs[d] \ Ids(ServicesOf(d, cfgs[d]))))
  ELSE {}

(* What it reports of the first k folders.                                 *)
IssuesUpTo(cfgs, dirs, k) ==
  UNION {FolderIssues(cfgs, dirs, Folders(cfgs)[i]) : i \in 1 .. k}

(* The first k folders can be read.                                        *)
Readable(cfgs, k) == \A i \in 1 .. k : cfgs[Folders(cfgs)[i]] # Unreadable

(* A validation of these files ends in this outcome, with these issues.    *)
Ends(cfgs, dirs, str, outcome, all) ==
  \/ /\ Folders(cfgs) = <<>>
     /\ outcome = "raised" /\ all = {}
  \/ \E k \in DOMAIN Folders(cfgs) :
       /\ Readable(cfgs, k - 1) /\ cfgs[Folders(cfgs)[k]] = Unreadable
       /\ outcome = "raised" /\ all = IssuesUpTo(cfgs, dirs, k - 1)
  \/ /\ Folders(cfgs) # <<>> /\ Readable(cfgs, Len(Folders(cfgs)))
     /\ \E c : /\ IsCity(c) /\ Assembled(cfgs, c, Len(Folders(cfgs)))
               /\ \/ /\ ~ Fits(c)
                     /\ outcome = "raised"
                     /\ all = IssuesUpTo(cfgs, dirs, Len(Folders(cfgs)))
                  \/ /\ Fits(c)
                     /\ \E indices \in Shuffles(Len(c.organizations)) :
                          all = IssuesUpTo(cfgs, dirs, Len(Folders(cfgs)))
                                  \cup Check(c, Plan(c, indices))
                     /\ outcome = IF \A issue \in all : IsWarning(issue) /\ ~ str
                                  THEN "ok" ELSE "refused"

(* The folders are a list.                                                 *)
LEMMA FoldersList ==
  ASSUME NEW cfgs
  PROVE  /\ Folders(cfgs) \in Seq(Dirs)
         /\ Len(Folders(cfgs)) \in Nat /\ DOMAIN Folders(cfgs) = 1 .. Len(Folders(cfgs))
         /\ \A i \in DOMAIN Folders(cfgs) : cfgs[Folders(cfgs)[i]] # Absent
<1> DEFINE A == {i \in DOMAIN OrgDirs : cfgs[OrgDirs[i]] # Absent}
<1>1. OrgDirs \in Seq(STRING) /\ A \in SUBSET DOMAIN OrgDirs
  BY ValidateAssumption
<1>2. \A i \in A : OrgDirs[i] \in Dirs /\ cfgs[OrgDirs[i]] # Absent
  BY DEF Dirs, Range
<1> HIDE DEF A
<1>3. /\ Selected(OrgDirs, A) \in Seq(Dirs)
      /\ \A k \in DOMAIN Selected(OrgDirs, A) : \E i \in A : Selected(OrgDirs, A)[k] = OrgDirs[i]
  BY <1>1, <1>2, SelectedFacts
<1>4. Folders(cfgs) = Selected(OrgDirs, A)
  BY DEF Folders, A
<1> QED
  BY <1>2, <1>3, <1>4

(* No folder makes up an empty city.                                       *)
LEMMA AssembledNone == \A cfgs : Assembled(cfgs, EmptyCity, 0)
<1>1. \A cfgs : \A i \in 1 .. 0 : FALSE
  OBVIOUS
<1>2. [i \in {0} |-> EmptyCity][0] = EmptyCity
  OBVIOUS
<1> QED
  BY <1>1, <1>2 DEF Assembled

(* One more folder makes up the city after it.                             *)
LEMMA AssembledMore ==
  ASSUME NEW cfgs, NEW c, NEW k \in Nat, Assembled(cfgs, c, k)
  PROVE  Assembled(cfgs, After(cfgs, c, Folders(cfgs)[k + 1]), k + 1)
<1> DEFINE more == After(cfgs, c, Folders(cfgs)[k + 1])
<1>1. PICK g : /\ g[0] = EmptyCity /\ g[k] = c
               /\ \A i \in 1 .. k : g[i] = After(cfgs, g[i - 1], Folders(cfgs)[i])
  BY DEF Assembled
<1> DEFINE h == [i \in 0 .. k + 1 |-> IF i = k + 1 THEN more ELSE g[i]]
<1> HIDE DEF more
<1>2. /\ \A i \in 0 .. k : h[i] = g[i]
      /\ h[k + 1] = more
  OBVIOUS
<1> HIDE DEF h
<1>3. h[0] = EmptyCity
  BY <1>1, <1>2
<1>4. ASSUME NEW i \in 1 .. k + 1 PROVE h[i] = After(cfgs, h[i - 1], Folders(cfgs)[i])
  <2>1. CASE i = k + 1
    BY <1>1, <1>2, <2>1 DEF more
  <2>2. CASE i \in 1 .. k
    BY <1>1, <1>2, <2>2
  <2> QED
    BY <2>1, <2>2
<1> QED
  BY <1>2, <1>3, <1>4 DEF Assembled, more

(* They make up one city only: where two first differed, they would follow *)
(* on the same city.                                                       *)
LEMMA AssembledOnce ==
  ASSUME NEW cfgs, NEW c, NEW d, NEW k \in Nat, Assembled(cfgs, c, k), Assembled(cfgs, d, k)
  PROVE  c = d
<1>1. PICK g : /\ g[0] = EmptyCity /\ g[k] = c
               /\ \A i \in 1 .. k : g[i] = After(cfgs, g[i - 1], Folders(cfgs)[i])
  BY DEF Assembled
<1>2. PICK h : /\ h[0] = EmptyCity /\ h[k] = d
               /\ \A i \in 1 .. k : h[i] = After(cfgs, h[i - 1], Folders(cfgs)[i])
  BY DEF Assembled
<1> DEFINE differ == {i \in 1 .. k : g[i] # h[i]}
<1>3. ASSUME differ # {} PROVE FALSE
  <2>1. PICK m \in differ : \A i \in differ : m <= i
    BY <1>3, FirstPlace
  <2>2. m \in 1 .. k /\ g[m] # h[m]
    BY <2>1
  <2>3. m - 1 = 0 \/ (m - 1 \in 1 .. k /\ ~ m <= m - 1)
    BY <2>2
  <2>4. g[m - 1] = h[m - 1]
    BY <1>1, <1>2, <2>1, <2>3
  <2> QED
    BY <1>1, <1>2, <2>2, <2>4
<1>4. k = 0 \/ k \in 1 .. k
  OBVIOUS
<1> QED
  BY <1>1, <1>2, <1>3, <1>4

(* One more folder adds its own issues.                                    *)
LEMMA UpToMore ==
  ASSUME NEW cfgs, NEW dirs, NEW k \in Nat
  PROVE  IssuesUpTo(cfgs, dirs, k + 1) =
           IssuesUpTo(cfgs, dirs, k) \cup FolderIssues(cfgs, dirs, Folders(cfgs)[k + 1])
<1>1. 1 .. k + 1 = (1 .. k) \cup {k + 1}
  OBVIOUS
<1> QED
  BY <1>1 DEF IssuesUpTo

(* There are never more than those of all folders.                         *)
LEMMA UpToWithin ==
  ASSUME NEW cfgs, NEW dirs, NEW n \in Nat, NEW k \in 0 .. n
  PROVE  IssuesUpTo(cfgs, dirs, k) \subseteq IssuesUpTo(cfgs, dirs, n)
<1>1. 1 .. k \subseteq 1 .. n
  OBVIOUS
<1> QED
  BY <1>1 DEF IssuesUpTo

(* The end is determined.                                                  *)
LEMMA OneEnd ==
  ASSUME NEW cfgs, NEW dirs, NEW str, NEW o, NEW p, NEW all, NEW more,
         Ends(cfgs, dirs, str, o, all), Ends(cfgs, dirs, str, p, more)
  PROVE  o = p /\ all = more
<1> DEFINE n == Len(Folders(cfgs))
           Empty(q, iss) == Folders(cfgs) = <<>> /\ q = "raised" /\ iss = {}
           Stops(q, iss, k) ==
             /\ Readable(cfgs, k - 1) /\ cfgs[Folders(cfgs)[k]] = Unreadable
             /\ q = "raised" /\ iss = IssuesUpTo(cfgs, dirs, k - 1)
           Judged(q, iss, c) ==
             \/ ~ Fits(c) /\ q = "raised" /\ iss = IssuesUpTo(cfgs, dirs, n)
             \/ /\ Fits(c)
                /\ \E indices \in Shuffles(Len(c.organizations)) :
                     iss = IssuesUpTo(cfgs, dirs, n) \cup Check(c, Plan(c, indices))
                /\ q = IF \A issue \in iss : IsWarning(issue) /\ ~ str THEN "ok" ELSE "refused"
           Reads(q, iss) ==
             /\ Folders(cfgs) # <<>> /\ Readable(cfgs, n)
             /\ \E c : IsCity(c) /\ Assembled(cfgs, c, n) /\ Judged(q, iss, c)
<1>1. \A q, iss : Ends(cfgs, dirs, str, q, iss) =>
        Empty(q, iss) \/ (\E k \in 1 .. n : Stops(q, iss, k)) \/ Reads(q, iss)
  BY FoldersList DEF Ends
<1>2. n \in Nat /\ (Folders(cfgs) = <<>> => n = 0)
  BY FoldersList
<1>3. \A k, l \in 1 .. n : Readable(cfgs, k - 1) /\ cfgs[Folders(cfgs)[l]] = Unreadable => ~ l < k
  BY <1>2 DEF Readable
<1>4. \A k \in 1 .. n : cfgs[Folders(cfgs)[k]] = Unreadable => ~ Readable(cfgs, n)
  BY DEF Readable
<1>5. ASSUME NEW c, IsCity(c), NEW q, NEW iss, NEW r, NEW jss, Judged(q, iss, c), Judged(r, jss, c)
      PROVE  q = r /\ iss = jss
  BY <1>5, DrawDoesNotMatter
<1>6. ASSUME NEW q, NEW iss, NEW r, NEW jss, Reads(q, iss), Reads(r, jss)
      PROVE  q = r /\ iss = jss
  <2>1. PICK c : IsCity(c) /\ Assembled(cfgs, c, n) /\ Judged(q, iss, c)
    BY <1>6
  <2>2. PICK d : IsCity(d) /\ Assembled(cfgs, d, n) /\ Judged(r, jss, d)
    BY <1>6
  <2> HIDE DEF Judged
  <2>3. c = d
    BY <1>2, <2>1, <2>2, AssembledOnce
  <2> QED
    BY <1>5, <2>1, <2>2, <2>3
<1>7. \A q, iss, k : Reads(q, iss) => ~ Empty(q, iss) /\ Readable(cfgs, n) /\ Folders(cfgs) # <<>>
  OBVIOUS
<1> HIDE DEF Reads, n
<1>8. ASSUME NEW k \in 1 .. n, NEW l \in 1 .. n, Stops(o, all, k), Stops(p, more, l)
      PROVE  o = p /\ all = more
  <2>1. k = l
    BY <1>2, <1>3, <1>8
  <2> QED
    BY <1>8, <2>1
<1>9. CASE Empty(o, all)
  BY <1>1, <1>2, <1>7, <1>9
<1>10. CASE \E k \in 1 .. n : Stops(o, all, k)
  BY <1>1, <1>2, <1>4, <1>7, <1>8, <1>10
<1>11. CASE Reads(o, all)
  BY <1>1, <1>4, <1>6, <1>7, <1>11
<1> QED
  BY <1>1, <1>9, <1>10, <1>11

(* The issues of the folders read so far.                                  *)
IssuesSoFar ==
  IssuesUpTo(config, asset_dirs, pos - 1)
    \cup (IF pc = "assets" THEN ItemIssues(found[pos], config[found[pos]]) ELSE {})

(* What holds while nobody edits: found, read, city and, of a new loader,  *)
(* the issues are those of the files as they are.                          *)
Steady ==
  /\ pc # "find" => found = Folders(config)
  /\ \A d \in DOMAIN read : read[d] = config[d] /\ config[d] # Unreadable
  /\ Assembled(config, city, FoldersRead)
  /\ IssuesSoFar \subseteq issues
  /\ issues \subseteq IssuesUpTo(config, asset_dirs, Len(Folders(config)))
  /\ runs = 1 => issues = IssuesSoFar
  /\ pc # "done" => report = {}
  /\ pc \in {"done", "raised"} =>
       \E all : /\ Ends(config, asset_dirs, strict, Outcome, all)
                /\ runs = 1 => all = issues \cup report

(* A new loader has found nothing yet.                                     *)
LEMMA SteadyStart ==
  ASSUME pc = "find", pos = 1, read = EmptyDict, city = EmptyCity, report = {},
         issues \subseteq IssuesUpTo(config, asset_dirs, Len(Folders(config))),
         runs = 1 => issues = {}
  PROVE  Steady
<1>1. \A d \in DOMAIN read : FALSE
  BY DEF EmptyDict
<1>2. Assembled(config, city, FoldersRead)
  BY AssembledNone DEF FoldersRead
<1>3. IssuesSoFar = {}
  BY DEF IssuesSoFar, IssuesUpTo
<1> QED
  BY <1>1, <1>2, <1>3 DEF Steady

(* The first k folders have been read, so they can be.                     *)
LEMMA ReadIsReadable ==
  ASSUME TypeOK, Steady, pc \in {"read", "check"}
  PROVE  Readable(config, pos - 1) /\ found = Folders(config) /\ FoldersRead = pos - 1
<1>1. DOMAIN read = {found[i] : i \in 1 .. pos - 1}
  BY DEF TypeOK
<1> QED
  BY <1>1 DEF Steady, Readable, FoldersRead

(* Every step of the pipeline keeps it so.                                 *)
LEMMA SteadyStep == IInv /\ Steady /\ Pipeline => Steady'
<1> SUFFICES ASSUME IInv, Steady, Pipeline PROVE Steady'
  OBVIOUS
<1> DEFINE n == Len(Folders(config))
<1>1. /\ TypeOK /\ Reading /\ Computed
      /\ pos \in 1 .. Len(found) + 1 /\ Len(found) \in Nat
      /\ n \in Nat /\ DOMAIN Folders(config) = 1 .. n
  BY FoldersList DEF IInv, TypeOK
<1>2. CASE FindOrgDirs
  <2>1. /\ pc = "find" /\ found' = Folders(config)
        /\ pc' = IF found' = <<>> THEN "raised" ELSE "read"
        /\ UNCHANGED <<disk, request, pos, read, city, issues, assets, report>>
    BY <1>2 DEF FindOrgDirs, Folders, HasConfig
  <2>2. FoldersRead' = FoldersRead /\ IssuesSoFar' = IssuesSoFar
    BY <2>1 DEF FoldersRead, IssuesSoFar, disk
  <2>3. found = <<>> /\ pos = 1
    BY <1>1, <2>1 DEF Reading
  <2>4. IssuesSoFar = {}
    BY <2>1, <2>3 DEF IssuesSoFar, IssuesUpTo
  <2>5. pc' = "raised" => Ends(config, asset_dirs, strict, "raised", {})
    BY <2>1 DEF Ends
  <2>6. pc' = "raised" => Outcome' = "raised"
    BY DEF Outcome
  <2>7. pc' \in {"done", "raised"} =>
          \E all : /\ Ends(config, asset_dirs, strict, Outcome', all)
                   /\ runs = 1 => all = issues \cup report
    BY <2>1, <2>4, <2>5, <2>6 DEF Steady
  <2> QED
    BY <2>1, <2>2, <2>7 DEF Steady, disk, request
<1>3. CASE ReadFails
  <2>1. /\ AtConfig /\ config[found[pos]] \in {Absent, Unreadable} /\ pc' = "raised"
        /\ UNCHANGED <<disk, request, loader, report>>
    BY <1>3 DEF ReadFails, Here
  <2>2. pc = "read" /\ pos \in 1 .. n
    BY <1>1, <2>1 DEF AtConfig, Steady
  <2>3. Readable(config, pos - 1) /\ found = Folders(config)
    BY <1>1, <2>2, ReadIsReadable
  <2>4. config[Folders(config)[pos]] = Unreadable
    BY <1>1, <2>1, <2>2, <2>3, FoldersList
  <2>5. Ends(config, asset_dirs, strict, "raised", IssuesUpTo(config, asset_dirs, pos - 1))
    BY <1>1, <2>2, <2>3, <2>4 DEF Ends
  <2>6. /\ IssuesSoFar = IssuesUpTo(config, asset_dirs, pos - 1)
        /\ FoldersRead' = FoldersRead /\ IssuesSoFar' = IssuesSoFar
    BY <2>1, <2>2 DEF FoldersRead, IssuesSoFar, disk, loader
  <2>7. runs = 1 => IssuesSoFar = issues \cup report
    BY <2>2 DEF Steady
  <2> QED
    BY <2>1, <2>2, <2>5, <2>6, <2>7 DEF Steady, Outcome, disk, request, loader
<1>4. CASE RefuseOrganization
  <2> DEFINE d == found[pos]
  <2>1. /\ AtConfig /\ Refused(d, config[d])
        /\ issues' = issues \cup Issues(RefusalCode(d, config[d]), {<<d>>})
        /\ read' = Assigned(read, d, config[d]) /\ pos' = pos + 1
        /\ UNCHANGED <<disk, request, pc, found, city, report>>
    BY <1>4 DEF RefuseOrganization, Here
  <2>2. pc = "read" /\ pos \in 1 .. n /\ found = Folders(config)
    BY <1>1, <2>1 DEF AtConfig, Steady
  <2>3. config[d] # Unreadable
    BY <1>1, <2>1, AtFolder, ReadableFile DEF AtConfig
  <2>4. \A e \in DOMAIN read' : read'[e] = config[e] /\ config[e] # Unreadable
    BY <2>1, <2>3 DEF Assigned, Steady
  <2>5. After(config, city, d) = city
    BY <2>1 DEF After
  <2>6. /\ pos - 1 \in Nat /\ pos - 1 + 1 = pos /\ pos' - 1 = pos
        /\ FoldersRead = pos - 1 /\ FoldersRead' = pos
    BY <2>1, <2>2 DEF FoldersRead
  <2>7. Assembled(config, city, pos)
    BY <2>2, <2>5, <2>6, AssembledMore DEF Steady
  <2>8. FolderIssues(config, asset_dirs, d) = Issues(RefusalCode(d, config[d]), {<<d>>})
    BY <2>1 DEF FolderIssues
  <2>9. IssuesUpTo(config, asset_dirs, pos) =
          IssuesUpTo(config, asset_dirs, pos - 1) \cup Issues(RefusalCode(d, config[d]), {<<d>>})
    BY <2>2, <2>6, <2>8, UpToMore
  <2>10. /\ IssuesSoFar = IssuesUpTo(config, asset_dirs, pos - 1)
         /\ IssuesSoFar' = IssuesUpTo(config, asset_dirs, pos)
    BY <2>1, <2>2, <2>6 DEF IssuesSoFar, disk
  <2>11. IssuesUpTo(config, asset_dirs, pos) \subseteq IssuesUpTo(config, asset_dirs, n)
    BY <1>1, <2>2, UpToWithin
  <2> HIDE DEF d, n
  <2>12. /\ IssuesSoFar' \subseteq issues'
         /\ issues' \subseteq IssuesUpTo(config, asset_dirs, n)
         /\ runs = 1 => issues' = IssuesSoFar'
    BY <2>1, <2>9, <2>10, <2>11 DEF Steady, n
  <2> QED
    BY <2>1, <2>2, <2>4, <2>6, <2>7, <2>12 DEF Steady, disk, request, n
<1>5. CASE LoadOrganization
  <2> DEFINE d == found[pos]
             cfg == config[d]
  <2>1. /\ AtConfig /\ cfg.form = "mapping" /\ ~ Refused(d, cfg)
        /\ city' = [organizations |-> Append(city.organizations, OrgOf(d, cfg)),
                    services |-> city.services \o ServicesOf(d, cfg),
                    links |-> city.links \o LinksOf(cfg)]
        /\ issues' = issues \cup ItemIssues(d, cfg)
        /\ read' = Assigned(read, d, cfg) /\ pc' = "assets"
        /\ UNCHANGED <<disk, request, found, pos, report>>
    BY <1>5 DEF LoadOrganization, Here
  <2>2. pc = "read" /\ pos \in 1 .. n /\ found = Folders(config)
    BY <1>1, <2>1 DEF AtConfig, Steady
  <2>3. config[d] # Unreadable
    BY <1>1, <2>1, AtFolder, ReadableFile DEF AtConfig
  <2>4. \A e \in DOMAIN read' : read'[e] = config[e] /\ config[e] # Unreadable
    BY <2>1, <2>3 DEF Assigned, Steady
  <2>5. After(config, city, d) = city'
    BY <2>1 DEF After
  <2>6. /\ pos - 1 \in Nat /\ pos - 1 + 1 = pos
        /\ FoldersRead = pos - 1 /\ FoldersRead' = pos
    BY <2>1, <2>2 DEF FoldersRead
  <2>7. Assembled(config, city', pos)
    BY <2>2, <2>5, <2>6, AssembledMore DEF Steady
  <2>8. ItemIssues(d, cfg) \subseteq FolderIssues(config, asset_dirs, d)
    BY <2>1 DEF FolderIssues
  <2>9. IssuesUpTo(config, asset_dirs, pos) =
          IssuesUpTo(config, asset_dirs, pos - 1) \cup FolderIssues(config, asset_dirs, d)
    BY <2>2, <2>6, UpToMore
  <2>10. /\ IssuesSoFar = IssuesUpTo(config, asset_dirs, pos - 1)
         /\ IssuesSoFar' = IssuesUpTo(config, asset_dirs, pos - 1) \cup ItemIssues(d, cfg)
    BY <2>1, <2>2 DEF IssuesSoFar, disk
  <2>11. IssuesUpTo(config, asset_dirs, pos) \subseteq IssuesUpTo(config, asset_dirs, n)
    BY <1>1, <2>2, UpToWithin
  <2> HIDE DEF d, cfg, n
  <2>12. /\ IssuesSoFar' \subseteq issues'
         /\ issues' \subseteq IssuesUpTo(config, asset_dirs, n)
         /\ runs = 1 => issues' = IssuesSoFar'
    BY <2>1, <2>8, <2>9, <2>10, <2>11 DEF Steady, n
  <2> QED
    BY <2>1, <2>2, <2>4, <2>6, <2>7, <2>12 DEF Steady, disk, request, n
<1>6. CASE LoadAssets
  <2> DEFINE d == found[pos]
             stray == Issues("assets", {d} \X (asset_dirs[d] \ Ids(ServicesOf(d, config[d]))))
  <2>1. /\ pc = "assets" /\ pos' = pos + 1 /\ pc' = "read"
        /\ issues' = issues \cup
             Issues("assets", {d} \X (asset_dirs[d] \ Ids(ServicesOf(d, read[d]))))
        /\ UNCHANGED <<disk, request, found, read, city, report>>
    BY <1>6 DEF LoadAssets, Here
  <2>2. /\ pos \in 1 .. n /\ found = Folders(config)
        /\ ~ Refused(d, read[d]) /\ read[d].form = "mapping"
    BY <1>1, <2>1 DEF Reading, Kept, Steady
  <2>3. d \in DOMAIN read /\ read[d] = config[d]
    BY <1>1, <2>1, <2>2 DEF TypeOK, Steady
  <2>4. /\ pos - 1 \in Nat /\ pos - 1 + 1 = pos /\ pos' - 1 = pos
        /\ FoldersRead = pos /\ FoldersRead' = pos
    BY <2>1, <2>2 DEF FoldersRead
  <2>5. FolderIssues(config, asset_dirs, d) = ItemIssues(d, config[d]) \cup stray
    BY <2>2, <2>3 DEF FolderIssues
  <2>6. IssuesUpTo(config, asset_dirs, pos) =
          IssuesUpTo(config, asset_dirs, pos - 1) \cup FolderIssues(config, asset_dirs, d)
    BY <2>2, <2>4, UpToMore
  <2>7. /\ IssuesSoFar = IssuesUpTo(config, asset_dirs, pos - 1) \cup ItemIssues(d, config[d])
        /\ IssuesSoFar' = IssuesUpTo(config, asset_dirs, pos)
        /\ issues' = issues \cup stray
    BY <2>1, <2>3, <2>4 DEF IssuesSoFar, disk
  <2>8. IssuesUpTo(config, asset_dirs, pos) \subseteq IssuesUpTo(config, asset_dirs, n)
    BY <1>1, <2>2, UpToWithin
  <2> HIDE DEF d, stray, n
  <2>9. /\ IssuesSoFar' \subseteq issues'
        /\ issues' \subseteq IssuesUpTo(config, asset_dirs, n)
        /\ runs = 1 => issues' = IssuesSoFar'
    BY <2>5, <2>6, <2>7, <2>8 DEF Steady, n
  <2> QED
    BY <2>1, <2>2, <2>4, <2>9 DEF Steady, disk, request, n
<1>7. CASE Allocate
  <2>1. /\ Loaded /\ pc' = "check"
        /\ UNCHANGED <<disk, request, loader, report>>
    BY <1>7 DEF Allocate
  <2>2. FoldersRead' = FoldersRead /\ IssuesSoFar' = IssuesSoFar
    BY <2>1 DEF FoldersRead, IssuesSoFar, Loaded, disk, loader
  <2> QED
    BY <2>1, <2>2 DEF Steady, Loaded, disk, request, loader
<1>8. ASSUME pc \in {"read", "check"}, pos = Len(found) + 1
      PROVE  /\ Folders(config) # <<>> /\ Readable(config, n)
             /\ IsCity(city) /\ Assembled(config, city, n)
             /\ issues = IssuesUpTo(config, asset_dirs, n) /\ IssuesSoFar = issues
  <2>1. Readable(config, pos - 1) /\ found = Folders(config) /\ FoldersRead = pos - 1
    BY <1>1, <1>8, ReadIsReadable
  <2>2. pos - 1 = n
    BY <1>1, <1>8, <2>1
  <2>3. IssuesSoFar = IssuesUpTo(config, asset_dirs, n)
    BY <1>8, <2>2 DEF IssuesSoFar
  <2>4. IsCity(city)
    BY <1>1 DEF TypeOK, IsCity
  <2> QED
    BY <1>1, <1>8, <2>1, <2>2, <2>3, <2>4 DEF Steady, Reading
<1>9. CASE AllocationFails
  <2>1. /\ Loaded /\ ~ Fits(city) /\ pc' = "raised"
        /\ UNCHANGED <<disk, request, loader, report>>
    BY <1>9 DEF AllocationFails
  <2>2. pc = "read" /\ pos = Len(found) + 1
    BY <1>1, <2>1 DEF Loaded
  <2>3. Ends(config, asset_dirs, strict, "raised", issues)
    BY <1>8, <2>1, <2>2 DEF Ends
  <2>4. FoldersRead' = FoldersRead /\ IssuesSoFar' = IssuesSoFar
    BY <2>1, <2>2 DEF FoldersRead, IssuesSoFar, disk, loader
  <2>5. issues \cup report = issues
    BY <2>2 DEF Steady
  <2> QED
    BY <2>1, <2>2, <2>3, <2>4, <2>5 DEF Steady, Outcome, disk, request, loader
<1>10. CASE RunRules
  <2>1. /\ pc = "check" /\ report' = Check(city, plan) /\ ok' = Accepts(issues \cup report')
        /\ pc' = "done" /\ UNCHANGED <<disk, request, loader>>
    BY <1>10 DEF RunRules
  <2>2. /\ pos = Len(found) + 1 /\ Fits(city)
        /\ \E indices \in Shuffles(Len(city.organizations)) : plan = Plan(city, indices)
    BY <1>1, <2>1 DEF Computed
  <2>3. Outcome' = IF \A issue \in issues \cup report' : IsWarning(issue) /\ ~ strict
                   THEN "ok" ELSE "refused"
    BY <2>1 DEF Outcome, Accepts
  <2>4. Ends(config, asset_dirs, strict, Outcome', issues \cup report')
    <3>1. \E indices \in Shuffles(Len(city.organizations)) :
            issues \cup report' = IssuesUpTo(config, asset_dirs, n)
                                    \cup Check(city, Plan(city, indices))
      BY <1>8, <2>1, <2>2
    <3> QED
      BY <1>8, <2>1, <2>2, <2>3, <3>1 DEF Ends
  <2>5. FoldersRead' = FoldersRead /\ IssuesSoFar' = IssuesSoFar
    BY <2>1 DEF FoldersRead, IssuesSoFar, disk, loader
  <2> QED
    BY <2>1, <2>4, <2>5 DEF Steady, disk, request, loader
<1> QED
  BY <1>2, <1>3, <1>4, <1>5, <1>6, <1>7, <1>9, <1>10 DEF Pipeline

(* As long as nobody has edited, the pipeline is steady, and how the       *)
(* validation before ended is an end of these files.                       *)
Repeating ==
  edits = 0 =>
    /\ Steady
    /\ runs > 1 => \E all : Ends(config, asset_dirs, strict, prior, all)

(* Every action keeps this.                                                *)
LEMMA RepeatingStep == IInv /\ Repeating /\ [Next]_vars => Repeating'
<1> SUFFICES ASSUME IInv, Repeating, [Next]_vars, edits' = 0
             PROVE  /\ Steady'
                    /\ runs' > 1 => \E all : Ends(config', asset_dirs', strict', prior', all)
  BY DEF Repeating
<1>1. TypeOK /\ edits \in Nat
  BY DEF IInv, TypeOK
<1>2. ASSUME edits = 0 PROVE Steady /\ (runs > 1 => \E all : Ends(config, asset_dirs, strict, prior, all))
  BY <1>2 DEF Repeating
<1>3. CASE UNCHANGED vars
  BY <1>2, <1>3 DEF vars, disk, request, loader, Steady, FoldersRead, IssuesSoFar, Outcome
<1>4. CASE Edit
  BY <1>1, <1>4 DEF Edit
<1>5. CASE Pipeline
  <2>1. UNCHANGED <<disk, request>>
    BY <1>5 DEF Pipeline, FindOrgDirs, ReadFails, RefuseOrganization, LoadOrganization,
                LoadAssets, Allocate, AllocationFails, RunRules
  <2> QED
    BY <1>2, <1>5, <2>1, SteadyStep DEF disk, request
<1>6. CASE ValidateAgain
  <2>1. /\ pc \in {"done", "raised"} /\ pc' = "find" /\ runs' = runs + 1 /\ prior' = Outcome
        /\ pos' = 1 /\ read' = EmptyDict /\ city' = EmptyCity /\ report' = {}
        /\ UNCHANGED <<disk, strict, issues>>
    BY <1>6 DEF ValidateAgain
  <2>2. Steady /\ runs' # 1
    BY <1>1, <1>2, <2>1, ValidateAssumption DEF disk, TypeOK
  <2>3. \E all : Ends(config, asset_dirs, strict, Outcome, all)
    BY <2>1, <2>2 DEF Steady
  <2>4. (pc = "find" /\ pos = 1 /\ read = EmptyDict /\ city = EmptyCity /\ report = {}
           /\ issues \subseteq IssuesUpTo(config, asset_dirs, Len(Folders(config)))
           /\ (runs = 1 => issues = {}) => Steady)'
    BY SteadyStart, PTL
  <2>5. issues' \subseteq IssuesUpTo(config', asset_dirs', Len(Folders(config')))
    BY <2>1, <2>2 DEF Steady, disk
  <2>6. Steady'
    BY <2>1, <2>2, <2>4, <2>5
  <2> QED
    BY <2>1, <2>3, <2>6 DEF disk
<1> QED
  BY <1>3, <1>4, <1>5, <1>6 DEF Next

(* A loader that is used once more gives the same verdict about the same   *)
(* files, whatever they hold and whatever the allocator draws:             *)
(* SameVerdictAgain.                                                       *)
THEOREM VerdictIsRepeated == Spec => []SameVerdictAgain
<1>1. Init => IInv
  <2>1. Init => Started
    BY ValidateAssumption DEF Init, Started
  <2> QED
    BY <2>1, StartInv
<1>2. Init => Repeating
  BY SteadyStart DEF Init, Repeating
<1>3. IInv /\ Repeating /\ [Next]_vars => (IInv /\ Repeating)'
  BY InvariantStep, RepeatingStep
<1>4. IInv /\ Repeating => SameVerdictAgain
  BY OneEnd DEF Repeating, Steady, SameVerdictAgain
<1> QED
  BY <1>1, <1>2, <1>3, <1>4, PTL DEF Spec

=============================================================================
