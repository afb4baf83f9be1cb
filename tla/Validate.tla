------------------------------ MODULE Validate ------------------------------
(***************************************************************************)
(* The validation pipeline behind `check` and `build`                      *)
(* (use_cases/validate_step.py): the loader reads one organization         *)
(* directory after another into a city, the city gets an address plan, the *)
(* rules are checked.  The files may be edited while the loader reads.     *)
(*                                                                         *)
(* Allocation is one step here, AddressPlan's closed form; Allocator       *)
(* implements it loop by loop.                                             *)
(***************************************************************************)
EXTENDS AddressPlan, Checker

CONSTANTS
  OrgDirs,      \* the folder names of organizations/, sorted
  SvcId,        \* names of service asset directories
  Configs,      \* folder -> what its config.yml may hold when it is read
  StrictModes,  \* values of --strict
  MaxEdits,     \* bound on the edits
  MaxRuns       \* bound on the validations one loader is used for

ASSUME ValidateAssumption ==
  /\ OrgDirs \in Seq(STRING) /\ IsInjective(OrgDirs)
  /\ DOMAIN Configs = Range(OrgDirs)
  /\ StrictModes \subseteq BOOLEAN
  /\ MaxEdits \in Nat
  /\ MaxRuns \in Nat \ {0}

(* What reading config.yml gives: no file, text that cannot be decoded or  *)
(* iterated (the exception escapes), text that is no YAML mapping, or a    *)
(* mapping with an id, an organization part that the schema accepts or     *)
(* not, and lists of services and links in which Invalid stands for an     *)
(* item the schema refuses.  A service may leave its org_id out.           *)
Absent     == [form |-> "absent"]
Unreadable == [form |-> "unreadable"]
Malformed  == [form |-> "malformed"]
Invalid    == [form |-> "invalid item"]
Unset      == "unset"

(* Items have passed the schema (domain/models.py) or are Invalid; the text*)
(* of an id is not None.                                                   *)
NetworkName == STRING \ {NoNetwork}

ConfigFile ==
  {Unreadable, Malformed}
  \cup [form : {"mapping"}, id : STRING, valid : BOOLEAN,
        networks : Seq(Network(NetworkName)),
        services : Seq(Service(STRING, NetworkName, STRING) \cup {Invalid}),
        links : Seq(Link(STRING) \cup {Invalid})]

ASSUME ConfigsAssumption == \A d \in Range(OrgDirs) : Configs[d] \subseteq ConfigFile

VARIABLES
  config,      \* disk: folder -> what its config.yml holds
  asset_dirs,  \* disk: folder -> the directories under services/
  edits,       \* edits made so far
  strict,      \* --strict
  runs,        \* validations begun with this loader
  prior,       \* history: how the validation before this one ended
  pc,          \* where the pipeline is
  found,       \* find_org_dirs: the folders to read, in order
  pos,         \* load: the folder being read
  read,        \* history: folder -> what the loader read there
  city,        \* the city under assembly
  issues,      \* loader.issues
  assets,      \* loader.service_assets: pairs <<org folder, service id>>
  plan,        \* the Allocation
  report,      \* the checker's issues
  ok           \* CheckResult.ok

disk    == <<config, asset_dirs, edits>>
loader  == <<found, pos, read, city, issues, assets>>
request == <<strict, runs, prior>>
vars    == <<disk, request, pc, loader, plan, report, ok>>

Dirs == Range(OrgDirs)

Contents(d) == Configs[d] \cup {Absent}

EmptyCity == [organizations |-> <<>>, services |-> <<>>, links |-> <<>>]

Init ==
  /\ config \in [Dirs -> UNION {Contents(d) : d \in Dirs}]
  /\ \A d \in Dirs : config[d] \in Contents(d)
  /\ asset_dirs \in [Dirs -> SUBSET SvcId]
  /\ edits = 0
  /\ strict \in StrictModes
  /\ runs = 1 /\ prior = "none"
  /\ pc = "find"
  /\ found = <<>> /\ pos = 1 /\ read = EmptyDict
  /\ city = EmptyCity /\ issues = {} /\ assets = {}
  /\ plan = EmptyDict /\ report = {} /\ ok = FALSE

-----------------------------------------------------------------------------
(* Somebody saves a config.yml, removes it, or changes the asset folders.  *)
Edit ==
  /\ pc \notin {"done", "raised"} \/ runs < MaxRuns
  /\ edits < MaxEdits
  /\ edits' = edits + 1
  /\ \E d \in Dirs :
       \/ /\ \E c \in Contents(d) : config' = [config EXCEPT ![d] = c]
          /\ UNCHANGED asset_dirs
       \/ /\ \E a \in SUBSET SvcId : asset_dirs' = [asset_dirs EXCEPT ![d] = a]
          /\ UNCHANGED config
  /\ UNCHANGED <<request, pc, loader, plan, report, ok>>

-----------------------------------------------------------------------------
(* NetworkLoader.                                                          *)

HasConfig(d) == config[d] # Absent

(* find_org_dirs passes over a folder without config.yml in silence.       *)
FindOrgDirs ==
  /\ pc = "find"
  /\ found' = Selected(OrgDirs, {i \in DOMAIN OrgDirs : HasConfig(OrgDirs[i])})
  /\ pc' = IF found' = <<>> THEN "raised" ELSE "read"
  /\ UNCHANGED <<disk, request, pos, read, city, issues, assets, plan, report, ok>>

Here == found[pos]

AtConfig == pc = "read" /\ pos <= Len(found)

(* read_text fails, or a list of the mapping cannot be iterated.           *)
ReadFails ==
  /\ AtConfig
  /\ config[Here] \in {Absent, Unreadable}
  /\ pc' = "raised"
  /\ UNCHANGED <<disk, request, loader, plan, report, ok>>

(* L001, L003 and L002 of the organization part: the folder is dropped.    *)
RefusalCode(d, cfg) ==
  IF cfg.form = "malformed" THEN "L001"
  ELSE IF cfg.id # d THEN "L003"
  ELSE "L002"

Refused(d, cfg) == \/ cfg.form = "malformed"
                   \/ cfg.form = "mapping" /\ (cfg.id # d \/ ~ cfg.valid)

RefuseOrganization ==
  /\ AtConfig
  /\ Refused(Here, config[Here])
  /\ issues' = issues \cup Issues(RefusalCode(Here, config[Here]), {<<Here>>})
  /\ read' = Assigned(read, Here, config[Here])
  /\ pos' = pos + 1
  /\ UNCHANGED <<disk, request, pc, found, city, assets, plan, report, ok>>

IsValid(item) == item # Invalid

ValidItems(items) == Selected(items, {i \in DOMAIN items : IsValid(items[i])})

(* item.setdefault("org_id", org_id)                                       *)
WithOrg(d, items) ==
  [i \in DOMAIN items |->
     IF items[i].org_id = Unset THEN [items[i] EXCEPT !.org_id = d] ELSE items[i]]

OrgOf(d, cfg)      == [id |-> d, networks |-> cfg.networks]
ServicesOf(d, cfg) == WithOrg(d, ValidItems(cfg.services))
LinksOf(cfg)       == ValidItems(cfg.links)

(* Mutant: the links the schema refuses are dropped without an issue.      *)
ItemIssuesServicesOnly(d, cfg) ==
  Issues("L002", {<<d, "services", i>> : i \in
                    {j \in DOMAIN cfg.services : ~ IsValid(cfg.services[j])}})

(* L002 of each service and link the schema refuses: only the item is      *)
(* dropped.                                                                *)
ItemIssues(d, cfg) ==
  Issues("L002", {<<d, "services", i>> : i \in
                    {j \in DOMAIN cfg.services : ~ IsValid(cfg.services[j])}})
  \cup
  Issues("L002", {<<d, "links", i>> : i \in
                    {j \in DOMAIN cfg.links : ~ IsValid(cfg.links[j])}})

LoadOrganization ==
  /\ AtConfig
  /\ LET cfg == config[Here]
     IN  /\ cfg.form = "mapping"
         /\ ~ Refused(Here, cfg)
         /\ city' = [organizations |-> Append(city.organizations, OrgOf(Here, cfg)),
                     services |-> city.services \o ServicesOf(Here, cfg),
                     links |-> city.links \o LinksOf(cfg)]
         /\ issues' = issues \cup ItemIssues(Here, cfg)
         /\ read' = Assigned(read, Here, cfg)
  /\ pc' = "assets"
  /\ UNCHANGED <<disk, request, found, pos, assets, plan, report, ok>>

(* Mutant: the folder names are compared with all services loaded so far.  *)
LoadAssetsOfAnyOrg ==
  /\ pc = "assets"
  /\ issues' = issues \cup
                 Issues("assets", {Here} \X (asset_dirs[Here] \ SvcIds(city)))
  /\ assets' = assets \cup ({Here} \X (asset_dirs[Here] \cap SvcIds(city)))
  /\ pos' = pos + 1
  /\ pc' = "read"
  /\ UNCHANGED <<disk, request, found, read, city, plan, report, ok>>

(* Mutant: the folder is not left behind.                                  *)
LoadAssetsStays ==
  /\ pc = "assets"
  /\ LET declared == Ids(ServicesOf(Here, read[Here]))
     IN  /\ issues' = issues \cup
                        Issues("assets", {Here} \X (asset_dirs[Here] \ declared))
         /\ assets' = assets \cup ({Here} \X (asset_dirs[Here] \cap declared))
  /\ pc' = "read"
  /\ UNCHANGED <<disk, request, found, pos, read, city, plan, report, ok>>

(* _load_service_assets: a folder that names no service read from this     *)
(* organization's config.yml is a warning.                                 *)
LoadAssets ==
  /\ pc = "assets"
  /\ LET declared == Ids(ServicesOf(Here, read[Here]))
     IN  /\ issues' = issues \cup
                        Issues("assets", {Here} \X (asset_dirs[Here] \ declared))
         /\ assets' = assets \cup ({Here} \X (asset_dirs[Here] \cap declared))
  /\ pos' = pos + 1
  /\ pc' = "read"
  /\ UNCHANGED <<disk, request, found, read, city, plan, report, ok>>

-----------------------------------------------------------------------------
(* ValidateCityStep.execute, once load has returned.                       *)

Loaded == pc = "read" /\ pos > Len(found)

Allocate ==
  /\ Loaded
  /\ Fits(city)
  /\ \E indices \in Shuffles(Len(city.organizations)) : plan' = Plan(city, indices)
  /\ pc' = "check"
  /\ UNCHANGED <<disk, request, loader, report, ok>>

(* AllocationError leaves execute, and the issues with it.                 *)
AllocationFails ==
  /\ Loaded
  /\ ~ Fits(city)
  /\ pc' = "raised"
  /\ UNCHANGED <<disk, request, loader, plan, report, ok>>

IsWarning(issue) == issue[1] = "assets"

(* ok = not errors and (not strict or not warnings)                        *)
Accepts(all) == \A issue \in all : IsWarning(issue) /\ ~ strict

RunRules ==
  /\ pc = "check"
  /\ report' = Check(city, plan)
  /\ ok' = Accepts(issues \cup report')
  /\ pc' = "done"
  /\ UNCHANGED <<disk, request, loader, plan>>

Outcome == IF pc = "raised" THEN "raised" ELSE IF ok THEN "ok" ELSE "refused"

(* Mutant: the lists of the city are kept by the loader, as issues is.     *)
ValidateAgainAddsUp ==
  /\ pc \in {"done", "raised"}
  /\ runs < MaxRuns
  /\ runs' = runs + 1
  /\ prior' = Outcome
  /\ pc' = "find"
  /\ found' = <<>> /\ pos' = 1 /\ read' = EmptyDict
  /\ plan' = EmptyDict /\ report' = {} /\ ok' = FALSE
  /\ UNCHANGED <<disk, strict, city, issues, assets>>

(* The same loader is told to load once more: its lists of organizations,  *)
(* services and links are new, issues and service_assets are not.          *)
ValidateAgain ==
  /\ pc \in {"done", "raised"}
  /\ runs < MaxRuns
  /\ runs' = runs + 1
  /\ prior' = Outcome
  /\ pc' = "find"
  /\ found' = <<>> /\ pos' = 1 /\ read' = EmptyDict
  /\ city' = EmptyCity
  /\ plan' = EmptyDict /\ report' = {} /\ ok' = FALSE
  /\ UNCHANGED <<disk, strict, issues, assets>>

-----------------------------------------------------------------------------
Pipeline ==
  \/ FindOrgDirs \/ ReadFails \/ RefuseOrganization \/ LoadOrganization
  \/ LoadAssets \/ Allocate \/ AllocationFails \/ RunRules

Next == Pipeline \/ ValidateAgain \/ Edit

Spec == Init /\ [][Next]_vars

-----------------------------------------------------------------------------
(* Every variable keeps its shape; the city holds only what was read, in   *)
(* folder order, and of a new loader an asset only in a folder it has read. *)
TypeOK ==
  /\ DOMAIN config = Dirs /\ \A d \in Dirs : config[d] \in Contents(d)
  /\ asset_dirs \in [Dirs -> SUBSET SvcId]
  /\ edits \in 0 .. MaxEdits
  /\ strict \in StrictModes
  /\ runs \in 1 .. MaxRuns
  /\ prior \in {"none", "ok", "refused", "raised"}
  /\ pc \in {"find", "read", "assets", "check", "done", "raised"}
  /\ found \in Seq(Dirs) /\ IsInjective(found)
  /\ pos \in 1 .. Len(found) + 1
  /\ DOMAIN read = {found[i] : i \in 1 .. IF pc = "assets" THEN pos ELSE pos - 1}
  /\ city \in CityNetwork(STRING, NetworkName, STRING)
  /\ OrgIds(city) \subseteq DOMAIN read
  /\ runs = 1 => assets \subseteq (DOMAIN read) \X SvcId
  /\ ok \in BOOLEAN

Accepted == pc = "done" /\ ok

(* The whole is the parts, one after the other: part i is what lies        *)
(* between two cuts.                                                       *)
Concatenates(whole, parts) ==
  \E cut \in [0 .. Len(parts) -> 0 .. Len(whole)] :
    /\ cut[0] = 0 /\ cut[Len(parts)] = Len(whole)
    /\ \A i \in 1 .. Len(parts) :
         /\ cut[i] = cut[i - 1] + Len(parts[i])
         /\ \A j \in 1 .. Len(parts[i]) : whole[cut[i - 1] + j] = parts[i][j]

(* Nothing declared is lost.  When a model is accepted, every config.yml   *)
(* the loader found was read whole and the city is exactly what those      *)
(* files declare, in order: an organization, service or link that the      *)
(* loader drops always leaves an error behind (_load_one_org), also when   *)
(* the files are edited between two reads.                                 *)
Declared(d) == read[d].form = "mapping" /\ read[d].id = d /\ read[d].valid

NothingDropped ==
  Accepted =>
    /\ \A i \in DOMAIN found : Declared(found[i])
    /\ city.organizations = [i \in DOMAIN found |-> OrgOf(found[i], read[found[i]])]
    /\ Concatenates(city.services,
         [i \in DOMAIN found |-> WithOrg(found[i], read[found[i]].services)])
    /\ Concatenates(city.links, [i \in DOMAIN found |-> read[found[i]].links])

(* Every lookup of the renderer succeeds for an accepted model: it indexes *)
(* the plan without a default (network_index, cidr, bind_ip), while the    *)
(* allocator silently skips a service it cannot place.                     *)
RenderLookupsDefined ==
  Accepted =>
    /\ OrgIds(city) \subseteq DOMAIN plan.org_index
    /\ NetIds(city) \subseteq DOMAIN plan.net_cidr
    /\ \A i \in DOMAIN city.services :
         /\ city.services[i].org_id \in DOMAIN plan.org_index
         /\ city.services[i].id \in DOMAIN plan.svc_ip

(* In an accepted model an address tells where its service stands: under   *)
(* its organization's index, and in the octets of its exposure, public in  *)
(* front, intranet and OT behind, management apart.  The rules speak of    *)
(* network kinds and the allocator of pools; this is where they must       *)
(* agree.  No two services share an address.                               *)
ZoneOf(exposure) ==
  CASE exposure = "public" -> 0 .. BackFirst - 1
    [] exposure \in {"intranet", "ot"} -> BackFirst .. MgmtThird - 1
    [] exposure = "mgmt" -> {MgmtThird}

AddressTellsZone ==
  Accepted =>
    /\ IsInjective([i \in DOMAIN city.services |-> plan.svc_ip[city.services[i].id]])
    /\ \A i \in DOMAIN city.services :
         LET svc == city.services[i]
             ip  == plan.svc_ip[svc.id]
         IN  /\ ip[1] = plan.org_index[svc.org_id]
             /\ ip[2] \in ZoneOf(svc.exposure)

(* The address rules never fire alone: as long as all ids are distinct,    *)
(* the allocator's plan satisfies every one of them, so a user who sees    *)
(* one of those errors has a repeated id to mend, which is reported too.   *)
AddressRulesNeedRepeatedIds ==
  pc = "done" /\ AddressIssues(city, plan) # {} => IdsRule(city) \cap report # {}

(* The honeypot rule looks at one link; what it is for is the path.  From  *)
(* a honeypot of an accepted model no chain of write links leads to a real *)
(* service.                                                                *)
Writes(a, b) ==
  \E i \in DOMAIN city.links :
    /\ city.links[i].from_service = a
    /\ city.links[i].to_service = b
    /\ city.links[i].kind \in WriteKinds

(* The services that chains of write links lead to: the least set that     *)
(* holds the first one and, with a service, all that it writes to.         *)
WrittenFrom(a) ==
  {b \in SvcIds(city) :
     \A T \in SUBSET SvcIds(city) :
       a \in T /\ (\A x \in T, y \in SvcIds(city) : Writes(x, y) => y \in T) => b \in T}

HoneypotsContained ==
  Accepted =>
    \A a \in SvcIds(city) :
      IsHoneypot(city, a) => \A b \in WrittenFrom(a) : IsHoneypot(city, b)

(* What goes into engine.zip as the assets of a service is the folder of a *)
(* service that the accepted city has, declared in that same organization  *)
(* folder.  A loader that is used once more keeps what it noted before     *)
(* (NetworkLoader.__init__), so then only if nobody has edited anything.   *)
AssetsMatchServices ==
  Accepted /\ (runs = 1 \/ edits = 0) =>
    \A a \in assets :
      \E i \in DOMAIN read[a[1]].services :
        /\ read[a[1]].services[i] # Invalid
        /\ read[a[1]].services[i].id = a[2]
        /\ a[2] \in SvcIds(city)

(* A loader that is used once more gives the same verdict about the same   *)
(* files, although it still has the issues and the assets of the last      *)
(* load (NetworkLoader.__init__, load).                                    *)
SameVerdictAgain ==
  runs > 1 /\ pc \in {"done", "raised"} /\ edits = 0 => Outcome = prior

(* docs/specs/city_model.md: `check` reports all violations.  A run that   *)
(* an AllocationError ends, after every file was read, reports nothing but *)
(* the error, so the loader should not have found anything else by then.   *)
AllViolationsReported ==
  pc = "raised" /\ found # <<>> /\ pos > Len(found) => issues = {}

=============================================================================
