# Verification of cybercity-data

`cybercity-data` is a command-line tool that turns a declarative model of a
city (one `organizations/<id>/config.yml` per organization) into a set of
artifacts. This directory holds TLA+ models of its core, the TLC
configurations that check them on small instances, and TLAPS proofs about
them. Paths below are relative to
`src/cybercity_data/city_model/adapters/inbound/` unless they start with
`docs/`.

## 1. Inventory

| Component | State it keeps | Operations | Correct means |
|---|---|---|---|
| City model, `domain/models.py` | organizations with networks, services, links | schema validation | – |
| Allocator, `domain/allocator.py` | pools, cursors and dicts of one run | `allocate` | unique addresses, within range, in the service's own network; refuses exactly the cities over a limit |
| Checker, `domain/checker.py` | none | twelve rules | an accepted city is usable: names resolve, addresses tell the zone, honeypots are contained |
| Loader, `data/loader.py` | issues, asset list | `find_org_dirs`, `load` | nothing is dropped without an error |
| Validation step, `use_cases/validate_step.py` | – | `execute` | ok means no error (and no warning with `--strict`); every violation is reported |
| Build, `services/build.py`, `use_cases/build.py` | – | validate, render, write | nothing of a refused model is written; ok means complete |
| Output directory, `data/filesystem.py`, `data/zip.py` | files, `engine.zip` | clean, write, bundle | a build repairs what an earlier one broke |
| Asset archive, `data/zip.py` | `engine.zip` | `bundle` | holds the asset files, tells the same as `inventory.md` |
| Renderer, `data/renderer.py` | – | views of the city, diff with HEAD | its lookups succeed, its views agree, its diff is exact |
| Git gateway, `data/git.py` | – | three queries on HEAD | what the city is compared with is named |
| Check, `services/check.py`, `use_cases/check.py` | – | run the validation step | a checked model can be built |
| Init, `services/init.py`, `use_cases/init.py` | the new folder | `init` | never overwrites, leaves nothing half-made |
| Controllers and responses, `controllers/` | – | run a command, print, exit | exit code 0 means that all is well, a refusal is explained |
| DTOs, `dto/` | – | – | – |
| Viewer, deployment scripts, city data | – | – | – |

How they interact: `check` and `build` call the validation step, which calls
the loader, the allocator and the checker in this order and returns the city,
the plan and the verdict. `build` hands the city and the plan to the renderer,
which also asks git for the last build, and writes the texts. All calls are
synchronous, in one process. What is shared lies on disk: the files under
`organizations/`, which people edit while the tool runs and which `init` adds
to, and the output directory, which outlives every build, also those that are
killed.

What is hard to get right, and to test:

- dicts in which a later entry overwrites an earlier one, when ids repeat;
- pools and subnets at their limits (255 organizations, 128 + 125 + 1 subnets
  each, 245 hosts), which no test reaches with real sizes;
- agreements between modules that nobody states: what the renderer looks up
  and what the rules guarantee, the allocator's pools and the checker's table
  of exposures;
- partial failure: the loader drops what it cannot use and goes on, an
  exception takes earlier findings with it;
- files edited between two reads;
- builds killed inside a write, and what the next build makes of the rest;
- two inits at once, and inits next to people who make the folder by hand;
- commits and checkouts between three git processes that are thought to see
  one HEAD;
- views of one city that are built one by one and must agree.

`PROJECT.json` lists each of these hazards at its line, with the properties
that cover it.

## 2. Plan

Order of work, the most important behaviour first:

1. *Done.* The allocator: `CityModel`, `AddressPlan`, `AllocationSpec`,
   `Allocator`, proofs in `AllocatorProofs`.
2. *Done.* The rules and the pipeline: `Checker`, `Validate`, proofs in
   `PlanProofs` and `ValidateProofs`.
3. *Done.* The output directory: `BuildOutput`, proofs in `BuildOutputProofs`.
4. *Done.* `InitOrg`: `init` of several processes with crashes and changes by
   hand, proofs in `InitOrgProofs`.
5. *Done.* `Validate` again: two loads with one loader.
6. *Done.* `Changes`: the diff of two cities, and HEAD moving between three
   queries, proofs in `ChangesProofs`.
7. *Done.* `Views`: what the artifacts say of an accepted city, proofs in
   `ValidateProofs`.
8. *Done.* `Cli`: exceptions, responses and exit codes around the pipeline,
   proofs in `CliProofs`.
9. *Done.* `AssetBundle`: assets that change between the inventory and the
   archive, proofs in `AssetBundleProofs`.
10. *Done.* Proofs about the operators of `CityModel`, `AddressPlan` and
    `Checker` (`PlanProofs`), and from them about the pipeline, its views and
    the command line; that `Allocator` implements the safety part of
    `AllocationSpec`.
11. *Done.* Sums over the parts of a set (`PlanProofs`), and with them that
    the tables of the views add up; that allocation, build and bundling take a
    bounded number of steps.
12. Left to TLC: that these steps are taken, which is liveness (section 6).

## 3. Modules and code

| Module | Models | State and actions |
|---|---|---|
| `CityModel` | `domain/models.py` | the records, and the list and dict operations the other modules use |
| `AddressPlan` | `domain/allocator.py`, as a function | `Plan(city, indices)`: the `Allocation` in closed form; `Fits(city)`: no limit is exceeded |
| `AllocationSpec` | what a caller of `allocate` may rely on | `Allocate` and `Refuse`, one step each |
| `Allocator` | `Allocator.allocate`, loop by loop | `o`, `n`, `s` are the positions of its three loops; `front`, `back`, `mgmt_used` the pools; one action per branch of `_next_cidr` and `_allocate_svc_ips` |
| `Checker` | `domain/checker.py` | one operator per rule: the set of issues it reports |
| `Validate` | `data/loader.py`, `use_cases/validate_step.py` | `config`, `asset_dirs` are the disk; `found`, `pos`, `city`, `issues`, `assets` the loader; `Edit` is the person at the editor |
| `BuildOutput` | `services/build.py`, `data/filesystem.py`, `data/zip.py` | `files` is the output directory; one action per step of `run`, `clean_directory`, `write_artifacts` and `bundle`; `Interrupted` is a kill or an I/O error |
| `InitOrg` | `services/init.py`, `use_cases/init.py`, `data/filesystem.py` | `root`, `folder` are `organizations/`; each process has a `pc` and one action per file operation of `run` (test, second test of the use case, mkdir, open, write); `Edit`, `Remove`, `ToggleRoot` are people, `Interrupted` a kill or an I/O error |
| `Changes` | `_build_changes` and `_diff_networks` of `data/renderer.py`, `data/git.py` | `commits`, `head` are the repository, `model` the city on disk; one action per git process, which may fail; `Commit`, `Checkout`, `Edit` fall in between; `Diff` is `_diff_networks` |
| `Views` | the other views of `data/renderer.py`, the totals of `data/zip.py` | no state of its own: operators on the city, the plan and the assets of `Validate` |
| `Cli` | `controllers/`, `services/check.py`, `use_cases/check.py` | `Invoke` makes a loader and starts the pipeline of `Validate`, `Response` turns its result or exception into a response, `Present` prints and exits |
| `AssetBundle` | `_load_service_assets`, `_build_inventory`, `bundle` | `dirs`, `tree` are the asset folders; one action per folder found, per entry that a walk (the count, the listing) comes to, per entry looked at and per file added; `Edit` is anybody, at any time |
| `AllocatorMC`, `ValidateMC`, `BuildOutputMC`, `InitOrgMC`, `ChangesMC`, `ViewsMC`, `CliMC`, `AssetBundleMC` | – | the small instances |
| `PlanProofs` | – | theorems about the operators of `CityModel`, `AddressPlan` and `Checker`, for every city; the modules below extend it |
| `AllocatorProofs`, `ValidateProofs`, `CliProofs` | – | theorems about `Allocator`, about `Validate` and `Views`, and about `Cli` |
| `BuildOutputProofs`, `InitOrgProofs`, `ChangesProofs`, `AssetBundleProofs` | – | theorems about their components |

`Validate` composes `Checker` with `AddressPlan`, so the pipeline runs with
the closed form of the plan; that the loops compute it is what run `allocator`
checks and theorem `LoopsImplementPlan` proves. `Views` and `Cli` extend `Validate`: the cities whose views are looked
at are those the whole pipeline has accepted, and a command runs that pipeline
step by step, with edits in between. `BuildOutput` takes the verdict of
`Validate` as a function of the model, `Cli` takes the rendering and writing of
`BuildOutput` as a step that succeeds or raises.

What is abstracted:

- Identifiers are opaque. A CIDR `10.i.t.0/24` is `<<i, t>>`, an address
  `10.i.t.h` is `<<i, t, h>>`, so `ip in network` compares the first two
  parts and two networks overlap when they are equal. The shuffle of
  `random.Random(seed)` is any injection of the organizations into the
  indices.
- The sizes 255, 128, 253, 10 and 256 are constants (`MaxIndex`, `BackFirst`,
  `MgmtThird`, `FirstHost`, `TotalHosts`), which the proofs leave open.
- What a `config.yml` holds is one of five forms: absent, unreadable (the
  exception escapes), malformed (L001), or a mapping whose organization part
  and items the schema accepts or not. Issues are a code and a place.
- A text is the model it was rendered from and, where the artifact contains
  `generated_at`, the build. Two builds never render at the same instant. A
  file holds a whole text, a beginning that can be decoded, or one that ends
  inside a character.
- The target is a directory or does not exist; entries of it are files.
- In `InitOrg` a `config.yml` is somebody's work, just truncated, a whole
  template, or a template with the end of a longer one behind it, which is what
  two writers leave. Nobody edits or removes a folder by hand in the moment in
  which an `init` holds its `config.yml` open (`Untouchable`).
- In `Changes` a city is, for each of the three categories, the list of its
  items, and an item is its key and the rest of its dump. The date and the id
  of a commit are its number. A git process fails for any reason or none;
  what the code does then is the same (`None`).
- In `AssetBundle` what a file holds is left out, and so is the order in which
  folders and files are taken; the code sorts them. A walk (`iterdir`, `rglob`)
  comes once to each entry that there may be (`Places`), in any order, and finds
  it if it is there at that moment. That an entry is seen in a listing and asked
  for `is_file` a little later is covered by the one moment: it passes both if
  it is there at both, and fails one where it is absent.
- In `Validate` the folders under `organizations/` are found in one step, and
  so are the asset folders of one organization (`FindOrgDirs`, `LoadAssets`);
  edits fall before and after such a listing. For asset folders `AssetBundle`
  takes the listing apart.
- In `Cli` the lines printed are a set of what they tell, as text or as JSON.

## 4. Runs

| Run | Checks | Bounds |
|---|---|---|
| `allocator` | `TypeOK`, `UniqueAddresses`, `AddressInOwnNetwork`, and that `Allocator` implements `AllocationSpec` (safety and termination) | 2 indices, 2 front and 2 back subnets, 2 hosts per subnet; up to 3 organizations, 4 networks and 4 services, so every limit is met exactly and exceeded; cities with repeated network and service ids, services of other and unknown organizations and networks |
| `validate_rules` | `TypeOK`, `RenderLookupsDefined`, `AddressTellsZone`, `AddressRulesNeedRepeatedIds`, `HoneypotsContained`, and of the views `ServicesCountedOnce`, `EdgesJoinNodes`, `ReachabilityIsDual`, `SurfaceIsFront`, `AssetsAreFound` | two folders; 4 x 12 x 6 files for one, times 6 states of the other: every rule and every loader error alone and with others; and, so that views of accepted cities are many, two organizations with every choice of up to two links out of eighteen; both values of `--strict` |
| `validate_edits` | `NothingDropped`, `AssetsMatchServices`, `SameVerdictAgain` | two loads by one loader (`MaxRuns`) and two edits (`MaxEdits`), which may fall between any two steps and between the loads, over 6 x 4 file states, each error of the loader among them, and 4 sets of asset folders each |
| `build_output` | `TypeOK`, `CompleteWhenOk`, `OnlyAcceptedModels`, `CleanBuildRecovers`, `GoodOutputKept`, `EveryBuildEnds` | three builds (`MaxBuilds`), two changes of the model (`MaxEdits`), two artifacts, one of them with a time; four models. Two builds make a bad directory, the third meets it; the writes of a third artifact repeat those of the second |
| `cli` | `CliTypeOK`, `ZeroMeansAllIsWell`, `RefusalIsExplained`, `CheckForetellsBuild` | two commands (`MaxCommands`: a `check` and a `build`, in either order, or twice the same), one edit; files with no fault, a warning, an error of each source, no room for their addresses, or no text |
| `init_org` | `TypeOK`, `HalfMadeHasACause`, `OkLeavesTemplate`, `WorkIsKept` | two processes, two ids, a long and a short template, three inits (`MaxStarts`), two changes by hand (`MaxTouches`): two inits race while the third finds what they left |
| `changes` | `TypeOK`, `RefNamesCompared`, `DiffIsExact`, `CountsAddUp` | two builds (`MaxBuilds`), two commits or checkouts (`MaxMoves`, enough for one in each gap between the three queries); four cities and one written by hand with repeated ids; histories with no commit, none with the file, a foreign file, two commits |
| `asset_bundle` | `TypeOK`, `KeptFilesAreBundled`, `InventoryMatchesArchive`, `MembersWereThere`, `BundlingEnds` | two services; two files and a folder in the one's asset folder and a file in the other's (`Places`) come and go without bound, also in the middle of each walk, so one file can go and another come within one count. The invariants are proved for any services and entries, as long as there are finitely many |
| `validate_report` | `AllViolationsReported`, violated | as `validate_rules` |
| `build_torn` | `BuildFollowsCheck`, violated | two builds |
| `build_clean` | `CleanBeforeRender`, violated | two builds |
| `init_race` | `OnlyNewDirectories`, violated | two processes, one id, two inits |

`CHECK_DEADLOCK FALSE` in all of them: a command ends, and the number of
builds, inits and commands is bounded.

The four violated runs are disagreements of the code with its documents:

- `docs/specs/city_model.md:11` promises that `check` reports all violations.
  An `AllocationError` discards what the loader has found
  (`use_cases/validate_step.py:28`).
- `docs/specs/city_model.md:12` promises the artifacts after a successful
  check. `data/filesystem.py:55` decodes the old artifact in order to compare
  it; one that a killed build cut inside a character makes every later build
  fail until somebody passes `--clean`. `CleanBuildRecovers` shows that
  `--clean` is always enough.
- `docs/ARCHITECTURE.md:189` says that `--clean` removes the output directory
  before rendering. `services/build.py:99` cleans it after rendering, and only
  if the check passes; `GoodOutputKept` shows the better side of it, a refused
  build never costs the last good output.
- `services/init.py:38` says that `init` raises if the directory exists. Two
  inits that pass the test together both return ok
  (`services/init.py:45`, `exist_ok=True`). `OkLeavesTemplate` and `WorkIsKept`
  show what holds nevertheless: without such a race, ok is lasting and nobody's
  work is overwritten.

Four more disagreements came up while modelling. No run is spent on them, they
can be read off the code at the line named:

- `docs/specs/city_model.md:12` says that builds are reproducible; the time of
  the build, in `inventory.md`, `changes.json`, `network.md` and the manifest of
  `engine.zip`, makes them differ (`data/renderer.py:346`).
- `docs/ARCHITECTURE.md:206` says that every asset folder matches a declared
  service. `NetworkLoader` never clears `service_assets`
  (`data/loader.py:54`), so a second load after an edit accepts a city with the
  folder of a service that is gone; `AssetsMatchServices` excludes this case. No
  command of the package loads twice; `cli` runs a new loader per command, as
  they do.
- `data/loader.py:37` says that assets live below the organization of their
  service. `setdefault` (`data/loader.py:174`) keeps an `org_id` that
  `config.yml` names, which `docs/ORGANIZATIONS.md:125` forbids and no rule
  refuses; `AssetsAreFound` shows that without one, who follows `engine.json`
  to the files of a service finds them in the archive.
- `docs/ARCHITECTURE.md:216` calls `changes.json` the diff with the previous
  build. It is the diff with `HEAD:build/network.json` (`data/git.py:16`),
  whatever was built since; `RefNamesCompared` and `DiffIsExact` show that the
  comparison is exact and what the commit it names may be worth if `HEAD` moves
  or git fails meanwhile.

### Fairness

`Allocator` has `WF_vars(Next)`: it is a sequential call without waiting.
`BuildOutput` has `WF_vars(Step)`, the steps of a running build, again because
nothing in them waits; starting a build, editing and interruptions are not
fair, nobody has to do them. `AssetBundle` has `WF_vars(Step)`, the steps of
the one build; edits are not fair and not bounded, so `BundlingEnds` says that
nobody can keep the build from ending by editing on. The other modules state no
liveness property and no fairness.

## 5. Proofs

All theorems hold for every value of the constants that satisfies the named
assumptions: `PlanAssumption` (the pools are ordered and the first host is
within a subnet), `ValidateAssumption` and `ConfigsAssumption` (the folders
are listed once and have names, what is read of a `config.yml` is of one of the
forms of section 3), `CliAssumption` (a command makes a new loader, so it loads
once: `dependencies.py`), `InitAssumption` (templates have a length),
`ChangesAssumption` (the values of a category are finite lists, and no city
means "no file"), `AssetBundleAssumption` (a file is not a folder, and there are finitely many
services and entries),
`CitiesAssumption` (lists have the fields of
`domain/models.py`, and organization ids are distinct, because an id is the
name of its folder: `data/loader.py:154`) and `BuildOutputAssumption` (the
artifacts are distinct and none is called `engine.zip`). No city, pool, list of
artifacts, number of builds, processes, commits, asset files, commands or edits
is bounded in them.

`PlanProofs`

- `AddressRulesHold`: the plan of a city that fits and has distinct ids breaks
  none of the five rules about addresses. The octets of one organization differ
  because each is a count of earlier networks of its pool (`ThirdsDiffer`), the
  hosts of one subnet because each counts the services `Ahead` (`HostsDiffer`);
  that the pools stay apart is `ThirdInPool`.
- `DrawDoesNotMatter`: the rules report the same issues of any two plans of a
  city, whatever ids it repeats. Two shuffles differ by a renaming of indices
  (`SameDraws`), and the plans made with them have the same keys, the same
  octets and hosts, and equal indices at the same places (`Alike`), which is
  all that a rule looks at (one lemma per rule).

- `SumOfParts`: a sum of the sizes of disjoint parts is the size of what they
  make up. A fold over a set is the value, at the whole set, of a function that
  recurs over its subsets; the size of what some of the parts make up is such a
  function, and there is only one (`SizeByParts`). `PlacesByOrganization` gives
  the parts that `Total` adds up, the networks of each organization.

All three need facts that are usually shown by induction, and the prover cannot
instantiate the induction theorems of the library, which have an operator as a
parameter. The last place at which a condition holds and the k-th of the
selected places are taken from the cardinality of sets of places, by way of a
first counterexample (`FirstPlace`, `LastPlace`, `PlaceOfRank`). That two
functions on the subsets of a finite set agree everywhere follows from a
smallest subset at which they do not (`AgreeByParts`); there is one because
strict inclusion is well-founded (`WFMin`).

`ValidateProofs`

- `PipelineInvariant`: `IInv` is `TypeOK` and four parts. `Reading`: what is
  kept of a file, as it was read, is in the city. `Whole`: as long as no issue
  is an error, the city is all that the files read so far declare. `Noted`: an
  asset folder is of a service that the file of its organization declares, as
  it was read by a new loader and, if nobody has edited, as it is. `Computed`:
  after the loader, plan and report are those of the city. None of the
  properties is inductive, because each speaks of accepted models only, at the
  end.
- From it, of every accepted model: `AllIsLoaded` and `AssetsBelong` (from
  `Whole` and `Noted`), `LookupsDefined`, `AddressesTellZones`, `HoneypotsHold`
  (the honeypots are closed under write links, so the least closed set that
  holds one of them has no others) and `AddressErrorsHaveACause` (from `Computed` and `PlanProofs`); and
  of its views `GraphIsWhole`, `AdjacencyIsDual`, `SurfaceIsWhatIsInFront`
  (`PoolOfExposure` is where the rules' kinds meet the allocator's pools) and
  `AssetsAreWhereSaid`.
- `TablesAddUp`, that `ServicesCountedOnce` holds of every accepted model, also
  comes from `PipelineInvariant`: both tables add up parts (`SumOfParts`), the
  services by network and by organization. These parts share nothing because
  ids are distinct, and make up all services because each names a network that
  exists in the organization it names (`EveryServiceStands`); the totals are a
  fold of their own over the organizations (`NetworksOfTotal`).
- `VerdictIsRepeated`: `Steady` says that, while nobody edits, what the loader
  holds is what the files make of it, and that what it found before is part of
  what it will find. `Ends` names the outcomes the files admit; by
  `DrawDoesNotMatter` there is only one (`OneEnd`), which `Repeating` carries
  over to the second load.

`CliProofs`

- `ZeroIsWell`, `RefusalsAreExplained` and `SessionTypes` from
  `SessionInvariant`: once a command has ended, the pipeline stands still, so
  what is on the screen agrees with its final state (`Commanded`, `Shown`).
- `CheckTellsBuild`: `Foretelling` says of each logged command that it ended as
  the files it began with make a validation end (`Logged`, by `Steady` and
  `OneEnd` again), as long as nobody has edited since; two commands on the same
  files agree because that end is the same.

`AllocatorProofs`

- `TypeCorrect`: `Spec => []TypeOK`. Every octet handed out is within its pool.
- `AddressesUnique`: `Spec => []UniqueAddresses`. It is not inductive: the
  dicts of one organization are merged into those of the city, so two
  organizations must not produce the same address. `IInv` adds that what an
  organization holds has its own index and an octet its pools have passed
  (`OwnNetsInv`, `Taken`), that a host is below the next free one of its subnet
  (`OwnServicesInv`), and that what is merged has the index of an organization
  already done (`MergedInv`), which by injectivity of the shuffle
  (`OrgIndexInjective`, `ControlInv`) is not the current one. Repeated network
  and service ids are allowed throughout: overwriting an entry of an injective
  dict by a fresh value keeps it injective (`AssignedInjective`).
- `Invariant`: `Spec => []IInv`.
- `AddressesInNetworks`: `Spec => []AddressInOwnNetwork`. `PlacesInv` says, for
  cities with distinct network and service ids, that `org_nets` and `net_cidr`
  have only ids of the current and of earlier organizations (`NetsOfOrg`,
  `NetsOfEarlier`). The two are then disjoint (`DistinctOwners`), so a merge
  overwrites nothing and what was right of one organization (`ServicesOfOrg`)
  stays right in the city (`ServicesOfCity`).
- `LoopsImplementPlan`: `Spec => Abstract!SafeSpec`, the refinement without its
  liveness. `Progress` says of each loop what it has done so far: the pools are
  where counting the earlier networks puts them (`NetsDone`), the next host of
  a subnet is behind those of the earlier services (`ServicesDone`), the dicts
  are those of the closed form cut off at the cursor (`CidrsOfFirst`,
  `AddressesOfFirst`, `MergeOfFirst`; each has a lemma for its start, its step
  and its end). So `Return` is the step `Allocate` (`ReturnedPlan`), each
  exception the step `Refuse` (`RefusedDoesNotFit`), every other step a
  stutter, for cities with repeated ids too.
- `AllocationRunsDown`: every step lowers the natural number `StepsLeft`, which
  is 0 when and only when the call has returned or raised. It counts what the
  loops have before them: the organizations, and of the current one the octets
  its pools still have and the services not yet looked at. So the pools bound
  the loop over the networks, however many a `config.yml` lists.

`BuildOutputProofs`

- `OkMeansComplete`, `GoodOutputSafe`, `NothingRefused`, `CleanRecovers` and
  `TypeCorrect`, all from `Invariant`. `IInv` adds to the properties that a
  build past the check works on an accepted model and on the texts rendered
  from it (`ControlInv`), that all artifacts before the cursor are whole
  (`WrittenInv`: what turns the last step of the loop into completeness), and
  that cleaning has every entry still pending and so leaves nothing that
  cannot be decoded (`CleanInv`).
- `BuildsRunDown`: while a build runs, every step lowers `StepsLeft` (two for
  each artifact to be written, one for each entry to be removed), except that
  an edit of the city model leaves it as it is; it is 0 when and only when no
  build runs.

`InitOrgProofs`

- `NothingHalfMade`, `OkIsLasting`, `TypeCorrect` from `Invariant`, and
  `WorkIsSafe`, an action property, from `Invariant` and the actions. That the
  template of an ok `init` stays whole is not inductive: it has to be known
  that nobody else is at the folder when it is written. `Private` says that an
  `init` past its test of an id that is not `contested` has the folder as it
  left it, and while it writes is alone past the test; `OpenIsThere` says that
  the folder of an open `config.yml` is not removed, so the write cannot revive
  one. `contested` is the history that names the race `init_race` shows; all
  else is proved without exception, for any number of processes. The lemmas
  `PassInv` and `QuietInv` stand for the actions that only move on or only end,
  `PeopleInv` for those by hand.

`ChangesProofs`

- `ExactDiff`: the entries turn the compared city into the built one
  (`DiffTurns`), and without any one of them they do not (`DiffIsMinimal`).
  Both rest on what the list of entries has of one category and one kind of
  change (`ListedOfDiff`, `ListedWithout`), because an id may occur in several
  categories. Repeated ids in either city are allowed: `ItemMap` is a function
  whatever the list is.
- `SummaryAddsUp`: a list without repeated keys has as many items as keys
  (`KeysCounted`), and two sets differ in size by what the differences have
  (`Balance`).
- `RefIsRight` and `TypeCorrect`, from `Invariant`. `AnswersInv` says that the
  city to compare with is that of the commit `HEAD` was at (`seen`), and that
  what the other queries have answered is of commits `HEAD` has been at since
  (`heads`), or `None` if they have failed (`failed`); `ReportInv` that
  `changes.json` is the diff of that city and the one being built.

`AssetBundleProofs`

- `InventoryIsRight`, `KeptAreBundled`, `MembersRight` and `TypeCorrect`, from
  `Invariant`. `HistoryInv` ties the histories to the disk. `CountsInv` says of
  each file that the walk has `Passed`, unless it has `changed` since the count
  of its folder began, that it is `counted` if and only if it is there; of one
  the walk has yet to come to, that it is not counted. `ArchiveInv` says how
  the state of the archive goes with the place of the walk. `FolderInv` says the
  same as `CountsInv` of what is in the archive or on the way to it
  (`ToBundle`: the members, the rest of the listing and the file in hand), and
  that files that were there all the time are among it. When the archive
  closes, both count and members are compared with one and the same disk, so
  they differ by `changed` files only.
- `BundlingRunsDown`: every step lowers `StepsLeft` (the folders left, and of
  the current one the entries ahead and the listing), except that an edit
  leaves it as it is: each folder is walked twice, and a walk comes to no entry
  twice.

TLC finds all these inductive invariants to hold in the runs' instances: `IInv`
and `PlacesInv` of the components, `Progress` of the instance of `allocator`,
`StepsLeft` of the instances of `allocator`, `build_output` and `asset_bundle`,
those of `ValidateProofs` of the instances of `validate_rules` and
`validate_edits`, and those of `CliProofs` of the instance of `cli` (where an
invariant says that some function exists, as `Assembled` does, TLC was given
the function).

Two properties were repaired while they were proved. `AssetsAreFound` left out
that a loader used again lists the assets of before, and is now, like
`AssetsMatchServices`, about a first load or files nobody has edited.
`ZeroMeansAllIsWell` compared the warnings under `--strict` with something they
never equal, and now says that there are none.

## 6. Only model-checked

Every invariant and action property of a run that passes is a theorem. What is
left is liveness: `EveryBuildEnds`, `BundlingEnds` and the termination in
`ImplementsAllocationSpec`. `BuildsRunDown`, `BundlingRunsDown` and
`AllocationRunsDown` prove that none of the three can go on for ever, because
their steps run out. That a next step is always there and is taken rests on
fairness, so on `ENABLED`, which TLAPS does not reason about.

## 7. Not modelled

- Of the renderer: fields that are copied, sorting, the layout of the Markdown
  and HTML, the list of services in `network.md`, which repeats fields, and
  `build_artifacts`, which nothing calls.
- Rule `software`: the schema has applied its pattern before; the branches of
  the rules for a city without a plan, which the pipeline never takes.
- Of the controllers: how Typer registers commands and refuses arguments.
- Two builds at once into one target. Neither the code nor a document means
  anything to hold of their common output, and the two writers of `engine.zip`
  break whatever one could claim; two `init` at once, of which
  `services/init.py` does claim something, are modelled.
- A target that is a file, contains symbolic links, or (`--out .`) is the
  repository itself, which `--clean` then empties.
- The viewer, deployment scripts, CI, the city data: no state of the program.
- The broker publisher: announced in `docs/specs/build.md`, no code exists.
