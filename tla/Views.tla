-------------------------------- MODULE Views --------------------------------
(***************************************************************************)
(* What `build` tells other programs about an accepted city                *)
(* (data/renderer.py, data/zip.py): the graph of topology.json and         *)
(* network.html, the tables of engine.json, attack-surface.json,           *)
(* inventory.md and network.md, as functions of the city, its plan and the *)
(* asset folders, on top of the pipeline that decides which cities these   *)
(* are.                                                                    *)
(*                                                                         *)
(* Entries are listed in the order of the city; the sorting is left out,   *)
(* and so are the fields that are copied and compared with nothing.        *)
(***************************************************************************)
EXTENDS Validate

(* Allocation.network_index, cidr and bind_ip: lookups without a default.  *)
NetworkIndex(p, org_id) == p.org_index[org_id]
CidrOf(p, net_id)       == p.net_cidr[net_id]
BindIp(p, svc_id)       == p.svc_ip[svc_id]

-----------------------------------------------------------------------------
(* topology.json, which network.html embeds.                               *)

Nodes(c, p) ==
  [i \in DOMAIN c.services |->
     LET s == c.services[i]
     IN  [id |-> s.id, org_id |-> s.org_id, network_id |-> s.network_id,
          network_index |-> NetworkIndex(p, s.org_id), bind_ip |-> BindIp(p, s.id),
          exposure |-> s.exposure, is_honeypot |-> s.honeypot]]

Edges(c) ==
  [j \in DOMAIN c.links |->
     [from |-> c.links[j].from_service, to |-> c.links[j].to_service,
      kind |-> c.links[j].kind]]

-----------------------------------------------------------------------------
(* runtime/engine.json.                                                    *)

CanReach(c, id) ==
  {c.links[j].to_service : j \in {i \in DOMAIN c.links : c.links[i].from_service = id}}

(* Mutant: both dicts are filled under the same end of the link.           *)
ReachableFromSameEnd(c, id) ==
  {c.links[j].to_service : j \in {i \in DOMAIN c.links : c.links[i].from_service = id}}

ReachableFrom(c, id) ==
  {c.links[j].from_service : j \in {i \in DOMAIN c.links : c.links[i].to_service = id}}

RuntimeService(c, p, s) ==
  [id |-> s.id, org_id |-> s.org_id, ip |-> BindIp(p, s.id),
   network_id |-> s.network_id, exposure |-> s.exposure, honeypot |-> s.honeypot,
   can_reach |-> CanReach(c, s.id), reachable_from |-> ReachableFrom(c, s.id)]

ServiceLookup(c, p) ==
  [id \in SvcIds(c) |-> RuntimeService(c, p, c.services[LastWithId(c.services, id)])]

OrgLookup(c, p) ==
  [id \in OrgIds(c) |->
     LET networks == c.organizations[LastWithId(c.organizations, id)].networks
     IN  [network_index |-> NetworkIndex(p, id),
          networks |-> [n \in DOMAIN networks |->
                          [id |-> networks[n].id, cidr |-> CidrOf(p, networks[n].id)]]]]

-----------------------------------------------------------------------------
(* attack-surface.json, inventory.md and the archive.                      *)

(* Mutant: decoys are kept out of the attack surface.                      *)
IsPublicAndReal(node) == node.exposure = "public" /\ ~ node.is_honeypot

IsPublic(node) == node.exposure = "public"

AttackSurface(c, p) ==
  Selected(Nodes(c, p), {i \in DOMAIN Nodes(c, p) : IsPublic(Nodes(c, p)[i])})

(* One row per asset folder, and the place of its files in engine.zip.     *)
Inventory(found_assets) == {[org |-> a[1], service |-> a[2]] : a \in found_assets}

ArchivePath(asset) == <<"assets", "services", asset[1], asset[2]>>

-----------------------------------------------------------------------------
(* The tables of network.md.                                               *)

(* Mutant: decoys are not counted.                                         *)
ServicesInForReal(c, net_id) ==
  Cardinality({i \in DOMAIN c.services :
                 c.services[i].network_id = net_id /\ ~ c.services[i].honeypot})

ServicesIn(c, net_id) ==
  Cardinality({i \in DOMAIN c.services : c.services[i].network_id = net_id})

NetworkTable(c, p) ==
  [place \in NetPlaces(c) |->
     LET net == NetAt(c, place)
     IN  [org |-> c.organizations[place[1]].id, network |-> net.id,
          cidr |-> CidrOf(p, net.id), services |-> ServicesIn(c, net.id)]]

OrganizationTable(c) ==
  [o \in DOMAIN c.organizations |->
     [id |-> c.organizations[o].id,
      networks |-> Len(c.organizations[o].networks),
      services |-> Cardinality({i \in DOMAIN c.services :
                                  c.services[i].org_id = c.organizations[o].id})]]

(* svc_to_org.get(service, "?")                                            *)
OrgOfService(c, id) ==
  IF id \in SvcIds(c) THEN c.services[LastWithId(c.services, id)].org_id ELSE "?"

LinkTable(c) ==
  [j \in DOMAIN c.links |->
     [from_org |-> OrgOfService(c, c.links[j].from_service),
      from_service |-> c.links[j].from_service,
      to_org |-> OrgOfService(c, c.links[j].to_service),
      to_service |-> c.links[j].to_service]]

(* The counts at the head of network.md, in topology.json and in the       *)
(* manifest of engine.zip.                                                 *)
Total(c) ==
  [organizations |-> Len(c.organizations),
   networks |-> FoldFunction(LAMBDA o, n : n + Len(o.networks), 0, c.organizations),
   services |-> Len(c.services),
   links    |-> Len(c.links)]

-----------------------------------------------------------------------------
(* The viewer can draw the graph, and network.md names the links' owners:  *)
(* each end of an edge is the id of exactly one node (d3.forceLink throws  *)
(* at an unknown one), and its row shows that node's organization, which   *)
(* engine.json has too.                                                    *)
EdgesJoinNodes ==
  Accepted =>
    LET nodes == Nodes(city, plan)
        At(id) == {i \in DOMAIN nodes : nodes[i].id = id}
        Is(id, org) == /\ Cardinality(At(id)) = 1
                       /\ \A i \in At(id) : nodes[i].org_id = org
                       /\ org \in DOMAIN OrgLookup(city, plan)
    IN  \A j \in DOMAIN Edges(city) :
          LET row == LinkTable(city)[j]
          IN  /\ Is(Edges(city)[j].from, row.from_org)
              /\ Is(Edges(city)[j].to, row.to_org)

(* The two adjacency lists of engine.json tell one story: whom a service   *)
(* can reach says that it is reachable from there, and both are services   *)
(* that the engine can look up, none of which has hidden another.          *)
ReachabilityIsDual ==
  Accepted =>
    LET lookup == ServiceLookup(city, plan)
    IN  /\ Cardinality(DOMAIN lookup) = Len(city.services)
        /\ \A s \in DOMAIN lookup :
             /\ lookup[s].can_reach \cup lookup[s].reachable_from \subseteq DOMAIN lookup \ {s}
             /\ \A t \in DOMAIN lookup :
                  t \in lookup[s].can_reach <=> s \in lookup[t].reachable_from

(* attack-surface.json lists exactly what has an address in a front        *)
(* subnet: nothing public stands behind, and nothing that stands in front  *)
(* is missing.  The renderer looks at the exposure, the allocator at the   *)
(* kind of the network.                                                    *)
SurfaceIsFront ==
  Accepted =>
    Range(AttackSurface(city, plan)) =
      {node \in Range(Nodes(city, plan)) : node.bind_ip[2] < BackFirst}

(* The tables of network.md account for every service: those of an         *)
(* organization's networks make up those of the organization, and these    *)
(* the total that manifest.json and topology.json give.                    *)
ServicesCountedOnce ==
  Accepted =>
    LET nets == NetworkTable(city, plan)
        orgs == OrganizationTable(city)
        InNetworks(o) == FoldFunctionOnSet(+, 0, [x \in DOMAIN nets |-> nets[x].services],
                                           {x \in DOMAIN nets : nets[x].org = orgs[o].id})
        Sum(F(_)) == FoldFunction(+, 0, [o \in DOMAIN orgs |-> F(o)])
        ServicesOfRow(o) == orgs[o].services
        NetworksOfRow(o) == orgs[o].networks
    IN  /\ \A o \in DOMAIN orgs : InNetworks(o) = orgs[o].services
        /\ Sum(ServicesOfRow) = Total(city).services
        /\ Sum(NetworksOfRow) = Total(city).networks
        /\ Cardinality(NetPlaces(city)) = Total(city).networks

(* Whoever follows engine.json to the files of a service finds them in the *)
(* archive: its organization and its id make up their path, as long as no  *)
(* config.yml names an org_id itself (docs/ORGANIZATIONS.md).  A loader    *)
(* that is used again lists the assets of before, so then only if nobody   *)
(* has edited anything.                                                    *)
LoaderSetsOrgIds ==
  \A d \in DOMAIN read : read[d].form = "mapping" =>
    \A i \in DOMAIN read[d].services :
      IsValid(read[d].services[i]) => read[d].services[i].org_id = Unset

AssetsAreFound ==
  Accepted /\ LoaderSetsOrgIds /\ (runs = 1 \/ edits = 0) =>
    LET lookup == ServiceLookup(city, plan)
    IN  /\ \A a \in assets :
             /\ a[2] \in DOMAIN lookup
             /\ ArchivePath(a) = ArchivePath(<<lookup[a[2]].org_id, a[2]>>)
        /\ Cardinality({row.service : row \in Inventory(assets)}) = Cardinality(assets)

=============================================================================
