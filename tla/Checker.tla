------------------------------- MODULE Checker -------------------------------
(***************************************************************************)
(* The cross-field rules of domain/checker.py: each is the set of issues   *)
(* it reports about a city and its address plan.  An issue is a pair of a  *)
(* code and the place it points at; every rule reports errors.  The rules  *)
(* that look an address up skip the keys the plan lacks, as dict.get does. *)
(*                                                                         *)
(* Left out: rule `software`, whose pattern the schema has already applied *)
(* to every service the loader keeps, and the check without an allocation, *)
(* which the pipeline never makes.                                         *)
(***************************************************************************)
EXTENDS CityModel

Issues(code, places) == {code} \X places

-----------------------------------------------------------------------------
(* The two places that name the same thing.                                *)
Repeated(items) ==
  {items[i].id : i \in {j \in DOMAIN items :
                          \E k \in DOMAIN items : k # j /\ items[k].id = items[j].id}}

(* Mutant: repeated network ids are not reported.                          *)
IdsRuleWithoutNetworks(city) ==
  Issues("ids", {"organizations"} \X Repeated(city.organizations))
  \cup Issues("ids", {"services"} \X Repeated(city.services))

IdsRule(city) ==
  LET places == NetPlaces(city)
      nets   == {NetAt(city, p).id : p \in
                   {q \in places : \E r \in places :
                      r # q /\ NetAt(city, r).id = NetAt(city, q).id}}
      links  == {city.links[i] : i \in
                   {j \in DOMAIN city.links : \E k \in DOMAIN city.links :
                      k # j /\ city.links[k] = city.links[j]}}
  IN  Issues("ids", {"organizations"} \X Repeated(city.organizations))
      \cup Issues("ids", {"networks"} \X nets)
      \cup Issues("ids", {"services"} \X Repeated(city.services))
      \cup Issues("ids", {"links"} \X links)

NetworkIndexRule(city, plan) ==
  LET orgs == city.organizations
      Idx(i) == plan.org_index[orgs[i].id]
  IN  Issues("network-index",
        {i \in DOMAIN orgs : \E j \in 1 .. i - 1 : Idx(j) = Idx(i)})

(* Mutant: the target of a link is not looked up.                          *)
RefsRuleFromOnly(city) ==
  LET svcs == DOMAIN city.services
      links == DOMAIN city.links
  IN  Issues("refs", {"services"} \X
        {i \in svcs : city.services[i].org_id \notin OrgIds(city)})
      \cup Issues("refs", {"from"} \X
        {i \in links : city.links[i].from_service \notin SvcIds(city)})

RefsRule(city) ==
  LET svcs == DOMAIN city.services
      links == DOMAIN city.links
  IN  Issues("refs", {"services"} \X
        {i \in svcs : city.services[i].org_id \notin OrgIds(city)})
      \cup Issues("refs", {"from"} \X
        {i \in links : city.links[i].from_service \notin SvcIds(city)})
      \cup Issues("refs", {"to"} \X
        {i \in links : city.links[i].to_service \notin SvcIds(city)})

(* The networks an organization lists; none for an unknown organization.   *)
AllowedNets(city, org_id) ==
  IF org_id \in OrgIds(city)
  THEN LET orgs == city.organizations
       IN  Ids(orgs[LastWithId(orgs, org_id)].networks)
  ELSE {}

(* Mutant: a service without a network is passed over.                     *)
NetworkBelongsRuleSkipsNone(city) ==
  Issues("network-belongs",
    {i \in DOMAIN city.services :
       /\ city.services[i].network_id # NoNetwork
       /\ city.services[i].network_id
            \notin AllowedNets(city, city.services[i].org_id)})

(* A service without a network uses NoNetwork, which no organization lists.*)
NetworkBelongsRule(city) ==
  Issues("network-belongs",
    {i \in DOMAIN city.services :
       city.services[i].network_id
         \notin AllowedNets(city, city.services[i].org_id)})

(* The services whose network is in the city.                              *)
Placed(city) ==
  {i \in DOMAIN city.services : city.services[i].network_id \in NetIds(city)}

IpInNetworkRule(city, plan) ==
  Issues("ip-in-network",
    {i \in Placed(city) :
       LET svc == city.services[i]
       IN  /\ svc.id \in DOMAIN plan.svc_ip
           /\ svc.network_id \in DOMAIN plan.net_cidr
           /\ LET ip == plan.svc_ip[svc.id]
              IN  <<ip[1], ip[2]>> # plan.net_cidr[svc.network_id]})

IpUniqueRule(city, plan) ==
  LET Holds(i) == /\ city.services[i].network_id # NoNetwork
                  /\ city.services[i].id \in DOMAIN plan.svc_ip
      Ip(i) == plan.svc_ip[city.services[i].id]
  IN  Issues("ip-unique",
        {i \in DOMAIN city.services :
           Holds(i) /\ \E j \in 1 .. i - 1 :
             /\ Holds(j)
             /\ city.services[j].network_id = city.services[i].network_id
             /\ Ip(j) = Ip(i)})

(* Two /24 networks overlap when they are one network.                     *)
NetworkOverlapRule(city, plan) ==
  LET places == {p \in NetPlaces(city) : NetAt(city, p).id \in DOMAIN plan.net_cidr}
      CidrAt(p) == plan.net_cidr[NetAt(city, p).id]
  IN  Issues("network-overlap",
        {pq \in places \X places :
           /\ pq[1] # pq[2]
           /\ NotBefore(pq[2], pq[1])
           /\ CidrAt(pq[1]) = CidrAt(pq[2])})

(* The prefix "10.<network_index>." ends in a dot: it compares the index.  *)
IpSchemeRule(city, plan) ==
  Issues("ip-scheme",
    {p \in NetPlaces(city) :
       LET id == NetAt(city, p).id
       IN  /\ id \in DOMAIN plan.net_cidr
           /\ plan.net_cidr[id][1]
                # plan.org_index[city.organizations[p[1]].id]})

(* Mutant: intranet services may stand in the DMZ.                         *)
AllowedKindsIntranetDmz ==
  [exposure \in Exposure |->
     CASE exposure = "public"   -> {"dmz", "internet"}
       [] exposure = "intranet" -> {"lan", "dmz"}
       [] exposure = "ot"       -> {"ot"}
       [] exposure = "mgmt"     -> {"mgmt"}]

AllowedKinds ==
  [exposure \in Exposure |->
     CASE exposure = "public"   -> {"dmz", "internet"}
       [] exposure = "intranet" -> {"lan"}
       [] exposure = "ot"       -> {"ot"}
       [] exposure = "mgmt"     -> {"mgmt"}]

ExposureNetworkRule(city) ==
  Issues("exposure-network",
    {i \in Placed(city) :
       LET svc == city.services[i]
       IN  NetById(city, svc.network_id).kind \notin AllowedKinds[svc.exposure]})

SelfLoopRule(city) ==
  Issues("self-loop",
    {i \in DOMAIN city.links :
       city.links[i].from_service = city.links[i].to_service})

-----------------------------------------------------------------------------
WriteKinds == {"db-write", "backup-of"}

(* {s.id: s.honeypot is not None for s in services}[id]                    *)
IsHoneypot(city, id) ==
  city.services[LastWithId(city.services, id)].honeypot

(* Mutant: only db-write counts as a write.                                *)
HoneypotRuleDbWriteOnly(city) ==
  Issues("honeypot-write-real",
    {j \in DOMAIN city.links :
       LET link == city.links[j]
       IN  /\ {link.from_service, link.to_service} \subseteq SvcIds(city)
           /\ IsHoneypot(city, link.from_service)
           /\ link.kind = "db-write"
           /\ ~ IsHoneypot(city, link.to_service)})

HoneypotRule(city) ==
  Issues("honeypot-criticality",
    {i \in DOMAIN city.services :
       /\ city.services[i].honeypot
       /\ city.services[i].criticality = "critical"})
  \cup
  Issues("honeypot-write-real",
    {j \in DOMAIN city.links :
       LET link == city.links[j]
       IN  /\ {link.from_service, link.to_service} \subseteq SvcIds(city)
           /\ IsHoneypot(city, link.from_service)
           /\ link.kind \in WriteKinds
           /\ ~ IsHoneypot(city, link.to_service)})

(* The rules about the address plan, and NetworkChecker.check.             *)
AddressIssues(city, plan) ==
  NetworkIndexRule(city, plan) \cup IpInNetworkRule(city, plan)
    \cup IpUniqueRule(city, plan) \cup NetworkOverlapRule(city, plan)
    \cup IpSchemeRule(city, plan)

Check(city, plan) ==
  IdsRule(city) \cup RefsRule(city) \cup NetworkBelongsRule(city)
    \cup AddressIssues(city, plan)
    \cup ExposureNetworkRule(city) \cup SelfLoopRule(city)
    \cup HoneypotRule(city)

=============================================================================
