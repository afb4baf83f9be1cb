------------------------------ MODULE Allocator ------------------------------
(***************************************************************************)
(* Allocator.allocate, loop by loop: the shuffled organization indices,    *)
(* then for every organization a third octet for each of its networks and  *)
(* a host address for each of its services, each organization's dicts      *)
(* merged into the result before the next one is started.                  *)
(***************************************************************************)
EXTENDS AddressPlan

CONSTANTS
  OrgId, NetId, SvcId,    \* identifiers
  Cities                  \* the cities the loader may assemble

(* The loader takes an organization only under its folder's name, so no    *)
(* city it assembles has two organizations with one id.                    *)
ASSUME CitiesAssumption ==
  \A c \in Cities : /\ c \in CityNetwork(OrgId, NetId, SvcId)
                    /\ DistinctIds(c.organizations)

VARIABLES
  city,         \* self._network
  pc,           \* where the run is
  org_index,    \* allocate: organization id -> index
  net_cidr,     \* allocate: network id -> CIDR
  svc_ip,       \* allocate: service id -> address
  o,            \* allocate: the organization being processed
  n,            \* _allocate_org: the next network
  front,        \* _allocate_org: the next octet of front_pool
  back,         \* _allocate_org: the next octet of back_pool
  mgmt_used,    \* _allocate_org
  org_nets,     \* _allocate_org: net_cidr of the organization
  s,            \* _allocate_svc_ips: the next service
  next_host,    \* _allocate_svc_ips: network id -> the next free host
  org_ips       \* _allocate_svc_ips: svc_ip of the organization

result == <<org_index, net_cidr, svc_ip>>
local  == <<n, front, back, mgmt_used, org_nets, s, next_host, org_ips>>
vars   == <<city, pc, result, o, local>>

Orgs     == city.organizations
Org      == Orgs[o]
Networks == Org.networks
Services == city.services
Index    == org_index[Org.id]

Init ==
  /\ city \in Cities
  /\ pc = "indices"
  /\ org_index = EmptyDict /\ net_cidr = EmptyDict /\ svc_ip = EmptyDict
  /\ o = 1 /\ n = 1 /\ s = 1
  /\ front = 0 /\ back = BackFirst /\ mgmt_used = FALSE
  /\ org_nets = EmptyDict /\ next_host = EmptyDict /\ org_ips = EmptyDict

-----------------------------------------------------------------------------
(* _allocate_org_indices                                                   *)

AssignIndices ==
  /\ pc = "indices"
  /\ Len(Orgs) <= MaxIndex
  /\ \E indices \in Shuffles(Len(Orgs)) : org_index' = OrgIndex(city, indices)
  /\ pc' = "org"
  /\ UNCHANGED <<city, net_cidr, svc_ip, o, local>>

TooManyOrganizations ==
  /\ pc = "indices"
  /\ Len(Orgs) > MaxIndex
  /\ pc' = "failed"
  /\ UNCHANGED <<city, result, o, local>>

(* Mutant: the pools are made once and not for each organization.          *)
StartOrganizationKeepsPools ==
  /\ pc = "org"
  /\ o <= Len(Orgs)
  /\ pc' = "nets"
  /\ n' = 1
  /\ org_nets' = EmptyDict
  /\ UNCHANGED <<city, result, o, front, back, mgmt_used, s, next_host, org_ips>>

(* The loop over the organizations: fresh pools and dicts for each.        *)
StartOrganization ==
  /\ pc = "org"
  /\ o <= Len(Orgs)
  /\ pc' = "nets"
  /\ n' = 1
  /\ front' = 0 /\ back' = BackFirst /\ mgmt_used' = FALSE
  /\ org_nets' = EmptyDict
  /\ UNCHANGED <<city, result, o, s, next_host, org_ips>>

Return ==
  /\ pc = "org"
  /\ o > Len(Orgs)
  /\ pc' = "done"
  /\ UNCHANGED <<city, result, o, local>>

-----------------------------------------------------------------------------
(* _next_cidr                                                              *)

NextNetwork(kinds) ==
  /\ pc = "nets"
  /\ n <= Len(Networks)
  /\ Networks[n].kind \in kinds

TakeThird(third) ==
  /\ org_nets' = Assigned(org_nets, Networks[n].id, <<Index, third>>)
  /\ n' = n + 1
  /\ UNCHANGED <<city, pc, result, o, s, next_host, org_ips>>

TakeFront ==
  /\ NextNetwork(FrontKinds)
  /\ front < BackFirst
  /\ front' = front + 1
  /\ TakeThird(front)
  /\ UNCHANGED <<back, mgmt_used>>

TakeBack ==
  /\ NextNetwork(BackKinds)
  /\ back < MgmtThird
  /\ back' = back + 1
  /\ TakeThird(back)
  /\ UNCHANGED <<front, mgmt_used>>

(* Mutant: a second management network is not refused.                     *)
TakeMgmtAgain ==
  /\ NextNetwork(MgmtKinds)
  /\ mgmt_used' = TRUE
  /\ TakeThird(MgmtThird)
  /\ UNCHANGED <<front, back>>

TakeMgmt ==
  /\ NextNetwork(MgmtKinds)
  /\ ~ mgmt_used
  /\ mgmt_used' = TRUE
  /\ TakeThird(MgmtThird)
  /\ UNCHANGED <<front, back>>

(* An empty pool, or a second management network.                          *)
NoSubnetLeft ==
  /\ \/ NextNetwork(FrontKinds) /\ front >= BackFirst
     \/ NextNetwork(BackKinds) /\ back >= MgmtThird
     \/ NextNetwork(MgmtKinds) /\ mgmt_used
  /\ pc' = "failed"
  /\ UNCHANGED <<city, result, o, local>>

-----------------------------------------------------------------------------
(* _allocate_svc_ips                                                       *)

StartServices ==
  /\ pc = "nets"
  /\ n > Len(Networks)
  /\ pc' = "svcs"
  /\ s' = 1
  /\ next_host' = [id \in DOMAIN org_nets |-> FirstHost]
  /\ org_ips' = EmptyDict
  /\ UNCHANGED <<city, result, o, n, front, back, mgmt_used, org_nets>>

AtService == pc = "svcs" /\ s <= Len(Services)

(* Mutant: the services of other organizations are not passed over.        *)
AddressedAnyOrg(svc) == svc.network_id \in DOMAIN org_nets

Addressed(svc) == svc.org_id = Org.id /\ svc.network_id \in DOMAIN org_nets

SkipService ==
  /\ AtService
  /\ ~ Addressed(Services[s])
  /\ s' = s + 1
  /\ UNCHANGED <<city, pc, result, o, n, front, back, mgmt_used, org_nets,
                 next_host, org_ips>>

(* Mutant: the broadcast address is handed out.                            *)
BindServicePastEnd ==
  /\ AtService
  /\ Addressed(Services[s])
  /\ LET svc  == Services[s]
         host == next_host[svc.network_id]
     IN  /\ org_ips' = Assigned(org_ips, svc.id,
                                <<Index, org_nets[svc.network_id][2], host>>)
         /\ next_host' = [next_host EXCEPT ![svc.network_id] = host + 1]
  /\ s' = s + 1
  /\ UNCHANGED <<city, pc, result, o, n, front, back, mgmt_used, org_nets>>

BindService ==
  /\ AtService
  /\ Addressed(Services[s])
  /\ LET svc  == Services[s]
         host == next_host[svc.network_id]
     IN  /\ host <= LastHost
         /\ org_ips' = Assigned(org_ips, svc.id,
                                <<Index, org_nets[svc.network_id][2], host>>)
         /\ next_host' = [next_host EXCEPT ![svc.network_id] = host + 1]
  /\ s' = s + 1
  /\ UNCHANGED <<city, pc, result, o, n, front, back, mgmt_used, org_nets>>

NoHostLeft ==
  /\ AtService
  /\ Addressed(Services[s])
  /\ next_host[Services[s].network_id] > LastHost
  /\ pc' = "failed"
  /\ UNCHANGED <<city, result, o, local>>

(* net_cidr.update(org_nets); svc_ip.update(org_ips)                       *)
MergeOrganization ==
  /\ pc = "svcs"
  /\ s > Len(Services)
  /\ net_cidr' = Updated(net_cidr, org_nets)
  /\ svc_ip' = Updated(svc_ip, org_ips)
  /\ o' = o + 1
  /\ pc' = "org"
  /\ UNCHANGED <<city, org_index, local>>

-----------------------------------------------------------------------------
Next ==
  \/ AssignIndices \/ TooManyOrganizations
  \/ StartOrganization \/ Return
  \/ TakeFront \/ TakeBack \/ TakeMgmt \/ NoSubnetLeft
  \/ StartServices \/ SkipService \/ BindService \/ NoHostLeft
  \/ MergeOrganization

(* A sequential call: it keeps stepping until it returns or raises.        *)
Spec == Init /\ [][Next]_vars /\ WF_vars(Next)

-----------------------------------------------------------------------------
(* Every variable keeps the shape the code gives it; in particular every   *)
(* index, octet and host is one the text "10.x.y.z" may hold.              *)
Dict(d, Keys, Values) == DOMAIN d \subseteq Keys /\ d \in [DOMAIN d -> Values]

TypeOK ==
  /\ city \in Cities
  /\ pc \in {"indices", "org", "nets", "svcs", "done", "failed"}
  /\ Dict(org_index, OrgId, 1 .. MaxIndex)
  /\ Dict(net_cidr, NetId, Cidr)
  /\ Dict(svc_ip, SvcId, Address)
  /\ o \in 1 .. Len(Orgs) + 1
  /\ n \in Nat \ {0}
  /\ s \in 1 .. Len(Services) + 1
  /\ front \in 0 .. BackFirst
  /\ back \in BackFirst .. MgmtThird
  /\ mgmt_used \in BOOLEAN
  /\ Dict(org_nets, NetId, Cidr)
  /\ Dict(next_host, NetId, FirstHost .. LastHost + 1)
  /\ Dict(org_ips, SvcId, Address)

(* Address uniqueness.  Whatever ids the files repeat, no two networks are *)
(* ever given one CIDR and no two services one address: an index belongs   *)
(* to one organization, an octet to one network of it, a host to one       *)
(* service of its subnet (_next_cidr, _allocate_svc_ips, the dict merges   *)
(* of allocate).                                                           *)
UniqueAddresses == IsInjective(net_cidr) /\ IsInjective(svc_ip)

(* An address in the result lies in the CIDR of the network its service    *)
(* names, and that network is listed by the service's own organization,    *)
(* once the network and service ids are distinct.  With repeated ids the   *)
(* merged dicts may disagree, which is what rule `ids` is for.             *)
AddressInOwnNetwork ==
  pc = "done" /\ DistinctNetIds(city) /\ DistinctIds(Services) =>
    \A i \in DOMAIN Services :
      LET svc == Services[i]
      IN  svc.id \in DOMAIN svc_ip =>
            /\ svc.network_id \in DOMAIN net_cidr
            /\ net_cidr[svc.network_id] =
                 <<svc_ip[svc.id][1], svc_ip[svc.id][2]>>
            /\ svc.org_id \in DOMAIN org_index
            /\ net_cidr[svc.network_id][1] = org_index[svc.org_id]

(* What the caller has got so far.                                         *)
Outcome ==
  CASE pc = "done" -> [status |-> "done",
                       plan |-> [org_index |-> org_index, net_cidr |-> net_cidr,
                                 svc_ip |-> svc_ip]]
    [] pc = "failed" -> [status |-> "failed"]
    [] OTHER -> [status |-> "pending"]

(* The caller sees one step: a plan of the city, or an AllocationError     *)
(* exactly when the city is over a limit, and always one of the two.  This *)
(* compares the loops with the closed form of AddressPlan.                 *)
Abstract == INSTANCE AllocationSpec WITH outcome <- Outcome

ImplementsAllocationSpec == Abstract!Spec

-----------------------------------------------------------------------------
(* Why addresses are unique: the inductive invariant of AllocatorProofs.   *)

InLoop == pc \in {"org", "nets", "svcs"}

(* The indices are assigned, one each, before the loop; the loop's         *)
(* position is an organization of the city while one is being processed.   *)
ControlInv ==
  /\ pc = "indices" => DOMAIN net_cidr = {} /\ DOMAIN svc_ip = {}
  /\ InLoop => DOMAIN org_index = OrgIds(city) /\ IsInjective(org_index)
  /\ pc \in {"nets", "svcs"} => o <= Len(Orgs)
  /\ pc = "svcs" => DOMAIN next_host = DOMAIN org_nets

(* The octets the current organization's networks hold were taken from the *)
(* pools already.                                                          *)
Taken ==
  {t \in Third : \/ t < front
                 \/ BackFirst <= t /\ t < back
                 \/ t = MgmtThird /\ mgmt_used}

OwnNetsInv ==
  pc \in {"nets", "svcs"} =>
    /\ IsInjective(org_nets)
    /\ \A id \in DOMAIN org_nets :
         org_nets[id][1] = Index /\ org_nets[id][2] \in Taken

(* The hosts its services hold are below the next free one of a subnet.    *)
OwnServicesInv ==
  pc = "svcs" =>
    /\ IsInjective(org_ips)
    /\ \A id \in DOMAIN org_ips :
         \E net \in DOMAIN org_nets :
           /\ org_ips[id][1] = Index
           /\ org_ips[id][2] = org_nets[net][2]
           /\ org_ips[id][3] < next_host[net]

(* What is merged belongs to the indices of organizations already done.    *)
OfEarlier(x) == \E p \in 1 .. o - 1 : x[1] = org_index[Orgs[p].id]

MergedInv ==
  InLoop => /\ \A id \in DOMAIN net_cidr : OfEarlier(net_cidr[id])
            /\ \A id \in DOMAIN svc_ip : OfEarlier(svc_ip[id])

IInv ==
  /\ TypeOK /\ ControlInv /\ OwnNetsInv /\ OwnServicesInv /\ MergedInv
  /\ UniqueAddresses

-----------------------------------------------------------------------------
(* Why an address lies in its service's network: with distinct ids no      *)
(* entry is ever overwritten, and every entry is one of an organization    *)
(* that was processed.                                                     *)

NetsOfEarlier ==
  \A id \in DOMAIN net_cidr :
    \E p \in 1 .. o - 1 : id \in Ids(Orgs[p].networks)

NetsOfOrg ==
  pc \in {"nets", "svcs"} => DOMAIN org_nets \subseteq Ids(Networks)

ServicesOfOrg ==
  pc = "svcs" =>
    \A i \in DOMAIN Services :
      LET svc == Services[i]
      IN  svc.id \in DOMAIN org_ips =>
            /\ Addressed(svc)
            /\ org_nets[svc.network_id] =
                 <<org_ips[svc.id][1], org_ips[svc.id][2]>>

ServicesOfCity ==
  \A i \in DOMAIN Services :
    LET svc == Services[i]
    IN  svc.id \in DOMAIN svc_ip =>
          /\ svc.network_id \in DOMAIN net_cidr
          /\ net_cidr[svc.network_id] =
               <<svc_ip[svc.id][1], svc_ip[svc.id][2]>>
          /\ svc.org_id \in DOMAIN org_index
          /\ net_cidr[svc.network_id][1] = org_index[svc.org_id]

PlacesInv ==
  DistinctNetIds(city) /\ DistinctIds(Services) =>
    /\ InLoop => NetsOfEarlier /\ NetsOfOrg /\ ServicesOfOrg
    /\ InLoop \/ pc = "done" => ServicesOfCity

=============================================================================
