--------------------------- MODULE AllocatorProofs ---------------------------
(***************************************************************************)
(* Proofs about Allocator for every value of its constants: every variable *)
(* keeps its type, no two networks share a CIDR and no two services an     *)
(* address, every address lies in the network its service names, and the   *)
(* loops compute what AllocationSpec promises in one step, and come to an  *)
(* end.                                                                    *)
(***************************************************************************)
EXTENDS Allocator, PlanProofs

-----------------------------------------------------------------------------
(* Python dicts.                                                           *)

(* d[k] = v keeps a dict's key and value types.                            *)
LEMMA AssignedDict ==
  ASSUME NEW K, NEW V, NEW d, Dict(d, K, V), NEW k \in K, NEW v \in V
  PROVE  Dict(Assigned(d, k, v), K, V)
BY DEF Dict, Assigned

(* d.update(e) keeps a dict's key and value types.                         *)
LEMMA UpdatedDict ==
  ASSUME NEW K, NEW V, NEW d, Dict(d, K, V), NEW e, Dict(e, K, V)
  PROVE  Dict(Updated(d, e), K, V)
BY DEF Dict, Updated

(* d[k] = v keeps values distinct when no key holds v yet.                 *)
LEMMA AssignedInjective ==
  ASSUME NEW d, IsInjective(d), NEW k, NEW v, \A x \in DOMAIN d : d[x] # v
  PROVE  IsInjective(Assigned(d, k, v))
BY DEF IsInjective, Assigned

(* d.update(e) keeps values distinct when the two dicts share none.        *)
LEMMA UpdatedInjective ==
  ASSUME NEW d, IsInjective(d), NEW e, IsInjective(e),
         \A x \in DOMAIN d, y \in DOMAIN e : d[x] # e[y]
  PROVE  IsInjective(Updated(d, e))
BY DEF IsInjective, Updated

(* The empty dict has every type and no two equal values.                  *)
LEMMA EmptyDictFacts ==
  /\ \A K, V : Dict(EmptyDict, K, V)
  /\ IsInjective(EmptyDict)
  /\ DOMAIN EmptyDict = {}
BY DEF Dict, EmptyDict, IsInjective

-----------------------------------------------------------------------------
(* Cities.                                                                 *)

(* The lists of a city are sequences with the fields the steps read.       *)
LEMMA CityShape ==
  ASSUME NEW c \in Cities
  PROVE  /\ c.organizations \in Seq(Organization(OrgId, NetId))
         /\ c.services \in Seq(Service(OrgId, NetId, SvcId))
         /\ DistinctIds(c.organizations)
         /\ Len(c.organizations) \in Nat
         /\ Len(c.services) \in Nat
         /\ DOMAIN c.organizations = 1 .. Len(c.organizations)
         /\ \A i \in 1 .. Len(c.organizations) :
              /\ c.organizations[i].id \in OrgId
              /\ c.organizations[i].networks \in Seq(Network(NetId))
              /\ Len(c.organizations[i].networks) \in Nat
              /\ \A j \in 1 .. Len(c.organizations[i].networks) :
                   c.organizations[i].networks[j].id \in NetId
         /\ \A i \in 1 .. Len(c.services) : c.services[i].id \in SvcId
<1>1. /\ c \in CityNetwork(OrgId, NetId, SvcId)
      /\ DistinctIds(c.organizations)
  BY CitiesAssumption
<1>2. /\ c.organizations \in Seq(Organization(OrgId, NetId))
      /\ c.services \in Seq(Service(OrgId, NetId, SvcId))
  BY <1>1 DEF CityNetwork
<1>3. ASSUME NEW i \in 1 .. Len(c.organizations)
      PROVE  /\ c.organizations[i].id \in OrgId
             /\ c.organizations[i].networks \in Seq(Network(NetId))
  <2>1. c.organizations[i] \in Organization(OrgId, NetId)
    BY <1>2
  <2> QED
    BY <2>1 DEF Organization
<1>4. ASSUME NEW i \in 1 .. Len(c.organizations),
             NEW j \in 1 .. Len(c.organizations[i].networks)
      PROVE  c.organizations[i].networks[j].id \in NetId
  <2>1. c.organizations[i].networks[j] \in Network(NetId)
    BY <1>3
  <2> QED
    BY <2>1 DEF Network
<1>5. ASSUME NEW i \in 1 .. Len(c.services)
      PROVE  c.services[i].id \in SvcId
  <2>1. c.services[i] \in Service(OrgId, NetId, SvcId)
    BY <1>2
  <2> QED
    BY <2>1 DEF Service
<1> QED
  BY <1>1, <1>2, <1>3, <1>4, <1>5

(* The shuffle gives every organization an index of its own.               *)
LEMMA OrgIndexInjective ==
  ASSUME NEW c \in Cities, NEW indices \in Shuffles(Len(c.organizations))
  PROVE  /\ Dict(OrgIndex(c, indices), OrgId, 1 .. MaxIndex)
         /\ DOMAIN OrgIndex(c, indices) = OrgIds(c)
         /\ IsInjective(OrgIndex(c, indices))
<1> DEFINE orgs == c.organizations
           last(id) == LastWithId(orgs, id)
<1>1. ASSUME NEW id \in OrgIds(c)
      PROVE  last(id) \in DOMAIN orgs /\ orgs[last(id)].id = id
  <2>1. PICK i \in DOMAIN orgs : orgs[i].id = id
    BY DEF OrgIds, Ids
  <2>2. \A j \in DOMAIN orgs : orgs[j].id = id => j = i
    BY <2>1, CityShape DEF DistinctIds
  <2>3. i \in Nat
    BY CityShape
  <2>4. \E l \in DOMAIN orgs :
          orgs[l].id = id /\ \A j \in DOMAIN orgs : orgs[j].id = id => j <= l
    BY <2>1, <2>2, <2>3
  <2> QED
    BY <2>4 DEF LastWithId
<1>2. indices \in [1 .. Len(orgs) -> 1 .. MaxIndex] /\ IsInjective(indices)
  BY DEF Shuffles, Injection
<1>3. \A id \in OrgIds(c) : last(id) \in 1 .. Len(orgs)
  BY <1>1, CityShape
<1>4. OrgIds(c) \subseteq OrgId
  BY CityShape DEF OrgIds, Ids
<1>5. IsInjective(OrgIndex(c, indices))
  <2> SUFFICES ASSUME NEW a \in OrgIds(c), NEW b \in OrgIds(c),
                      indices[last(a)] = indices[last(b)]
               PROVE  a = b
    BY DEF IsInjective, OrgIndex
  <2>1. last(a) = last(b)
    BY <1>2, <1>3 DEF IsInjective
  <2> QED
    BY <2>1, <1>1
<1> QED
  BY <1>2, <1>3, <1>4, <1>5 DEF Dict, OrgIndex
-----------------------------------------------------------------------------
(* The call starts with nothing assigned.                                  *)
LEMMA InitInv == Init => IInv
<1> SUFFICES ASSUME Init PROVE IInv
  OBVIOUS
<1>1. TypeOK
  <2>1. Len(Orgs) \in Nat /\ Len(Services) \in Nat
    BY CityShape DEF Init, Orgs, Services
  <2>2. /\ Dict(org_index, OrgId, 1 .. MaxIndex)
        /\ Dict(net_cidr, NetId, Cidr) /\ Dict(org_nets, NetId, Cidr)
        /\ Dict(svc_ip, SvcId, Address) /\ Dict(org_ips, SvcId, Address)
        /\ Dict(next_host, NetId, FirstHost .. LastHost + 1)
    BY EmptyDictFacts DEF Init
  <2>3. mgmt_used \in BOOLEAN
    BY DEF Init
  <2>4. /\ city \in Cities /\ pc = "indices" /\ o = 1 /\ n = 1 /\ s = 1
        /\ front = 0 /\ back = BackFirst
    BY DEF Init
  <2> QED
    BY <2>1, <2>2, <2>3, <2>4, PlanAssumption DEF TypeOK
<1> QED
  BY <1>1, EmptyDictFacts
  DEF Init, IInv, ControlInv, InLoop, OwnNetsInv, OwnServicesInv, MergedInv,
      UniqueAddresses

(* While an organization is processed its index is assigned.               *)
LEMMA IndexAssigned ==
  ASSUME IInv, pc \in {"nets", "svcs"}
  PROVE  o \in 1 .. Len(Orgs) /\ Index \in 1 .. MaxIndex
<1>1. o \in 1 .. Len(Orgs)
  BY CityShape DEF IInv, TypeOK, ControlInv, Orgs
<1>2. Org.id \in DOMAIN org_index
  BY <1>1, CityShape DEF IInv, TypeOK, ControlInv, InLoop, Orgs, Org, OrgIds, Ids
<1> QED
  BY <1>1, <1>2 DEF IInv, TypeOK, Dict, Index

(* Taking an octet that is not taken yet for the next network.             *)
LEMMA TakeThirdInv ==
  ASSUME IInv, NEW third \in Third, third \notin Taken,
         pc = "nets", n <= Len(Networks), TakeThird(third),
         front' \in 0 .. BackFirst, back' \in BackFirst .. MgmtThird,
         mgmt_used' \in BOOLEAN,
         Taken \subseteq Taken', third \in Taken'
  PROVE  IInv'
<1> USE DEF TakeThird, result
<1>1. Networks[n].id \in NetId /\ n \in Nat \ {0}
  <2>1. city \in Cities /\ o \in 1 .. Len(Orgs) /\ n \in Nat \ {0}
    BY IndexAssigned DEF IInv, TypeOK
  <2>2. Len(Networks) \in Nat
    BY <2>1, CityShape DEF Networks, Org, Orgs
  <2>3. n \in 1 .. Len(Networks)
    BY <2>1, <2>2
  <2> QED
    BY <2>1, <2>3, CityShape DEF Networks, Org, Orgs
<1>2. <<Index, third>> \in Cidr
  BY IndexAssigned DEF Cidr
<1>3. Dict(org_nets', NetId, Cidr)
  BY <1>1, <1>2, AssignedDict DEF IInv, TypeOK
<1>4. TypeOK'
  BY <1>1, <1>3 DEF IInv, TypeOK, Orgs, Services
<1>5. ControlInv'
  BY DEF IInv, ControlInv, InLoop, Orgs
<1>6. OwnNetsInv'
  <2>1. Index' = Index
    BY DEF Index, Org, Orgs
  <2>2. \A id \in DOMAIN org_nets : org_nets[id] # <<Index, third>>
    BY DEF IInv, OwnNetsInv
  <2>3. IsInjective(org_nets')
    BY <2>2, AssignedInjective DEF IInv, OwnNetsInv
  <2>4. \A id \in DOMAIN org_nets' :
          org_nets'[id][1] = Index /\ org_nets'[id][2] \in Taken'
    BY DEF IInv, OwnNetsInv, Assigned
  <2> QED
    BY <2>1, <2>3, <2>4 DEF OwnNetsInv
<1>7. OwnServicesInv' /\ UniqueAddresses'
  BY DEF IInv, OwnServicesInv, UniqueAddresses
<1>8. MergedInv'
  BY DEF IInv, MergedInv, OfEarlier, InLoop, Orgs
<1> QED
  BY <1>4, <1>5, <1>6, <1>7, <1>8 DEF IInv

(* An exception changes nothing but the place of the run.                  *)
LEMMA FailInv ==
  ASSUME IInv, pc' = "failed", UNCHANGED <<city, result, o, local>>
  PROVE  IInv'
BY DEF IInv, TypeOK, ControlInv, InLoop, OwnNetsInv, OwnServicesInv, MergedInv,
       UniqueAddresses, Orgs, Services, result, local

(* Every step keeps the invariant.                                         *)
LEMMA NextInv == IInv /\ [Next]_vars => IInv'
<1> SUFFICES ASSUME IInv, [Next]_vars PROVE IInv'
  OBVIOUS
<1>0. CASE UNCHANGED vars
  BY <1>0 DEF IInv, TypeOK, ControlInv, InLoop, OwnNetsInv, OwnServicesInv,
     MergedInv, OfEarlier, UniqueAddresses, Orgs, Services, Index, Org, Taken,
     vars, result, local
<1>1. CASE AssignIndices
  <2> USE <1>1 DEF AssignIndices, local, Orgs
  <2>1. /\ Dict(org_index', OrgId, 1 .. MaxIndex)
        /\ DOMAIN org_index' = OrgIds(city)
        /\ IsInjective(org_index')
    BY OrgIndexInjective DEF IInv, TypeOK
  <2>2. TypeOK'
    BY <2>1 DEF IInv, TypeOK, Services
  <2>3. MergedInv' /\ UniqueAddresses'
    BY DEF IInv, ControlInv, MergedInv, UniqueAddresses
  <2> QED
    BY <2>1, <2>2, <2>3 DEF IInv, ControlInv, OwnNetsInv, OwnServicesInv
<1>2. CASE TooManyOrganizations
  BY <1>2, FailInv DEF TooManyOrganizations
<1>3. CASE StartOrganization
  <2> USE <1>3 DEF StartOrganization, result, Orgs
  <2>0. Dict(org_nets', NetId, Cidr) /\ mgmt_used' \in BOOLEAN
    BY EmptyDictFacts
  <2>1. TypeOK'
    <3>1. /\ pc' = "nets" /\ n' = 1 /\ front' = 0 /\ back' = BackFirst
          /\ UNCHANGED <<city, result, o, s, next_host, org_ips>>
      OBVIOUS
    <3> HIDE DEF StartOrganization
    <3> QED
      BY <2>0, <3>1, PlanAssumption DEF IInv, TypeOK, Services
  <2>2. ControlInv' /\ MergedInv' /\ UniqueAddresses'
    BY DEF IInv, ControlInv, InLoop, MergedInv, OfEarlier, UniqueAddresses
  <2>3. OwnNetsInv' /\ OwnServicesInv'
    BY EmptyDictFacts DEF OwnNetsInv, OwnServicesInv
  <2> QED
    BY <2>1, <2>2, <2>3 DEF IInv
<1>4. CASE Return
  BY <1>4 DEF Return, IInv, TypeOK, ControlInv, InLoop, OwnNetsInv,
     OwnServicesInv, MergedInv, UniqueAddresses, Orgs, Services, result, local
<1>5. CASE TakeFront
  <2> USE <1>5, PlanAssumption DEF TakeFront
  <2>1. front \in Nat /\ back \in Nat /\ front < BackFirst
    BY DEF IInv, TypeOK
  <2>2. front \in Third /\ front \notin Taken /\ front \in Taken'
    BY <2>1 DEF Third, Taken
  <2>3. Taken \subseteq Taken'
    BY <2>1 DEF Third, Taken
  <2>4. /\ front' \in 0 .. BackFirst
        /\ back' \in BackFirst .. MgmtThird
        /\ mgmt_used' \in BOOLEAN
    BY <2>1 DEF IInv, TypeOK
  <2> QED
    BY <2>2, <2>3, <2>4, TakeThirdInv DEF NextNetwork
<1>6. CASE TakeBack
  <2> USE <1>6, PlanAssumption DEF TakeBack
  <2>1. front \in 0 .. BackFirst /\ back \in BackFirst .. MgmtThird
    BY DEF IInv, TypeOK
  <2>2. back \in Third /\ back \notin Taken /\ back \in Taken'
    BY <2>1 DEF Third, Taken
  <2>3. Taken \subseteq Taken'
    BY <2>1 DEF Third, Taken
  <2>4. /\ front' \in 0 .. BackFirst
        /\ back' \in BackFirst .. MgmtThird
        /\ mgmt_used' \in BOOLEAN
    BY <2>1 DEF IInv, TypeOK
  <2> QED
    BY <2>2, <2>3, <2>4, TakeThirdInv DEF NextNetwork
<1>7. CASE TakeMgmt
  <2> USE <1>7, PlanAssumption DEF TakeMgmt
  <2>1. front \in 0 .. BackFirst /\ back \in BackFirst .. MgmtThird
    BY DEF IInv, TypeOK
  <2>2. MgmtThird \in Third /\ MgmtThird \notin Taken /\ MgmtThird \in Taken'
    BY <2>1 DEF Third, Taken
  <2>3. Taken \subseteq Taken'
    BY <2>1 DEF Third, Taken
  <2>4. /\ front' \in 0 .. BackFirst
        /\ back' \in BackFirst .. MgmtThird
        /\ mgmt_used' \in BOOLEAN
    BY <2>1 DEF IInv, TypeOK
  <2> QED
    BY <2>2, <2>3, <2>4, TakeThirdInv DEF NextNetwork
<1>8. CASE NoSubnetLeft
  BY <1>8, FailInv DEF NoSubnetLeft
<1>9. CASE StartServices
  <2> USE <1>9 DEF StartServices, result, Orgs
  <2>1. Dict(next_host', NetId, FirstHost .. LastHost + 1)
    BY PlanAssumption DEF IInv, TypeOK, Dict, LastHost
  <2>0. Dict(org_ips', SvcId, Address)
    BY EmptyDictFacts
  <2>2. TypeOK'
    BY <2>0, <2>1, CityShape DEF IInv, TypeOK, Services
  <2>3. ControlInv' /\ MergedInv' /\ UniqueAddresses'
    BY DEF IInv, ControlInv, InLoop, MergedInv, OfEarlier, UniqueAddresses
  <2>4. OwnNetsInv'
    BY DEF IInv, OwnNetsInv, Taken, Index, Org
  <2>5. OwnServicesInv'
    BY EmptyDictFacts DEF OwnServicesInv
  <2> QED
    BY <2>2, <2>3, <2>4, <2>5 DEF IInv
<1>10. CASE SkipService
  <2> USE <1>10 DEF SkipService, AtService, result, Orgs
  <2>1. s' \in 1 .. Len(Services) + 1
    BY CityShape DEF IInv, TypeOK, Services
  <2>2. TypeOK'
    BY <2>1 DEF IInv, TypeOK, Services
  <2>3. ControlInv' /\ MergedInv' /\ UniqueAddresses'
    BY DEF IInv, ControlInv, InLoop, MergedInv, OfEarlier, UniqueAddresses
  <2>4. OwnNetsInv' /\ OwnServicesInv'
    BY DEF IInv, OwnNetsInv, OwnServicesInv, Taken, Index, Org
  <2> QED
    BY <2>2, <2>3, <2>4 DEF IInv
<1>11. CASE BindService
  <2> USE <1>11 DEF BindService, AtService, result, Orgs
  <2> DEFINE svc  == Services[s]
             net  == svc.network_id
             host == next_host[net]
             addr == <<Index, org_nets[net][2], host>>
  <2>1. /\ s \in 1 .. Len(Services)
        /\ s' \in 1 .. Len(Services) + 1
        /\ svc.id \in SvcId
    BY CityShape DEF IInv, TypeOK, Services
  <2>2. /\ net \in DOMAIN org_nets
        /\ net \in DOMAIN next_host
        /\ host \in FirstHost .. LastHost
        /\ org_nets[net] \in Cidr
    BY PlanAssumption
    DEF Addressed, IInv, TypeOK, ControlInv, Dict, LastHost
  <2>3. addr \in Address
    BY <2>2, IndexAssigned DEF Cidr, Address
  <2>4. /\ org_ips' = Assigned(org_ips, svc.id, addr)
        /\ next_host' = [next_host EXCEPT ![net] = host + 1]
    OBVIOUS
  <2>5. Dict(org_ips', SvcId, Address)
    BY <2>1, <2>3, <2>4, AssignedDict DEF IInv, TypeOK
  <2>6. Dict(next_host', NetId, FirstHost .. LastHost + 1)
    <3>1. host + 1 \in FirstHost .. LastHost + 1
      BY <2>2, PlanAssumption DEF LastHost
    <3>2. /\ DOMAIN next_host \subseteq NetId
          /\ next_host \in [DOMAIN next_host -> FirstHost .. LastHost + 1]
      BY DEF IInv, TypeOK, Dict
    <3> QED
      BY <2>4, <3>1, <3>2 DEF Dict
  <2>7. TypeOK'
    BY <2>1, <2>5, <2>6 DEF IInv, TypeOK, Services
  <2>8. ControlInv' /\ MergedInv' /\ UniqueAddresses'
    BY <2>4
    DEF IInv, ControlInv, InLoop, MergedInv, OfEarlier, UniqueAddresses
  <2>9. OwnNetsInv'
    BY DEF IInv, OwnNetsInv, Taken, Index, Org
  <2>10. OwnServicesInv'
    <3>1. ASSUME NEW id \in DOMAIN org_ips, org_ips[id] = addr
          PROVE  FALSE
      <4>1. PICK m \in DOMAIN org_nets :
              /\ org_ips[id][2] = org_nets[m][2]
              /\ org_ips[id][3] < next_host[m]
        BY DEF IInv, OwnServicesInv
      <4>2. org_nets[m] \in Cidr /\ org_nets[m][1] = org_nets[net][1]
        BY <2>2 DEF IInv, TypeOK, Dict, OwnNetsInv
      <4>3. org_nets[m] = org_nets[net]
        BY <2>2, <3>1, <4>1, <4>2 DEF Cidr
      <4>4. m = net
        BY <2>2, <4>3 DEF IInv, OwnNetsInv, IsInjective
      <4>5. host \in Int /\ host < host
        BY <2>2, <3>1, <4>1, <4>4
      <4> QED
        BY <4>5
    <3>2. IsInjective(org_ips')
      BY <2>4, <3>1, AssignedInjective DEF IInv, OwnServicesInv
    <3>3. ASSUME NEW id \in DOMAIN org_ips'
          PROVE  \E m \in DOMAIN org_nets' :
                   /\ org_ips'[id][1] = Index'
                   /\ org_ips'[id][2] = org_nets'[m][2]
                   /\ org_ips'[id][3] < next_host'[m]
      <4>0. /\ org_nets' = org_nets /\ Index' = Index
            /\ DOMAIN next_host = DOMAIN org_nets
        BY DEF Index, Org, IInv, ControlInv
      <4>1. CASE id = svc.id
        <5>1. org_ips'[id] = addr
          BY <2>4, <4>1 DEF Assigned
        <5>2. next_host'[net] = host + 1 /\ host \in Int
          BY <2>2, <2>4
        <5> QED
          BY <2>2, <4>0, <5>1, <5>2
      <4>2. CASE id # svc.id
        <5>1. id \in DOMAIN org_ips /\ org_ips'[id] = org_ips[id]
          BY <2>4, <4>2 DEF Assigned
        <5>2. PICK m \in DOMAIN org_nets :
                /\ org_ips[id][1] = Index
                /\ org_ips[id][2] = org_nets[m][2]
                /\ org_ips[id][3] < next_host[m]
          BY <5>1 DEF IInv, OwnServicesInv
        <5>3. org_ips[id][3] \in Int
          BY <5>1, PlanAssumption DEF IInv, TypeOK, Dict, Address, LastHost
        <5>4. org_ips[id][3] < next_host'[m]
          BY <2>2, <2>4, <4>0, <5>2, <5>3
        <5> QED
          BY <4>0, <5>1, <5>2, <5>4
      <4> QED
        BY <4>1, <4>2
    <3> QED
      BY <3>2, <3>3 DEF OwnServicesInv
  <2> QED
    BY <2>7, <2>8, <2>9, <2>10 DEF IInv
<1>12. CASE NoHostLeft
  BY <1>12, FailInv DEF NoHostLeft
<1>13. CASE MergeOrganization
  <2> USE <1>13 DEF MergeOrganization, local, Orgs
  <2>1. o \in 1 .. Len(Orgs) /\ o + 1 \in 1 .. Len(Orgs) + 1
    BY IndexAssigned
  <2>2. TypeOK'
    BY <2>1, UpdatedDict DEF IInv, TypeOK, Services
  <2>3. ControlInv'
    BY DEF IInv, ControlInv, InLoop
  <2>4. OwnNetsInv' /\ OwnServicesInv'
    BY DEF OwnNetsInv, OwnServicesInv
  <2>5. \A id \in DOMAIN org_nets : org_nets[id][1] = Index
    BY DEF IInv, OwnNetsInv
  <2>6. \A id \in DOMAIN org_ips : org_ips[id][1] = Index
    BY DEF IInv, OwnServicesInv
  <2>7. ASSUME NEW x, OfEarlier(x)
        PROVE  x[1] # Index
    <3>1. PICK p \in 1 .. o - 1 : x[1] = org_index[Orgs[p].id]
      BY <2>7 DEF OfEarlier
    <3>2. p \in 1 .. Len(Orgs) /\ p # o
      BY <2>1
    <3>3. Orgs[p].id \in DOMAIN org_index /\ Org.id \in DOMAIN org_index
      BY <2>1, <3>2, CityShape
      DEF IInv, TypeOK, ControlInv, InLoop, OrgIds, Ids, Org
    <3>4. Orgs[p].id # Org.id
      BY <2>1, <3>2, CityShape DEF IInv, TypeOK, DistinctIds, Org
    <3> QED
      BY <3>1, <3>3, <3>4 DEF IInv, ControlInv, InLoop, IsInjective, Index
  <2>8. UniqueAddresses'
    <3>1. \A x \in DOMAIN net_cidr, y \in DOMAIN org_nets :
            net_cidr[x] # org_nets[y]
      BY <2>5, <2>7 DEF IInv, MergedInv, InLoop
    <3>2. \A x \in DOMAIN svc_ip, y \in DOMAIN org_ips : svc_ip[x] # org_ips[y]
      BY <2>6, <2>7 DEF IInv, MergedInv, InLoop
    <3> QED
      BY <3>1, <3>2, UpdatedInjective
      DEF IInv, UniqueAddresses, OwnNetsInv, OwnServicesInv
  <2>9. MergedInv'
    <3>1. ASSUME NEW x, OfEarlier(x) \/ x[1] = Index
          PROVE  \E p \in 1 .. o' - 1 : x[1] = org_index'[Orgs'[p].id]
      <4>1. \E p \in 1 .. o : x[1] = org_index[Orgs[p].id]
        BY <2>1, <3>1 DEF OfEarlier, Index, Org
      <4>2. o' - 1 = o /\ org_index' = org_index
        BY <2>1
      <4> QED
        BY <4>1, <4>2
    <3>2. ASSUME NEW id \in DOMAIN net_cidr'
          PROVE  \E p \in 1 .. o' - 1 :
                   net_cidr'[id][1] = org_index'[Orgs'[p].id]
      BY <2>5, <3>1 DEF IInv, MergedInv, InLoop, Updated
    <3>3. ASSUME NEW id \in DOMAIN svc_ip'
          PROVE  \E p \in 1 .. o' - 1 :
                   svc_ip'[id][1] = org_index'[Orgs'[p].id]
      BY <2>6, <3>1 DEF IInv, MergedInv, InLoop, Updated
    <3> QED
      BY <3>2, <3>3 DEF MergedInv, OfEarlier
  <2> QED
    BY <2>2, <2>3, <2>4, <2>8, <2>9 DEF IInv
<1> QED
  BY <1>0, <1>1, <1>2, <1>3, <1>4, <1>5, <1>6, <1>7, <1>8, <1>9, <1>10, <1>11,
     <1>12, <1>13 DEF Next

-----------------------------------------------------------------------------
(* The invariant holds in every state of every run.                        *)
THEOREM Invariant == Spec => []IInv
BY InitInv, NextInv, PTL DEF Spec

(* Every variable of the allocator keeps its type: in particular an index  *)
(* is in 1 .. MaxIndex, an octet at most MgmtThird and a host address      *)
(* neither below FirstHost nor past the last usable one.                   *)
THEOREM TypeCorrect == Spec => []TypeOK
<1>1. IInv => TypeOK
  BY DEF IInv
<1> QED
  BY <1>1, Invariant, PTL

(* At every moment of every allocation, of any city and under any shuffle, *)
(* no two networks have one CIDR and no two services one address.          *)
THEOREM AddressesUnique == Spec => []UniqueAddresses
<1>1. IInv => UniqueAddresses
  BY DEF IInv
<1> QED
  BY <1>1, Invariant, PTL

-----------------------------------------------------------------------------
(* Addresses lie in the networks the services name.                        *)

(* An id is the id of a network of one organization only, and each service *)
(* has one place in the list, when ids are distinct.                       *)
LEMMA DistinctOwners ==
  ASSUME NEW c \in Cities, DistinctNetIds(c),
         NEW p \in DOMAIN c.organizations, NEW q \in DOMAIN c.organizations,
         NEW id \in Ids(c.organizations[p].networks),
         id \in Ids(c.organizations[q].networks)
  PROVE  p = q
<1>1. PICK i \in DOMAIN c.organizations[p].networks :
        c.organizations[p].networks[i].id = id
  BY DEF Ids
<1>2. PICK j \in DOMAIN c.organizations[q].networks :
        c.organizations[q].networks[j].id = id
  BY DEF Ids
<1>3. <<p, i>> \in NetPlaces(c) /\ <<q, j>> \in NetPlaces(c)
  BY DEF NetPlaces
<1>4. NetAt(c, <<p, i>>).id = NetAt(c, <<q, j>>).id
  BY <1>1, <1>2 DEF NetAt
<1> QED
  BY <1>3, <1>4 DEF DistinctNetIds

(* The allocator does not change the city it was given.                    *)
LEMMA CityFixed == [Next]_vars => city' = city
<1> SUFFICES ASSUME [Next]_vars PROVE city' = city
  OBVIOUS
<1>1. CASE UNCHANGED vars
  BY <1>1 DEF vars
<1>2. CASE AssignIndices \/ TooManyOrganizations \/ StartOrganization \/ Return
  BY <1>2 DEF AssignIndices, TooManyOrganizations, StartOrganization, Return
<1>3. CASE TakeFront \/ TakeBack \/ TakeMgmt \/ NoSubnetLeft
  BY <1>3 DEF TakeFront, TakeBack, TakeMgmt, TakeThird, NoSubnetLeft
<1>4. CASE StartServices \/ SkipService \/ BindService \/ NoHostLeft
  BY <1>4 DEF StartServices, SkipService, BindService, NoHostLeft
<1>5. CASE MergeOrganization
  BY <1>5 DEF MergeOrganization
<1> QED
  BY <1>1, <1>2, <1>3, <1>4, <1>5 DEF Next

(* Every step keeps the addresses in place.                                *)
LEMMA PlacesNext == IInv /\ PlacesInv /\ [Next]_vars => PlacesInv'
<1> SUFFICES ASSUME IInv, PlacesInv, [Next]_vars PROVE PlacesInv'
  OBVIOUS
<1>kept. city' = city
  BY CityFixed
<1> SUFFICES ASSUME DistinctNetIds(city), DistinctIds(Services) PROVE PlacesInv'
  BY <1>kept DEF PlacesInv, Services
<1>0. /\ InLoop => NetsOfEarlier /\ NetsOfOrg /\ ServicesOfOrg
      /\ InLoop \/ pc = "done" => ServicesOfCity
  BY DEF PlacesInv
<1> USE <1>kept DEF result, local
<1>1. CASE UNCHANGED vars
  BY <1>0, <1>1 DEF PlacesInv, InLoop, NetsOfEarlier, NetsOfOrg, ServicesOfOrg,
     ServicesOfCity, Addressed, Networks, Org, Orgs, Services, vars
<1>2. CASE AssignIndices
  <2>1. /\ DOMAIN net_cidr' = {} /\ DOMAIN svc_ip' = {}
        /\ pc' = "org"
    BY <1>2 DEF AssignIndices, IInv, ControlInv
  <2> QED
    BY <2>1 DEF PlacesInv, NetsOfEarlier, NetsOfOrg, ServicesOfOrg, ServicesOfCity
<1>3. CASE TooManyOrganizations \/ NoSubnetLeft \/ NoHostLeft
  BY <1>3 DEF TooManyOrganizations, NoSubnetLeft, NoHostLeft, PlacesInv, InLoop
<1>4. CASE StartOrganization
  <2>1. DOMAIN org_nets' = {} /\ pc' = "nets" /\ pc = "org"
    BY <1>4, EmptyDictFacts DEF StartOrganization
  <2> QED
    BY <1>0, <1>4, <2>1 DEF StartOrganization, PlacesInv, InLoop, NetsOfEarlier,
       NetsOfOrg, ServicesOfOrg, ServicesOfCity, Orgs, Services
<1>5. CASE Return
  BY <1>0, <1>5 DEF Return, PlacesInv, InLoop, ServicesOfCity, Services
<1>6. CASE TakeFront \/ TakeBack \/ TakeMgmt
  <2>1. PICK third : TakeThird(third)
    BY <1>6 DEF TakeFront, TakeBack, TakeMgmt
  <2>2. pc = "nets" /\ n <= Len(Networks)
    BY <1>6 DEF TakeFront, TakeBack, TakeMgmt, NextNetwork
  <2>3. Networks[n].id \in Ids(Networks)
    <3>1. n \in Nat \ {0} /\ DOMAIN Networks = 1 .. Len(Networks) /\ Len(Networks) \in Nat
      BY <2>2, IndexAssigned, CityShape DEF IInv, TypeOK, Networks, Org, Orgs
    <3> QED
      BY <2>2, <3>1 DEF Ids
  <2>4. DOMAIN org_nets' \subseteq Ids(Networks)
    BY <1>0, <2>1, <2>2, <2>3 DEF TakeThird, Assigned, InLoop, NetsOfOrg
  <2> QED
    BY <1>0, <2>1, <2>2, <2>4 DEF TakeThird, PlacesInv, InLoop, NetsOfEarlier,
       NetsOfOrg, ServicesOfOrg, ServicesOfCity, Networks, Org, Orgs, Services
<1>7. CASE StartServices
  <2>1. DOMAIN org_ips' = {} /\ pc' = "svcs" /\ pc = "nets"
    BY <1>7, EmptyDictFacts DEF StartServices
  <2> QED
    BY <1>0, <1>7, <2>1 DEF StartServices, PlacesInv, InLoop, NetsOfEarlier,
       NetsOfOrg, ServicesOfOrg, ServicesOfCity, Networks, Org, Orgs, Services
<1>8. CASE SkipService
  BY <1>0, <1>8 DEF SkipService, AtService, PlacesInv, InLoop, NetsOfEarlier,
     NetsOfOrg, ServicesOfOrg, ServicesOfCity, Addressed, Networks, Org, Orgs, Services
<1>9. CASE BindService
  <2> DEFINE svc  == Services[s]
             net  == svc.network_id
             addr == <<Index, org_nets[net][2], next_host[net]>>
  <2>1. /\ pc = "svcs" /\ pc' = "svcs"
        /\ Addressed(svc)
        /\ org_ips' = Assigned(org_ips, svc.id, addr)
        /\ UNCHANGED <<org_index, net_cidr, svc_ip, o, org_nets>>
    BY <1>9 DEF BindService, AtService
  <2>2. s \in DOMAIN Services
    BY <1>9, CityShape DEF BindService, AtService, IInv, TypeOK, Services
  <2>3. org_nets[net] = <<addr[1], addr[2]>>
    <3>1. org_nets[net] \in Cidr /\ org_nets[net][1] = Index
      BY <2>1 DEF Addressed, IInv, TypeOK, Dict, OwnNetsInv
    <3> QED
      BY <3>1 DEF Cidr
  <2>4. ServicesOfOrg'
    <3>1. ASSUME NEW i \in DOMAIN Services, Services[i].id \in DOMAIN org_ips'
          PROVE  /\ Addressed(Services[i])
                 /\ org_nets[Services[i].network_id] =
                      <<org_ips'[Services[i].id][1], org_ips'[Services[i].id][2]>>
      <4>1. CASE Services[i].id = svc.id
        <5>1. i = s
          BY <2>2, <4>1 DEF DistinctIds
        <5> QED
          BY <2>1, <2>3, <5>1 DEF Assigned
      <4>2. CASE Services[i].id # svc.id
        BY <1>0, <2>1, <3>1, <4>2 DEF Assigned, InLoop, ServicesOfOrg
      <4> QED
        BY <4>1, <4>2
    <3> QED
      BY <2>1, <3>1 DEF ServicesOfOrg, Addressed, Org, Orgs, Services
  <2> QED
    BY <1>0, <2>1, <2>4 DEF PlacesInv, InLoop, NetsOfEarlier, NetsOfOrg,
       ServicesOfCity, Networks, Org, Orgs, Services
<1>10. CASE MergeOrganization
  <2>1. /\ pc = "svcs" /\ pc' = "org" /\ o' = o + 1
        /\ net_cidr' = Updated(net_cidr, org_nets)
        /\ svc_ip' = Updated(svc_ip, org_ips)
        /\ org_index' = org_index
    BY <1>10 DEF MergeOrganization
  <2>2. o \in 1 .. Len(Orgs) /\ DOMAIN Orgs = 1 .. Len(Orgs) /\ Len(Orgs) \in Nat
    BY <2>1, IndexAssigned, CityShape DEF IInv, TypeOK, Orgs
  <2>3. NetsOfEarlier'
    <3>1. ASSUME NEW id \in DOMAIN net_cidr'
          PROVE  \E p \in 1 .. o : id \in Ids(Orgs[p].networks)
      <4>1. CASE id \in DOMAIN org_nets
        BY <1>0, <2>1, <2>2, <4>1 DEF InLoop, NetsOfOrg, Networks, Org
      <4>2. CASE id \in DOMAIN net_cidr
        BY <1>0, <2>1, <2>2, <4>2 DEF InLoop, NetsOfEarlier
      <4> QED
        BY <2>1, <4>1, <4>2 DEF Updated
    <3> QED
      BY <2>1, <2>2, <3>1 DEF NetsOfEarlier, Orgs
  <2>4. DOMAIN net_cidr \cap DOMAIN org_nets = {}
    <3> SUFFICES ASSUME NEW id \in DOMAIN net_cidr, id \in DOMAIN org_nets
                 PROVE  FALSE
      OBVIOUS
    <3>1. PICK p \in 1 .. o - 1 : id \in Ids(Orgs[p].networks)
      BY <1>0, <2>1 DEF InLoop, NetsOfEarlier
    <3>2. id \in Ids(Orgs[o].networks)
      BY <1>0, <2>1 DEF InLoop, NetsOfOrg, Networks, Org
    <3>3. p \in DOMAIN Orgs /\ o \in DOMAIN Orgs /\ p # o
      BY <2>2
    <3> QED
      BY <3>1, <3>2, <3>3, DistinctOwners DEF IInv, TypeOK, Orgs
  <2>5. ServicesOfCity'
    <3>1. ASSUME NEW i \in DOMAIN Services, Services[i].id \in DOMAIN svc_ip'
          PROVE  LET svc == Services[i]
                 IN  /\ svc.network_id \in DOMAIN net_cidr'
                     /\ net_cidr'[svc.network_id] =
                          <<svc_ip'[svc.id][1], svc_ip'[svc.id][2]>>
                     /\ svc.org_id \in DOMAIN org_index
                     /\ net_cidr'[svc.network_id][1] = org_index[svc.org_id]
      <4> DEFINE svc == Services[i]
                 net == svc.network_id
      <4>1. CASE svc.id \in DOMAIN org_ips
        <5>1. /\ svc.org_id = Org.id /\ net \in DOMAIN org_nets
              /\ org_nets[net] = <<org_ips[svc.id][1], org_ips[svc.id][2]>>
          BY <1>0, <2>1, <4>1 DEF InLoop, ServicesOfOrg, Addressed
        <5>2. net_cidr'[net] = org_nets[net] /\ svc_ip'[svc.id] = org_ips[svc.id]
          BY <2>1, <4>1, <5>1 DEF Updated
        <5>3. /\ svc.org_id \in DOMAIN org_index
              /\ org_nets[net][1] = org_index[svc.org_id]
          BY <2>1, <2>2, <5>1 DEF IInv, OwnNetsInv, ControlInv, InLoop, OrgIds, Ids,
             Index, Org, Orgs
        <5> QED
          BY <2>1, <5>1, <5>2, <5>3 DEF Updated
      <4>2. CASE svc.id \notin DOMAIN org_ips
        <5>1. svc.id \in DOMAIN svc_ip /\ svc_ip'[svc.id] = svc_ip[svc.id]
          BY <2>1, <3>1, <4>2 DEF Updated
        <5>2. /\ net \in DOMAIN net_cidr
              /\ net_cidr[net] = <<svc_ip[svc.id][1], svc_ip[svc.id][2]>>
              /\ svc.org_id \in DOMAIN org_index
              /\ net_cidr[net][1] = org_index[svc.org_id]
          BY <1>0, <2>1, <5>1 DEF InLoop, ServicesOfCity
        <5>3. net \in DOMAIN net_cidr' /\ net_cidr'[net] = net_cidr[net]
          BY <2>1, <2>4, <5>2 DEF Updated
        <5> QED
          BY <5>1, <5>2, <5>3
      <4> QED
        BY <4>1, <4>2
    <3> QED
      BY <2>1, <3>1 DEF ServicesOfCity, Services
  <2> QED
    BY <2>1, <2>3, <2>5 DEF PlacesInv, NetsOfOrg, ServicesOfOrg
<1> QED
  BY <1>1, <1>2, <1>3, <1>4, <1>5, <1>6, <1>7, <1>8, <1>9, <1>10 DEF Next

(* With distinct network and service ids, the plan that allocate returns   *)
(* puts every address into the CIDR of the network its service names, and  *)
(* that network has the index of the service's own organization.           *)
THEOREM AddressesInNetworks == Spec => []AddressInOwnNetwork
<1>1. Init => PlacesInv
  BY DEF Init, PlacesInv, InLoop
<1>2. PlacesInv => AddressInOwnNetwork
  BY DEF PlacesInv, ServicesOfCity, AddressInOwnNetwork
<1> QED
  BY <1>1, <1>2, PlacesNext, Invariant, PTL DEF Spec

-----------------------------------------------------------------------------
(* The loops compute the closed form.                                      *)

(* d is the dict that the first k networks of a list make.                 *)
CidrsOfFirst(d, nets, i, k) ==
  /\ DOMAIN d = {nets[m].id : m \in 1 .. k}
  /\ \A m \in 1 .. k :
       (\A l \in 1 .. k : nets[l].id = nets[m].id => l <= m)
         => d[nets[m].id] = <<i, ThirdOf(nets, m)>>

(* Those of the first k services that an organization addresses.           *)
BoundOfFirst(c, org, k) == {t \in 1 .. k : Binds(org, c.services[t])}

(* d is the dict that they make.                                           *)
AddressesOfFirst(d, c, org, i, k) ==
  /\ DOMAIN d = {c.services[t].id : t \in BoundOfFirst(c, org, k)}
  /\ \A t \in BoundOfFirst(c, org, k) :
       (\A u \in BoundOfFirst(c, org, k) : c.services[u].id = c.services[t].id => u <= t)
         => d[c.services[t].id] =
              <<i, OrgCidrs(org, i)[c.services[t].network_id][2], HostOf(c, org, t)>>

(* Those of them that are in one network.                                  *)
InSubnet(c, org, net, k) ==
  {t \in BoundOfFirst(c, org, k) : c.services[t].network_id = net}

(* d is the first k dicts merged.                                          *)
MergeOfFirst(d, dicts, k) ==
  /\ DOMAIN d = UNION {DOMAIN dicts[p] : p \in 1 .. k}
  /\ \A p \in 1 .. k : \A x \in DOMAIN dicts[p] :
       (\A q \in 1 .. k : x \in DOMAIN dicts[q] => q <= p) => d[x] = dicts[p][x]

(* The pools have room for the networks of the organization.               *)
SubnetsFit(org) ==
  LET Total(kinds) == CountKinds(org.networks, Len(org.networks), kinds)
  IN  /\ Total(FrontKinds) <= BackFirst
      /\ Total(BackKinds) <= MgmtThird - BackFirst
      /\ Total(MgmtKinds) <= 1

(* The dicts of the organizations under the indices drawn.                 *)
CidrDicts(c, index) ==
  [p \in DOMAIN c.organizations |->
     OrgCidrs(c.organizations[p], index[c.organizations[p].id])]

AddressDicts(c, index) ==
  [p \in DOMAIN c.organizations |->
     OrgAddresses(c, c.organizations[p], index[c.organizations[p].id])]

(* What the outer loop has done: indices are drawn, the organizations      *)
(* before this one are within their limits and their dicts merged.         *)
Drawn ==
  /\ Len(Orgs) <= MaxIndex
  /\ \E indices \in Shuffles(Len(Orgs)) : org_index = OrgIndex(city, indices)

OrgsDone ==
  /\ \A p \in 1 .. o - 1 : OrgFits(city, Orgs[p])
  /\ MergeOfFirst(net_cidr, CidrDicts(city, org_index), o - 1)
  /\ MergeOfFirst(svc_ip, AddressDicts(city, org_index), o - 1)

(* What the loop over the networks has done: the pools are where the       *)
(* networks before this one have taken them.                               *)
NetsDone ==
  /\ n <= Len(Networks) + 1
  /\ front = CountKinds(Networks, n - 1, FrontKinds)
  /\ back = BackFirst + CountKinds(Networks, n - 1, BackKinds)
  /\ CountKinds(Networks, n - 1, MgmtKinds) = IF mgmt_used THEN 1 ELSE 0
  /\ CidrsOfFirst(org_nets, Networks, Index, n - 1)

(* What the loop over the services has done: the next host of a subnet is  *)
(* behind those of the services before this one, which had room.           *)
ServicesDone ==
  /\ SubnetsFit(Org)
  /\ org_nets = OrgCidrs(Org, Index)
  /\ \A net \in DOMAIN org_nets :
       next_host[net] = FirstHost + Cardinality(InSubnet(city, Org, net, s - 1))
  /\ \A t \in BoundOfFirst(city, Org, s - 1) : HostOf(city, Org, t) <= LastHost
  /\ AddressesOfFirst(org_ips, city, Org, Index, s - 1)

Progress ==
  /\ pc = "indices" => o = 1 /\ net_cidr = EmptyDict /\ svc_ip = EmptyDict
  /\ InLoop => Drawn /\ OrgsDone
  /\ pc = "nets" => NetsDone
  /\ pc = "svcs" => ServicesDone

(* One more place is one more to count.                                    *)
LEMMA OneMorePlace ==
  ASSUME NEW k \in Nat, NEW A \in SUBSET (1 .. k)
  PROVE  Cardinality(A \cup {k + 1}) = Cardinality(A) + 1
<1>1. IsFiniteSet(A) /\ k + 1 \notin A
  BY PlacesFinite
<1> QED
  BY <1>1, FS_AddElement

(* Nothing is counted before the first network, and then each of a kind.   *)
LEMMA CountKindsStep ==
  ASSUME NEW nets, NEW kinds
  PROVE  /\ CountKinds(nets, 0, kinds) = 0
         /\ \A k \in Nat \ {0} :
              CountKinds(nets, k, kinds) = CountKinds(nets, k - 1, kinds)
                                             + IF nets[k].kind \in kinds THEN 1 ELSE 0
<1> DEFINE counted(l) == {m \in 1 .. l : nets[m].kind \in kinds}
<1>1. CountKinds(nets, 0, kinds) = 0
  <2>1. counted(0) = {}
    OBVIOUS
  <2> QED
    BY <2>1, FS_EmptySet DEF CountKinds
<1>2. ASSUME NEW k \in Nat \ {0}
      PROVE  CountKinds(nets, k, kinds) = CountKinds(nets, k - 1, kinds)
                                            + IF nets[k].kind \in kinds THEN 1 ELSE 0
  <2>1. k - 1 \in Nat /\ (k - 1) + 1 = k
    OBVIOUS
  <2>2. 1 .. k = (1 .. k - 1) \cup {k}
    OBVIOUS
  <2>3. counted(k - 1) \in SUBSET (1 .. k - 1)
    OBVIOUS
  <2>4. CASE nets[k].kind \in kinds
    <3>1. counted(k) = counted(k - 1) \cup {k}
      BY <2>2, <2>4
    <3> QED
      BY <2>1, <2>3, <2>4, <3>1, OneMorePlace DEF CountKinds
  <2>5. CASE nets[k].kind \notin kinds
    <3>1. counted(k) = counted(k - 1)
      BY <2>2, <2>5
    <3>2. CountKinds(nets, k, kinds) = CountKinds(nets, k - 1, kinds)
      BY <3>1 DEF CountKinds
    <3> QED
      BY <2>1, <2>5, <3>2, CountKindsType
  <2> QED
    BY <2>4, <2>5
<1> QED
  BY <1>1, <1>2

(* Later counts are not smaller.                                           *)
LEMMA CountKindsWithin ==
  ASSUME NEW nets, NEW k \in Nat, NEW l \in Nat, l <= k, NEW kinds
  PROVE  CountKinds(nets, l, kinds) <= CountKinds(nets, k, kinds)
<1> DEFINE counted(j) == {m \in 1 .. j : nets[m].kind \in kinds}
<1>1. counted(k) \in SUBSET (1 .. k) /\ counted(l) \in SUBSET counted(k)
  OBVIOUS
<1>2. IsFiniteSet(counted(k))
  BY <1>1, PlacesFinite
<1>3. Cardinality(counted(l)) <= Cardinality(counted(k))
  BY <1>1, <1>2, FS_Subset
<1> QED
  BY <1>3 DEF CountKinds

(* No network makes the empty dict,                                        *)
LEMMA CidrsStart ==
  ASSUME NEW nets, NEW i
  PROVE  CidrsOfFirst(EmptyDict, nets, i, 0)
BY EmptyDictFacts DEF CidrsOfFirst

(* each next one assigns its entry,                                        *)
LEMMA CidrsStep ==
  ASSUME NEW d, NEW nets, NEW i, NEW k \in Nat \ {0}, CidrsOfFirst(d, nets, i, k - 1)
  PROVE  CidrsOfFirst(Assigned(d, nets[k].id, <<i, ThirdOf(nets, k)>>), nets, i, k)
<1> DEFINE e == Assigned(d, nets[k].id, <<i, ThirdOf(nets, k)>>)
<1>1. 1 .. k = (1 .. k - 1) \cup {k}
  OBVIOUS
<1>2. DOMAIN e = DOMAIN d \cup {nets[k].id}
  BY DEF Assigned
<1>3. DOMAIN e = {nets[m].id : m \in 1 .. k}
  BY <1>1, <1>2 DEF CidrsOfFirst
<1>4. ASSUME NEW m \in 1 .. k, \A l \in 1 .. k : nets[l].id = nets[m].id => l <= m
      PROVE  e[nets[m].id] = <<i, ThirdOf(nets, m)>>
  <2>1. CASE m = k
    BY <1>2, <2>1 DEF Assigned
  <2>2. CASE m \in 1 .. k - 1
    <3>1. nets[k].id # nets[m].id
      BY <1>4, <2>2
    <3>2. d[nets[m].id] = <<i, ThirdOf(nets, m)>> /\ nets[m].id \in DOMAIN d
      BY <1>1, <1>4, <2>2 DEF CidrsOfFirst
    <3> QED
      BY <3>1, <3>2 DEF Assigned
  <2> QED
    BY <1>1, <2>1, <2>2
<1> QED
  BY <1>3, <1>4 DEF CidrsOfFirst

(* and all of them make the dict of the closed form.                       *)
LEMMA CidrsEnd ==
  ASSUME NEW d, d = [x \in DOMAIN d |-> d[x]], NEW org, NEW i, NEW k \in Nat,
         DOMAIN org.networks = 1 .. k, CidrsOfFirst(d, org.networks, i, k)
  PROVE  d = OrgCidrs(org, i)
<1> DEFINE nets == org.networks
           last(id) == LastWithId(nets, id)
<1>1. DOMAIN d = Ids(nets)
  BY DEF CidrsOfFirst, Ids
<1>2. ASSUME NEW id \in Ids(nets)
      PROVE  d[id] = <<i, ThirdOf(nets, last(id))>>
  <2>1. /\ last(id) \in 1 .. k /\ nets[last(id)].id = id
        /\ \A l \in 1 .. k : nets[l].id = id => l <= last(id)
    BY LastWithIdFound
  <2> QED
    BY <2>1 DEF CidrsOfFirst
<1>3. OrgCidrs(org, i) = [id \in Ids(nets) |-> <<i, ThirdOf(nets, last(id))>>]
  BY DEF OrgCidrs
<1> QED
  BY <1>1, <1>2, <1>3

(* No service makes the empty dict.                                        *)
LEMMA AddressesStart ==
  ASSUME NEW c, NEW org, NEW i
  PROVE  AddressesOfFirst(EmptyDict, c, org, i, 0)
BY EmptyDictFacts DEF AddressesOfFirst, BoundOfFirst

(* The next service is one more to address, or it is not.                  *)
LEMMA BoundStep ==
  ASSUME NEW c, NEW org, NEW k \in Nat \ {0}
  PROVE  /\ ~ Binds(org, c.services[k]) =>
              BoundOfFirst(c, org, k) = BoundOfFirst(c, org, k - 1)
         /\ Binds(org, c.services[k]) =>
              BoundOfFirst(c, org, k) = BoundOfFirst(c, org, k - 1) \cup {k}
         /\ k \notin BoundOfFirst(c, org, k - 1)
<1>1. 1 .. k = (1 .. k - 1) \cup {k} /\ k \notin 1 .. k - 1
  OBVIOUS
<1> QED
  BY <1>1 DEF BoundOfFirst

(* One that is addressed assigns its entry,                                *)
LEMMA AddressesStep ==
  ASSUME NEW d, NEW c, NEW org, NEW i, NEW k \in Nat \ {0},
         AddressesOfFirst(d, c, org, i, k - 1), Binds(org, c.services[k])
  PROVE  AddressesOfFirst(
           Assigned(d, c.services[k].id,
                    <<i, OrgCidrs(org, i)[c.services[k].network_id][2], HostOf(c, org, k)>>),
           c, org, i, k)
<1> DEFINE v == <<i, OrgCidrs(org, i)[c.services[k].network_id][2], HostOf(c, org, k)>>
           e == Assigned(d, c.services[k].id, v)
           before == BoundOfFirst(c, org, k - 1)
<1>1. BoundOfFirst(c, org, k) = before \cup {k} /\ \A t \in before : t < k
  BY BoundStep DEF BoundOfFirst
<1>2. DOMAIN e = DOMAIN d \cup {c.services[k].id}
  BY DEF Assigned
<1>3. DOMAIN e = {c.services[t].id : t \in BoundOfFirst(c, org, k)}
  BY <1>1, <1>2 DEF AddressesOfFirst
<1>4. ASSUME NEW t \in BoundOfFirst(c, org, k),
             \A u \in BoundOfFirst(c, org, k) : c.services[u].id = c.services[t].id => u <= t
      PROVE  e[c.services[t].id] =
               <<i, OrgCidrs(org, i)[c.services[t].network_id][2], HostOf(c, org, t)>>
  <2>1. CASE t = k
    BY <1>2, <2>1 DEF Assigned
  <2>2. CASE t \in before
    <3>1. c.services[k].id # c.services[t].id
      <4>1. t < k /\ t \in Int
        BY <1>1, <2>2 DEF BoundOfFirst
      <4> QED
        BY <1>1, <1>4, <4>1
    <3>2. /\ d[c.services[t].id] =
               <<i, OrgCidrs(org, i)[c.services[t].network_id][2], HostOf(c, org, t)>>
          /\ c.services[t].id \in DOMAIN d
      BY <1>1, <1>4, <2>2 DEF AddressesOfFirst
    <3> QED
      BY <3>1, <3>2 DEF Assigned
  <2> QED
    BY <1>1, <2>1, <2>2
<1> HIDE DEF e
<1> QED
  BY <1>3, <1>4 DEF AddressesOfFirst, e

(* one that is not leaves the dict,                                        *)
LEMMA AddressesSkip ==
  ASSUME NEW d, NEW c, NEW org, NEW i, NEW k \in Nat \ {0},
         AddressesOfFirst(d, c, org, i, k - 1), ~ Binds(org, c.services[k])
  PROVE  AddressesOfFirst(d, c, org, i, k)
<1>1. BoundOfFirst(c, org, k) = BoundOfFirst(c, org, k - 1)
  BY BoundStep
<1> QED
  BY <1>1 DEF AddressesOfFirst

(* and all of them make the dict of the closed form.                       *)
LEMMA AddressesEnd ==
  ASSUME NEW d, d = [x \in DOMAIN d |-> d[x]], NEW c, NEW org, NEW i, NEW k \in Nat,
         DOMAIN c.services = 1 .. k, AddressesOfFirst(d, c, org, i, k)
  PROVE  d = OrgAddresses(c, org, i)
<1> DEFINE bound == OrgBound(c, org)
           last(id) == LastBound(c, org, id)
           ids == {c.services[t].id : t \in bound}
<1>1. bound = BoundOfFirst(c, org, k) /\ bound \in SUBSET (1 .. k)
  BY DEF OrgBound, BoundOfFirst
<1>2. DOMAIN d = ids /\ DOMAIN OrgAddresses(c, org, i) = ids
  BY <1>1 DEF AddressesOfFirst, OrgAddresses
<1>3. ASSUME NEW id \in ids
      PROVE  d[id] = OrgAddresses(c, org, i)[id]
  <2> DEFINE A == {t \in bound : c.services[t].id = id}
  <2>1. A \in SUBSET (1 .. k) /\ A # {}
    BY <1>1
  <2>2. \E m \in A : \A j \in A : j <= m
    BY <2>1, LastPlace
  <2>3. /\ last(id) \in bound /\ c.services[last(id)].id = id
        /\ \A t \in bound : c.services[t].id = id => t <= last(id)
    BY <2>2 DEF LastBound
  <2>4. d[id] = <<i, OrgCidrs(org, i)[c.services[last(id)].network_id][2],
                  HostOf(c, org, last(id))>>
    BY <1>1, <2>3 DEF AddressesOfFirst
  <2>5. OrgCidrs(org, i)[c.services[last(id)].network_id][1] = i
    BY <2>3 DEF OrgBound, Binds, OrgCidrs
  <2> QED
    BY <2>4, <2>5, OrgAddressAt
<1>4. OrgAddresses(c, org, i) = [id \in ids |-> OrgAddresses(c, org, i)[id]]
  BY DEF OrgAddresses
<1> QED
  BY <1>2, <1>3, <1>4

(* No organization makes the empty dict,                                   *)
LEMMA MergeStart ==
  ASSUME NEW dicts
  PROVE  MergeOfFirst(EmptyDict, dicts, 0)
BY EmptyDictFacts DEF MergeOfFirst

(* each next one updates it with its own,                                  *)
LEMMA MergeStep ==
  ASSUME NEW d, NEW dicts, NEW k \in Nat \ {0}, MergeOfFirst(d, dicts, k - 1)
  PROVE  MergeOfFirst(Updated(d, dicts[k]), dicts, k)
<1> DEFINE e == Updated(d, dicts[k])
<1>1. 1 .. k = (1 .. k - 1) \cup {k}
  OBVIOUS
<1>2. DOMAIN e = DOMAIN d \cup DOMAIN dicts[k]
  BY DEF Updated
<1>3. DOMAIN e = UNION {DOMAIN dicts[p] : p \in 1 .. k}
  BY <1>1, <1>2 DEF MergeOfFirst
<1>4. ASSUME NEW p \in 1 .. k, NEW x \in DOMAIN dicts[p],
             \A q \in 1 .. k : x \in DOMAIN dicts[q] => q <= p
      PROVE  e[x] = dicts[p][x]
  <2>1. CASE p = k
    BY <1>2, <2>1 DEF Updated
  <2>2. CASE p \in 1 .. k - 1
    <3>1. x \notin DOMAIN dicts[k]
      BY <1>4, <2>2
    <3>2. d[x] = dicts[p][x] /\ x \in DOMAIN d
      BY <1>1, <1>4, <2>2 DEF MergeOfFirst
    <3> QED
      BY <3>1, <3>2 DEF Updated
  <2> QED
    BY <1>1, <2>1, <2>2
<1> QED
  BY <1>3, <1>4 DEF MergeOfFirst

(* and all of them make the merged dict.                                   *)
LEMMA MergeEnd ==
  ASSUME NEW d, d = [x \in DOMAIN d |-> d[x]], NEW dicts, NEW k \in Nat,
         DOMAIN dicts = 1 .. k, MergeOfFirst(d, dicts, k)
  PROVE  d = Merged(dicts)
<1> DEFINE last(x) == LastWithKey(dicts, x)
           keys == UNION {DOMAIN dicts[p] : p \in DOMAIN dicts}
<1>1. DOMAIN d = keys
  BY DEF MergeOfFirst
<1>2. ASSUME NEW x \in keys
      PROVE  d[x] = dicts[last(x)][x]
  <2>1. PICK q \in 1 .. k : x \in DOMAIN dicts[q]
    OBVIOUS
  <2>2. /\ last(x) \in 1 .. k /\ x \in DOMAIN dicts[last(x)]
        /\ \A p \in 1 .. k : x \in DOMAIN dicts[p] => p <= last(x)
    BY <2>1, LastWithKeyFound
  <2> QED
    BY <2>2 DEF MergeOfFirst
<1>3. Merged(dicts) = [x \in keys |-> dicts[last(x)][x]]
  BY DEF Merged
<1> QED
  BY <1>1, <1>2, <1>3

(* The hosts that the first k services have taken of a subnet: none at     *)
(* first,                                                                  *)
LEMMA SubnetStart ==
  ASSUME NEW c, NEW org, NEW net
  PROVE  Cardinality(InSubnet(c, org, net, 0)) = 0
<1>1. InSubnet(c, org, net, 0) = {}
  BY DEF InSubnet, BoundOfFirst
<1> QED
  BY <1>1, FS_EmptySet

(* and then one for each service that stands in it.                        *)
LEMMA SubnetStep ==
  ASSUME NEW c, NEW org, NEW net, NEW k \in Nat \ {0}
  PROVE  /\ Cardinality(InSubnet(c, org, net, k - 1)) \in Nat
         /\ Binds(org, c.services[k]) /\ c.services[k].network_id = net =>
              Cardinality(InSubnet(c, org, net, k)) =
                Cardinality(InSubnet(c, org, net, k - 1)) + 1
         /\ ~ (Binds(org, c.services[k]) /\ c.services[k].network_id = net) =>
              InSubnet(c, org, net, k) = InSubnet(c, org, net, k - 1)
<1> DEFINE before == InSubnet(c, org, net, k - 1)
<1>1. before \in SUBSET (1 .. k - 1) /\ k - 1 \in Nat /\ (k - 1) + 1 = k
  BY DEF InSubnet, BoundOfFirst
<1>2. Cardinality(before) \in Nat
  BY <1>1, PlacesFinite
<1>3. ASSUME Binds(org, c.services[k]), c.services[k].network_id = net
      PROVE  Cardinality(InSubnet(c, org, net, k)) = Cardinality(before) + 1
  <2>1. InSubnet(c, org, net, k) = before \cup {k}
    BY <1>3, BoundStep DEF InSubnet
  <2> QED
    BY <1>1, <2>1, OneMorePlace
<1>4. ASSUME ~ (Binds(org, c.services[k]) /\ c.services[k].network_id = net)
      PROVE  InSubnet(c, org, net, k) = before
  BY <1>4, BoundStep DEF InSubnet
<1> QED
  BY <1>2, <1>3, <1>4

(* The next one goes to the service that is next.                          *)
LEMMA HostIsNext ==
  ASSUME NEW c, NEW org, NEW k
  PROVE  HostOf(c, org, k) =
           FirstHost + Cardinality(InSubnet(c, org, c.services[k].network_id, k - 1))
<1>1. Ahead(c, org, k) = InSubnet(c, org, c.services[k].network_id, k - 1)
  BY DEF Ahead, InSubnet, BoundOfFirst
<1> QED
  BY <1>1 DEF HostOf

(* The lists that the loops walk are numbered from 1.                      *)
LEMMA Walked ==
  ASSUME IInv
  PROVE  /\ city \in Cities /\ IsCity(city)
         /\ Len(Orgs) \in Nat /\ DOMAIN Orgs = 1 .. Len(Orgs)
         /\ Len(Services) \in Nat /\ DOMAIN Services = 1 .. Len(Services)
         /\ o \in 1 .. Len(Orgs) + 1 /\ n \in Nat \ {0} /\ s \in 1 .. Len(Services) + 1
         /\ pc \in {"nets", "svcs"} \/ (pc = "org" /\ o <= Len(Orgs)) =>
              /\ o \in DOMAIN Orgs
              /\ Len(Networks) \in Nat /\ DOMAIN Networks = 1 .. Len(Networks)
              /\ \A m \in DOMAIN Networks : Networks[m].kind \in NetworkKind
<1>1. /\ city \in Cities /\ o \in 1 .. Len(Orgs) + 1
      /\ n \in Nat \ {0} /\ s \in 1 .. Len(Services) + 1
  BY DEF IInv, TypeOK
<1>2. IsCity(city)
  BY <1>1, CitiesAssumption DEF IsCity
<1>3. /\ Len(Orgs) \in Nat /\ DOMAIN Orgs = 1 .. Len(Orgs)
      /\ Len(Services) \in Nat /\ DOMAIN Services = 1 .. Len(Services)
  BY <1>2, CityLists DEF Orgs, Services
<1>4. ASSUME pc \in {"nets", "svcs"} \/ (pc = "org" /\ o <= Len(Orgs))
      PROVE  o \in DOMAIN Orgs
  BY <1>1, <1>3, <1>4 DEF IInv, ControlInv
<1>5. ASSUME o \in DOMAIN Orgs
      PROVE  /\ Len(Networks) \in Nat /\ DOMAIN Networks = 1 .. Len(Networks)
             /\ \A m \in DOMAIN Networks : Networks[m].kind \in NetworkKind
  BY <1>2, <1>5, OrganizationLists DEF Networks, Org, Orgs
<1> QED
  BY <1>1, <1>2, <1>3, <1>4, <1>5

(* The call starts with nothing done.                                      *)
LEMMA ProgressStart == Init => Progress
BY DEF Init, Progress, InLoop

(* A step inside the loop over the organizations leaves what it has done.  *)
LEMMA OuterLoopStays ==
  ASSUME Drawn, OrgsDone, UNCHANGED <<city, result, o>>
  PROVE  Drawn' /\ OrgsDone'
BY DEF Drawn, OrgsDone, Orgs, result

(* A network takes the octet of the closed form.                           *)
LEMMA NetworkTaken ==
  ASSUME IInv, Progress, pc = "nets", n <= Len(Networks),
         TakeThird(ThirdOf(Networks, n)),
         front' = CountKinds(Networks, n, FrontKinds),
         back' = BackFirst + CountKinds(Networks, n, BackKinds),
         CountKinds(Networks, n, MgmtKinds) = IF mgmt_used' THEN 1 ELSE 0
  PROVE  Progress'
<1>1. /\ pc' = "nets" /\ n' = n + 1 /\ UNCHANGED <<city, result, o>>
      /\ org_nets' = Assigned(org_nets, Networks[n].id, <<Index, ThirdOf(Networks, n)>>)
  BY DEF TakeThird
<1>2. Drawn /\ OrgsDone /\ NetsDone
  BY DEF Progress, InLoop
<1>3. Drawn' /\ OrgsDone'
  BY <1>1, <1>2, OuterLoopStays
<1>4. Networks' = Networks /\ Index' = Index
  BY <1>1 DEF Networks, Index, Org, Orgs, result
<1>5. n \in Nat \ {0} /\ Len(Networks) \in Nat /\ n' - 1 = n
  BY <1>1, Walked
<1>6. CidrsOfFirst(org_nets', Networks, Index, n)
  BY <1>1, <1>2, <1>5, CidrsStep DEF NetsDone
<1>7. NetsDone'
  BY <1>1, <1>4, <1>5, <1>6 DEF NetsDone
<1> QED
  BY <1>1, <1>3, <1>7 DEF Progress

(* A service that the organization addresses is one that it binds.         *)
LEMMA AddressedIsBound ==
  ASSUME ServicesDone, NEW svc
  PROVE  Addressed(svc) <=> Binds(Org, svc)
<1>1. DOMAIN org_nets = Ids(Org.networks)
  BY DEF ServicesDone, OrgCidrs
<1> QED
  BY <1>1 DEF Addressed, Binds

(* Where the service stands that is next, its host is that of the closed   *)
(* form.                                                                   *)
LEMMA NextHostIsHost ==
  ASSUME IInv, ServicesDone, pc = "svcs", s <= Len(Services), Addressed(Services[s])
  PROVE  /\ next_host[Services[s].network_id] = HostOf(city, Org, s)
         /\ Binds(Org, Services[s])
<1>1. Binds(Org, Services[s]) /\ Services[s].network_id \in DOMAIN org_nets
  BY AddressedIsBound DEF Addressed
<1>2. next_host[Services[s].network_id] =
        FirstHost + Cardinality(InSubnet(city, Org, Services[s].network_id, s - 1))
  BY <1>1 DEF ServicesDone
<1> QED
  BY <1>1, <1>2, HostIsNext DEF Services

(* A service that is passed over leaves what is done,                      *)
LEMMA ServiceSkipped ==
  ASSUME IInv, Progress, SkipService
  PROVE  Progress'
<1>1. /\ pc = "svcs" /\ pc' = "svcs" /\ s <= Len(Services) /\ s' = s + 1
      /\ ~ Addressed(Services[s])
      /\ UNCHANGED <<city, result, o, org_nets, next_host, org_ips>>
  BY DEF SkipService, AtService
<1>2. Drawn /\ OrgsDone /\ ServicesDone
  BY <1>1 DEF Progress, InLoop
<1>3. Drawn' /\ OrgsDone'
  BY <1>1, <1>2, OuterLoopStays
<1>4. Org' = Org /\ Index' = Index /\ Services' = Services
  BY <1>1 DEF Index, Org, Orgs, Services, result
<1>5. s \in Nat \ {0} /\ s' - 1 = s
  BY <1>1, Walked
<1>6. ~ Binds(Org, city.services[s])
  BY <1>1, <1>2, AddressedIsBound DEF Services
<1>7. BoundOfFirst(city, Org, s) = BoundOfFirst(city, Org, s - 1)
  BY <1>5, <1>6, BoundStep
<1>8. \A net : InSubnet(city, Org, net, s) = InSubnet(city, Org, net, s - 1)
  BY <1>7 DEF InSubnet
<1>9. AddressesOfFirst(org_ips, city, Org, Index, s)
  BY <1>2, <1>5, <1>6, AddressesSkip DEF ServicesDone
<1>10. ServicesDone'
  BY <1>1, <1>2, <1>4, <1>5, <1>7, <1>8, <1>9 DEF ServicesDone
<1> QED
  BY <1>1, <1>3, <1>10 DEF Progress

(* and one that is addressed is done with its host of the closed form.     *)
LEMMA ServiceBound ==
  ASSUME IInv, Progress, BindService
  PROVE  Progress'
<1> DEFINE svc  == Services[s]
           net  == svc.network_id
           host == next_host[net]
<1>1. /\ pc = "svcs" /\ pc' = "svcs" /\ s <= Len(Services) /\ s' = s + 1
      /\ Addressed(svc) /\ host <= LastHost
      /\ UNCHANGED <<city, result, o, org_nets>>
      /\ org_ips' = Assigned(org_ips, svc.id, <<Index, org_nets[net][2], host>>)
      /\ next_host' = [next_host EXCEPT ![net] = host + 1]
  BY DEF BindService, AtService
<1>2. Drawn /\ OrgsDone /\ ServicesDone
  BY <1>1 DEF Progress, InLoop
<1>3. Drawn' /\ OrgsDone'
  BY <1>1, <1>2, OuterLoopStays
<1>4. Org' = Org /\ Index' = Index /\ Services' = Services
  BY <1>1 DEF Index, Org, Orgs, Services, result
<1>5. s \in Nat \ {0} /\ s' - 1 = s
  BY <1>1, Walked
<1>6. host = HostOf(city, Org, s) /\ Binds(Org, city.services[s])
  BY <1>1, <1>2, NextHostIsHost DEF Services
<1>7. \A t \in BoundOfFirst(city, Org, s) : HostOf(city, Org, t) <= LastHost
  <2>1. BoundOfFirst(city, Org, s) = BoundOfFirst(city, Org, s - 1) \cup {s}
    BY <1>5, <1>6, BoundStep
  <2> QED
    BY <1>1, <1>2, <1>6, <2>1 DEF ServicesDone
<1>8. ASSUME NEW id \in DOMAIN org_nets
      PROVE  next_host'[id] = FirstHost + Cardinality(InSubnet(city, Org, id, s))
  <2>1. /\ next_host[id] = FirstHost + Cardinality(InSubnet(city, Org, id, s - 1))
        /\ id \in DOMAIN next_host
    BY <1>1, <1>2 DEF ServicesDone, IInv, ControlInv
  <2>2. /\ Cardinality(InSubnet(city, Org, id, s - 1)) \in Nat
        /\ net = id => Cardinality(InSubnet(city, Org, id, s)) =
                         Cardinality(InSubnet(city, Org, id, s - 1)) + 1
        /\ net # id => InSubnet(city, Org, id, s) = InSubnet(city, Org, id, s - 1)
    <3>1. net = city.services[s].network_id
      BY DEF Services
    <3> HIDE DEF net
    <3> QED
      BY <1>5, <1>6, <3>1, SubnetStep
  <2>3. CASE net = id
    BY <1>1, <2>1, <2>2, <2>3, PlanAssumption
  <2>4. CASE net # id
    BY <1>1, <2>1, <2>2, <2>4, PlanAssumption
  <2> QED
    BY <2>3, <2>4
<1>9. AddressesOfFirst(org_ips', city, Org, Index, s)
  <2>1. AddressesOfFirst(org_ips, city, Org, Index, s - 1)
    BY <1>2 DEF ServicesDone
  <2>2. org_ips' = Assigned(org_ips, city.services[s].id,
                     <<Index, OrgCidrs(Org, Index)[city.services[s].network_id][2],
                       HostOf(city, Org, s)>>)
    BY <1>1, <1>2, <1>6 DEF ServicesDone, Services
  <2> QED
    BY <1>5, <1>6, <2>1, <2>2, AddressesStep
<1> HIDE DEF host, net, svc
<1>10. ServicesDone'
  BY <1>1, <1>2, <1>4, <1>5, <1>7, <1>8, <1>9 DEF ServicesDone
<1> QED
  BY <1>1, <1>3, <1>10 DEF Progress

(* When the services are done the dicts of the organization are whole, and *)
(* it is within its limits.                                                *)
LEMMA OrganizationMerged ==
  ASSUME IInv, Progress, MergeOrganization
  PROVE  Progress'
<1>1. /\ pc = "svcs" /\ pc' = "org" /\ s > Len(Services) /\ o' = o + 1
      /\ net_cidr' = Updated(net_cidr, org_nets) /\ svc_ip' = Updated(svc_ip, org_ips)
      /\ UNCHANGED <<city, org_index>>
  BY DEF MergeOrganization
<1>2. Drawn /\ OrgsDone /\ ServicesDone
  BY <1>1 DEF Progress, InLoop
<1>3. /\ o \in Nat \ {0} /\ o \in DOMAIN Orgs /\ o' - 1 = o
      /\ s - 1 = Len(Services) /\ DOMAIN city.services = 1 .. Len(Services)
      /\ Len(Services) \in Nat
  BY <1>1, Walked DEF Services
<1>4. /\ Orgs' = Orgs /\ Org = city.organizations[o]
      /\ Index = org_index[city.organizations[o].id]
  BY <1>1 DEF Orgs, Org, Index
<1>5. OrgFits(city, Orgs[o])
  <2>1. OrgBound(city, Org) = BoundOfFirst(city, Org, s - 1)
    BY <1>3 DEF OrgBound, BoundOfFirst
  <2> QED
    BY <1>2, <2>1 DEF ServicesDone, SubnetsFit, OrgFits, Org
<1>6. \A p \in 1 .. o : OrgFits(city, Orgs[p])
  <2>1. 1 .. o = (1 .. o - 1) \cup {o}
    BY <1>3
  <2> QED
    BY <1>2, <1>5, <2>1 DEF OrgsDone
<1>7. MergeOfFirst(net_cidr', CidrDicts(city, org_index), o)
  <2>1. CidrDicts(city, org_index)[o] = org_nets
    BY <1>2, <1>3, <1>4 DEF CidrDicts, ServicesDone, Orgs
  <2> QED
    BY <1>1, <1>2, <1>3, <2>1, MergeStep DEF OrgsDone
<1>8. MergeOfFirst(svc_ip', AddressDicts(city, org_index), o)
  <2>1. org_ips = [x \in DOMAIN org_ips |-> org_ips[x]]
    BY DEF IInv, TypeOK, Dict
  <2>2. org_ips = OrgAddresses(city, Org, Index)
    BY <1>2, <1>3, <2>1, AddressesEnd DEF ServicesDone
  <2>3. AddressDicts(city, org_index)[o] = org_ips
    BY <1>3, <1>4, <2>2 DEF AddressDicts, Orgs
  <2> QED
    BY <1>1, <1>2, <1>3, <2>3, MergeStep DEF OrgsDone
<1>9. Drawn' /\ OrgsDone'
  BY <1>1, <1>2, <1>3, <1>4, <1>6, <1>7, <1>8 DEF Drawn, OrgsDone
<1> QED
  BY <1>1, <1>9 DEF Progress

(* Every step keeps the loops on the way to the closed form.               *)
LEMMA ProgressStep == IInv /\ Progress /\ [Next]_vars => Progress'
<1> SUFFICES ASSUME IInv, Progress, [Next]_vars PROVE Progress'
  OBVIOUS
<1>0. CASE UNCHANGED vars
  BY <1>0 DEF Progress, InLoop, Drawn, OrgsDone, NetsDone, ServicesDone, Orgs, Org,
     Networks, Services, Index, vars, result, local
<1>1. CASE AssignIndices
  <2>1. /\ pc' = "org" /\ o' = 1 /\ net_cidr' = EmptyDict /\ svc_ip' = EmptyDict
        /\ UNCHANGED city
    BY <1>1 DEF AssignIndices, Progress
  <2>2. Drawn'
    BY <1>1, <2>1 DEF AssignIndices, Drawn, Orgs
  <2>3. OrgsDone'
    BY <2>1, MergeStart DEF OrgsDone, Orgs
  <2> QED
    BY <2>1, <2>2, <2>3 DEF Progress
<1>2. CASE TooManyOrganizations \/ Return \/ NoSubnetLeft \/ NoHostLeft
  <2>1. pc' \in {"failed", "done"}
    BY <1>2 DEF TooManyOrganizations, Return, NoSubnetLeft, NoHostLeft
  <2> QED
    BY <2>1 DEF Progress, InLoop
<1>3. CASE StartOrganization
  <2>1. /\ pc = "org" /\ o <= Len(Orgs) /\ pc' = "nets" /\ n' = 1
        /\ front' = 0 /\ back' = BackFirst /\ mgmt_used' = FALSE
        /\ org_nets' = EmptyDict /\ UNCHANGED <<city, result, o>>
    BY <1>3 DEF StartOrganization
  <2>2. Drawn' /\ OrgsDone'
    BY <2>1, OuterLoopStays DEF Progress, InLoop
  <2>3. Networks' = Networks /\ Index' = Index /\ Len(Networks) \in Nat
    BY <2>1, Walked DEF Networks, Index, Org, Orgs, result
  <2>4. /\ \A kinds : CountKinds(Networks, 0, kinds) = 0
        /\ CidrsOfFirst(EmptyDict, Networks, Index, 0)
    BY CountKindsStep, CidrsStart
  <2>5. NetsDone'
    BY <2>1, <2>3, <2>4, PlanAssumption DEF NetsDone
  <2> QED
    BY <2>1, <2>2, <2>5 DEF Progress
<1>4. ASSUME NEW kinds, NextNetwork(kinds), kinds \subseteq NetworkKind
      PROVE  /\ pc = "nets" /\ n <= Len(Networks) /\ NetsDone
             /\ Networks[n].kind \in kinds
             /\ \A ks : CountKinds(Networks, n, ks) =
                          CountKinds(Networks, n - 1, ks)
                            + IF Networks[n].kind \in ks THEN 1 ELSE 0
             /\ \A ks : CountKinds(Networks, n - 1, ks) \in Nat
  <2>1. n \in Nat \ {0} /\ n - 1 \in Nat
    BY Walked
  <2> QED
    BY <1>4, <2>1, CountKindsStep, CountKindsType DEF NextNetwork, Progress
<1>5. CASE TakeFront
  <2>1. /\ NextNetwork(FrontKinds) /\ TakeThird(front) /\ front' = front + 1
        /\ UNCHANGED <<back, mgmt_used>>
    BY <1>5 DEF TakeFront
  <2>2. /\ Networks[n].kind \in FrontKinds /\ Networks[n].kind \notin BackKinds
        /\ Networks[n].kind \notin MgmtKinds
    BY <1>4, <2>1, KindsOfPools
  <2>3. ThirdOf(Networks, n) = front
    BY <1>4, <2>1, <2>2, KindsOfPools, ThirdOfKind DEF NetsDone
  <2> QED
    BY <1>4, <2>1, <2>2, <2>3, KindsOfPools, NetworkTaken DEF NetsDone
<1>6. CASE TakeBack
  <2>1. /\ NextNetwork(BackKinds) /\ TakeThird(back) /\ back' = back + 1
        /\ UNCHANGED <<front, mgmt_used>>
    BY <1>6 DEF TakeBack
  <2>2. /\ Networks[n].kind \in BackKinds /\ Networks[n].kind \notin FrontKinds
        /\ Networks[n].kind \notin MgmtKinds
    BY <1>4, <2>1, KindsOfPools
  <2>3. ThirdOf(Networks, n) = back
    BY <1>4, <2>1, <2>2, KindsOfPools, ThirdOfKind DEF NetsDone
  <2> QED
    BY <1>4, <2>1, <2>2, <2>3, KindsOfPools, NetworkTaken, PlanAssumption DEF NetsDone
<1>7. CASE TakeMgmt
  <2>1. /\ NextNetwork(MgmtKinds) /\ TakeThird(MgmtThird) /\ ~ mgmt_used /\ mgmt_used'
        /\ UNCHANGED <<front, back>>
    BY <1>7 DEF TakeMgmt
  <2>2. /\ Networks[n].kind \in MgmtKinds /\ Networks[n].kind \notin FrontKinds
        /\ Networks[n].kind \notin BackKinds
    BY <1>4, <2>1, KindsOfPools
  <2>3. ThirdOf(Networks, n) = MgmtThird
    BY <2>2, ThirdOfKind
  <2> QED
    BY <1>4, <2>1, <2>2, <2>3, KindsOfPools, NetworkTaken DEF NetsDone
<1>8. CASE StartServices
  <2>1. /\ pc = "nets" /\ n > Len(Networks) /\ pc' = "svcs" /\ s' = 1
        /\ next_host' = [id \in DOMAIN org_nets |-> FirstHost] /\ org_ips' = EmptyDict
        /\ UNCHANGED <<city, result, o, org_nets>>
    BY <1>8 DEF StartServices
  <2>2. Drawn /\ OrgsDone /\ NetsDone
    BY <2>1 DEF Progress, InLoop
  <2>3. Drawn' /\ OrgsDone'
    BY <2>1, <2>2, OuterLoopStays
  <2>4. Org' = Org /\ Index' = Index
    BY <2>1 DEF Index, Org, Orgs, result
  <2>5. /\ n - 1 = Len(Networks) /\ Len(Networks) \in Nat
        /\ DOMAIN Networks = 1 .. Len(Networks)
    BY <2>1, <2>2, Walked DEF NetsDone
  <2>6. SubnetsFit(Org)
    <3>1. front <= BackFirst /\ back <= MgmtThird /\ mgmt_used \in BOOLEAN
      BY PlanAssumption DEF IInv, TypeOK
    <3>2. \A kinds : CountKinds(Networks, Len(Networks), kinds) \in Nat
      BY <2>5, CountKindsType
    <3> QED
      BY <2>2, <2>5, <3>1, <3>2, PlanAssumption DEF NetsDone, SubnetsFit, Networks
  <2>7. org_nets = OrgCidrs(Org, Index)
    <3>1. org_nets = [x \in DOMAIN org_nets |-> org_nets[x]]
      BY DEF IInv, TypeOK, Dict
    <3> QED
      BY <2>2, <2>5, <3>1, CidrsEnd DEF NetsDone, Networks
  <2>8. /\ \A net : Cardinality(InSubnet(city, Org, net, 0)) = 0
        /\ BoundOfFirst(city, Org, 0) = {}
        /\ AddressesOfFirst(EmptyDict, city, Org, Index, 0)
    BY SubnetStart, AddressesStart DEF BoundOfFirst
  <2>9. ServicesDone'
    BY <2>1, <2>4, <2>6, <2>7, <2>8, PlanAssumption DEF ServicesDone
  <2> QED
    BY <2>1, <2>3, <2>9 DEF Progress
<1> QED
  BY <1>0, <1>1, <1>2, <1>3, <1>5, <1>6, <1>7, <1>8, ServiceSkipped, ServiceBound,
     OrganizationMerged DEF Next

(* The operators of the abstract specification are those of AddressPlan:   *)
(* its indices and subnets,                                                *)
LEMMA SameSubnets ==
  /\ \A k : Abstract!Shuffles(k) = Shuffles(k)
  /\ \A c : Abstract!OrgIds(c) = OrgIds(c)
  /\ \A items, id : Abstract!LastWithId(items, id) = LastWithId(items, id)
  /\ \A items : Abstract!Ids(items) = Ids(items)
  /\ \A c, indices : Abstract!OrgIndex(c, indices) = OrgIndex(c, indices)
  /\ \A nets, k, kinds : Abstract!CountKinds(nets, k, kinds) = CountKinds(nets, k, kinds)
  /\ \A nets, k : Abstract!ThirdOf(nets, k) = ThirdOf(nets, k)
  /\ \A org, i : Abstract!OrgCidrs(org, i) = OrgCidrs(org, i)
<1>1. \A k : Abstract!Shuffles(k) = Shuffles(k)
  BY DEF Abstract!Shuffles, Shuffles, Abstract!Injection, Injection, Abstract!IsInjective,
     IsInjective
<1>2. \A items : Abstract!Ids(items) = Ids(items)
  BY DEF Abstract!Ids, Ids
<1>3. \A c : Abstract!OrgIds(c) = OrgIds(c)
  BY <1>2 DEF Abstract!OrgIds, OrgIds
<1>4. \A items, id : Abstract!LastWithId(items, id) = LastWithId(items, id)
  BY DEF Abstract!LastWithId, LastWithId
<1>5. \A c, indices : Abstract!OrgIndex(c, indices) = OrgIndex(c, indices)
  BY <1>3, <1>4 DEF Abstract!OrgIndex, OrgIndex
<1>6. \A nets, k, kinds : Abstract!CountKinds(nets, k, kinds) = CountKinds(nets, k, kinds)
  BY DEF Abstract!CountKinds, CountKinds, Abstract!Cardinality, Cardinality
<1>7. \A nets, k : Abstract!ThirdOf(nets, k) = ThirdOf(nets, k)
  BY <1>6 DEF Abstract!ThirdOf, ThirdOf, Abstract!FrontKinds, FrontKinds,
     Abstract!BackKinds, BackKinds, Abstract!MgmtKinds, MgmtKinds
<1>8. \A org, i : Abstract!OrgCidrs(org, i) = OrgCidrs(org, i)
  BY <1>2, <1>4, <1>7 DEF Abstract!OrgCidrs, OrgCidrs
<1> QED
  BY <1>1, <1>2, <1>3, <1>4, <1>5, <1>6, <1>7, <1>8

(* its hosts,                                                              *)
LEMMA SameHosts ==
  /\ \A c, org : Abstract!OrgBound(c, org) = OrgBound(c, org)
  /\ \A c, org, k : Abstract!HostOf(c, org, k) = HostOf(c, org, k)
  /\ \A c, org, i : Abstract!OrgAddresses(c, org, i) = OrgAddresses(c, org, i)
<1>1. \A org, svc : Abstract!Binds(org, svc) <=> Binds(org, svc)
  BY SameSubnets DEF Abstract!Binds, Binds
<1>2. \A c, org : Abstract!OrgBound(c, org) = OrgBound(c, org)
  BY <1>1 DEF Abstract!OrgBound, OrgBound
<1>3. \A c, org, k : Abstract!Ahead(c, org, k) = Ahead(c, org, k)
  BY <1>1 DEF Abstract!Ahead, Ahead
<1>4. \A c, org, k : Abstract!HostOf(c, org, k) = HostOf(c, org, k)
  BY <1>3 DEF Abstract!HostOf, HostOf, Abstract!Cardinality, Cardinality
<1>5. \A c, org, id : Abstract!LastBound(c, org, id) = LastBound(c, org, id)
  BY <1>2 DEF Abstract!LastBound, LastBound
<1>6. \A c, org, i : Abstract!OrgAddresses(c, org, i) = OrgAddresses(c, org, i)
  BY <1>2, <1>4, <1>5, SameSubnets DEF Abstract!OrgAddresses, OrgAddresses
<1> QED
  BY <1>2, <1>4, <1>6

(* its plans and its limits.                                               *)
LEMMA SamePlans ==
  /\ \A c, indices : Abstract!Plan(c, indices) = Plan(c, indices)
  /\ \A c : Abstract!Fits(c) <=> Fits(c)
<1>1. \A dicts : Abstract!Merged(dicts) = Merged(dicts)
  BY DEF Abstract!Merged, Merged, Abstract!LastWithKey, LastWithKey
<1>2. \A c, indices : Abstract!Plan(c, indices) = Plan(c, indices)
  BY <1>1, SameSubnets, SameHosts DEF Abstract!Plan, Plan
<1>3. \A c, org : Abstract!OrgFits(c, org) <=> OrgFits(c, org)
  BY SameSubnets, SameHosts DEF Abstract!OrgFits, OrgFits, Abstract!LastHost, LastHost,
     Abstract!FrontKinds, FrontKinds, Abstract!BackKinds, BackKinds, Abstract!MgmtKinds,
     MgmtKinds
<1>4. \A c : Abstract!Fits(c) <=> Fits(c)
  BY <1>3 DEF Abstract!Fits, Fits
<1> QED
  BY <1>2, <1>4

(* A limit is met when the call gives up, and none when it returns.        *)
LEMMA RefusedDoesNotFit ==
  ASSUME IInv, Progress, TooManyOrganizations \/ NoSubnetLeft \/ NoHostLeft
  PROVE  ~ Fits(city)
<1>1. CASE TooManyOrganizations
  <2>1. Len(city.organizations) > MaxIndex /\ Len(city.organizations) \in Nat
    BY <1>1, Walked DEF TooManyOrganizations, Orgs
  <2> QED
    BY <2>1, PlanAssumption DEF Fits
<1>2. CASE NoSubnetLeft
  <2> DEFINE total(kinds) == CountKinds(Networks, Len(Networks), kinds)
  <2>1. PICK kinds \in {FrontKinds, BackKinds, MgmtKinds} :
          /\ NextNetwork(kinds)
          /\ kinds = FrontKinds => front >= BackFirst
          /\ kinds = BackKinds => back >= MgmtThird
          /\ kinds = MgmtKinds => mgmt_used
    <3>1. FrontKinds # BackKinds /\ FrontKinds # MgmtKinds /\ BackKinds # MgmtKinds
      BY DEF FrontKinds, BackKinds, MgmtKinds
    <3> QED
      BY <1>2, <3>1 DEF NoSubnetLeft
  <2>2. pc = "nets" /\ n <= Len(Networks) /\ Networks[n].kind \in kinds
    BY <2>1 DEF NextNetwork
  <2>3. NetsDone /\ o \in DOMAIN Orgs /\ n \in Nat \ {0} /\ Len(Networks) \in Nat
    BY <2>2, Walked DEF Progress
  <2>4. CountKinds(Networks, n - 1, kinds) < total(kinds)
    BY <2>2, <2>3, CountKindsGrows
  <2>5. CountKinds(Networks, n - 1, kinds) \in Nat /\ total(kinds) \in Nat
    BY <2>3, CountKindsType
  <2> HIDE DEF total
  <2>6. ~ (/\ total(FrontKinds) <= BackFirst
           /\ total(BackKinds) <= MgmtThird - BackFirst
           /\ total(MgmtKinds) <= 1)
    BY <2>1, <2>3, <2>4, <2>5, PlanAssumption DEF NetsDone
  <2>7. ~ OrgFits(city, Org)
    BY <2>6 DEF total, OrgFits, Networks
  <2> QED
    BY <2>3, <2>7 DEF Fits, Org, Orgs
<1>3. CASE NoHostLeft
  <2>1. /\ pc = "svcs" /\ s <= Len(Services) /\ Addressed(Services[s])
        /\ next_host[Services[s].network_id] > LastHost
    BY <1>3 DEF NoHostLeft, AtService
  <2>2. ServicesDone /\ o \in DOMAIN Orgs /\ s \in DOMAIN city.services
    BY <2>1, Walked DEF Progress, Services
  <2>3. HostOf(city, Org, s) > LastHost /\ Binds(Org, city.services[s])
    BY <2>1, <2>2, NextHostIsHost DEF Services
  <2>4. HostOf(city, Org, s) \in Int /\ LastHost \in Int
    <3>1. next_host[Services[s].network_id] \in FirstHost .. LastHost + 1
      BY <2>1 DEF IInv, TypeOK, Dict, ControlInv, Addressed
    <3> QED
      BY <2>1, <2>2, <3>1, NextHostIsHost, PlanAssumption DEF LastHost
  <2>5. ~ OrgFits(city, Org)
    BY <2>2, <2>3, <2>4 DEF OrgFits, OrgBound
  <2> QED
    BY <2>2, <2>5 DEF Fits, Org, Orgs
<1> QED
  BY <1>1, <1>2, <1>3

(* What is returned is the plan of the indices drawn.                      *)
LEMMA ReturnedPlan ==
  ASSUME IInv, Progress, Return
  PROVE  /\ Fits(city)
         /\ \E indices \in Shuffles(Len(city.organizations)) :
              [org_index |-> org_index, net_cidr |-> net_cidr, svc_ip |-> svc_ip]
                = Plan(city, indices)
<1>1. pc = "org" /\ o > Len(Orgs)
  BY DEF Return
<1>2. Drawn /\ OrgsDone
  BY <1>1 DEF Progress, InLoop
<1>3. /\ o - 1 = Len(Orgs) /\ Len(Orgs) \in Nat /\ DOMAIN city.organizations = 1 .. Len(Orgs)
  BY <1>1, Walked DEF Orgs
<1>4. Fits(city)
  BY <1>2, <1>3 DEF Drawn, OrgsDone, Fits, Orgs
<1>5. PICK indices \in Shuffles(Len(city.organizations)) : org_index = OrgIndex(city, indices)
  BY <1>2 DEF Drawn, Orgs
<1>6. /\ net_cidr = [x \in DOMAIN net_cidr |-> net_cidr[x]]
      /\ svc_ip = [x \in DOMAIN svc_ip |-> svc_ip[x]]
  BY DEF IInv, TypeOK, Dict
<1>7. /\ DOMAIN CidrDicts(city, org_index) = 1 .. Len(Orgs)
      /\ DOMAIN AddressDicts(city, org_index) = 1 .. Len(Orgs)
  BY <1>3 DEF CidrDicts, AddressDicts
<1>8. /\ net_cidr = Merged(CidrDicts(city, org_index))
      /\ svc_ip = Merged(AddressDicts(city, org_index))
  BY <1>2, <1>3, <1>6, <1>7, MergeEnd DEF OrgsDone
<1>9. Plan(city, indices) = [org_index |-> org_index, net_cidr |-> net_cidr, svc_ip |-> svc_ip]
  BY <1>5, <1>8 DEF Plan, CidrDicts, AddressDicts
<1> QED
  BY <1>4, <1>9

(* Every step is the abstract one or none.                                 *)
LEMMA StepImplements ==
  IInv /\ Progress /\ [Next]_vars => [Abstract!Next]_(Abstract!vars)
<1> SUFFICES ASSUME IInv, Progress, [Next]_vars
             PROVE  Abstract!Next \/ UNCHANGED <<city, Outcome>>
  BY DEF Abstract!vars
<1>0. city' = city
  BY CityFixed
<1>1. CASE UNCHANGED vars
  BY <1>1 DEF vars, result, Outcome
<1>2. CASE TooManyOrganizations \/ NoSubnetLeft \/ NoHostLeft
  <2>1. pc \in {"indices", "nets", "svcs"} /\ pc' = "failed"
    BY <1>2 DEF TooManyOrganizations, NoSubnetLeft, NoHostLeft, NextNetwork, AtService
  <2>2. Outcome = [status |-> "pending"] /\ Outcome' = [status |-> "failed"]
    BY <2>1 DEF Outcome
  <2>3. ~ Abstract!Fits(city)
    BY <1>2, RefusedDoesNotFit, SamePlans
  <2> QED
    BY <1>0, <2>2, <2>3 DEF Abstract!Next, Abstract!Refuse, Abstract!Pending, Abstract!Failed
<1>3. CASE Return
  <2>1. pc = "org" /\ pc' = "done" /\ UNCHANGED result
    BY <1>3 DEF Return
  <2> DEFINE returned == [org_index |-> org_index, net_cidr |-> net_cidr, svc_ip |-> svc_ip]
  <2>2. Outcome = [status |-> "pending"] /\ Outcome' = [status |-> "done", plan |-> returned]
    BY <2>1 DEF Outcome, result
  <2>3. PICK indices \in Shuffles(Len(city.organizations)) : returned = Plan(city, indices)
    BY <1>3, ReturnedPlan
  <2>4. Abstract!Fits(city)
    BY <1>3, ReturnedPlan, SamePlans
  <2>5. /\ indices \in Abstract!Shuffles(Len(city.organizations))
        /\ Outcome' = [status |-> "done", plan |-> Abstract!Plan(city, indices)]
    BY <2>2, <2>3, SamePlans, SameSubnets
  <2> QED
    BY <1>0, <2>2, <2>4, <2>5 DEF Abstract!Next, Abstract!Allocate, Abstract!Pending,
       Abstract!Done
<1>4. CASE \/ AssignIndices \/ StartOrganization \/ TakeFront \/ TakeBack \/ TakeMgmt
           \/ StartServices \/ SkipService \/ BindService \/ MergeOrganization
  <2>1. pc \in {"indices", "org", "nets", "svcs"} /\ pc' \in {"org", "nets", "svcs"}
    BY <1>4 DEF AssignIndices, StartOrganization, TakeFront, TakeBack, TakeMgmt, TakeThird,
       NextNetwork, StartServices, SkipService, BindService, AtService, MergeOrganization
  <2> QED
    BY <1>0, <2>1 DEF Outcome
<1> QED
  BY <1>1, <1>2, <1>3, <1>4 DEF Next

(* The three loops of allocate do what AllocationSpec promises in one      *)
(* step: a city within every limit gets the plan of a shuffle, any other   *)
(* an AllocationError, and nothing else is answered.                       *)
THEOREM LoopsImplementPlan == Spec => Abstract!SafeSpec
<1>1. Init => Abstract!Init
  <2>1. ASSUME Init PROVE Outcome = [status |-> "pending"] /\ city \in Cities
    BY <2>1 DEF Init, Outcome
  <2> QED
    BY <2>1 DEF Abstract!Init, Abstract!Pending
<1> QED
  BY <1>1, ProgressStart, ProgressStep, StepImplements, Invariant, PTL
  DEF Spec, Abstract!SafeSpec

-----------------------------------------------------------------------------
(* The loops cannot go on for ever.                                        *)

(* The octets that the pools of the organization still have.               *)
OctetsLeft == (BackFirst - front) + (MgmtThird - back) + (IF mgmt_used THEN 0 ELSE 1)

(* The most steps that one organization can take: to be begun, addressed   *)
(* and merged, one for each octet and one for each service of the city.    *)
StepsPerOrg == MgmtThird + Len(Services) + 4

(* A bound on the steps that the call has before it.                       *)
StepsLeft ==
  CASE pc = "indices" -> Len(Orgs) * StepsPerOrg + 2
    [] pc = "org"     -> (Len(Orgs) + 1 - o) * StepsPerOrg + 1
    [] pc = "nets"    -> (Len(Orgs) - o) * StepsPerOrg + OctetsLeft + Len(Services) + 3
    [] pc = "svcs"    -> (Len(Orgs) - o) * StepsPerOrg + (Len(Services) + 1 - s) + 2
    [] pc \in {"done", "failed"} -> 0

(* Products of numbers.                                                    *)
LEMMA Products ==
  ASSUME NEW a \in Nat, NEW b \in Nat
  PROVE  /\ a * b \in Nat /\ (a + 1) * b = a * b + b
         /\ \A d \in Nat : d <= a => d * b <= a * b
OBVIOUS

(* What the bound is made of are numbers.                                  *)
LEMMA BoundParts ==
  ASSUME IInv
  PROVE  /\ Len(Orgs) \in Nat /\ Len(Services) \in Nat /\ MgmtThird \in Nat
         /\ o \in Nat /\ s \in Nat /\ s <= Len(Services) + 1 /\ o <= Len(Orgs) + 1
         /\ pc \in {"nets", "svcs"} => o <= Len(Orgs)
         /\ OctetsLeft \in Nat /\ StepsPerOrg \in Nat
         /\ Len(Orgs) * StepsPerOrg \in Nat
         /\ (Len(Orgs) + 1 - o) * StepsPerOrg \in Nat
         /\ (Len(Orgs) + 1 - o) * StepsPerOrg <= Len(Orgs) * StepsPerOrg
         /\ o <= Len(Orgs) => /\ (Len(Orgs) - o) * StepsPerOrg \in Nat
                              /\ (Len(Orgs) + 1 - o) * StepsPerOrg
                                   = (Len(Orgs) - o) * StepsPerOrg + StepsPerOrg
<1>1. Len(Orgs) \in Nat /\ Len(Services) \in Nat
  <2>1. IsCity(city)
    BY CitiesAssumption DEF IInv, TypeOK, IsCity
  <2> QED
    BY <2>1, CityLists DEF Orgs, Services
<1>2. /\ o \in 1 .. Len(Orgs) + 1 /\ s \in 1 .. Len(Services) + 1
      /\ pc \in {"nets", "svcs"} => o <= Len(Orgs)
      /\ front \in 0 .. BackFirst /\ back \in BackFirst .. MgmtThird /\ mgmt_used \in BOOLEAN
  BY DEF IInv, TypeOK, ControlInv
<1>3. OctetsLeft \in Nat
  BY <1>2, PlanAssumption DEF OctetsLeft
<1>4. StepsPerOrg \in Nat /\ MgmtThird \in Nat
  BY <1>1, PlanAssumption DEF StepsPerOrg
<1>5. /\ Len(Orgs) + 1 - o \in Nat /\ Len(Orgs) + 1 - o <= Len(Orgs)
      /\ o <= Len(Orgs) => Len(Orgs) - o \in Nat
  BY <1>1, <1>2
<1>6. /\ Len(Orgs) * StepsPerOrg \in Nat
      /\ (Len(Orgs) + 1 - o) * StepsPerOrg \in Nat
      /\ (Len(Orgs) + 1 - o) * StepsPerOrg <= Len(Orgs) * StepsPerOrg
  BY <1>1, <1>4, <1>5, Products
<1>7. o <= Len(Orgs) => /\ (Len(Orgs) - o) * StepsPerOrg \in Nat
                        /\ (Len(Orgs) - o + 1) * StepsPerOrg
                             = (Len(Orgs) - o) * StepsPerOrg + StepsPerOrg
  BY <1>4, <1>5, Products
<1>8. Len(Orgs) - o + 1 = Len(Orgs) + 1 - o
  BY <1>1, <1>2
<1> QED
  BY <1>1, <1>2, <1>3, <1>4, <1>6, <1>7, <1>8

(* What it says is a number, and 0 only when the call has ended.           *)
LEMMA StepsLeftType ==
  ASSUME IInv
  PROVE  StepsLeft \in Nat /\ (StepsLeft = 0 <=> pc \in {"done", "failed"})
<1>1. pc \in {"indices", "org", "nets", "svcs", "done", "failed"}
  BY DEF IInv, TypeOK
<1>2. CASE pc = "indices"
  BY <1>2, BoundParts DEF StepsLeft
<1>3. CASE pc = "org"
  BY <1>3, BoundParts DEF StepsLeft
<1>4. CASE pc = "nets"
  <2>1. StepsLeft = (Len(Orgs) - o) * StepsPerOrg + OctetsLeft + Len(Services) + 3
    BY <1>4 DEF StepsLeft
  <2>2. /\ o <= Len(Orgs) /\ (Len(Orgs) - o) * StepsPerOrg \in Nat
        /\ OctetsLeft \in Nat /\ Len(Services) \in Nat
        /\ s \in Nat /\ s <= Len(Services) + 1
    BY <1>4, BoundParts
  <2> QED
    BY <1>4, <2>1, <2>2
<1>5. CASE pc = "svcs"
  <2>1. StepsLeft = (Len(Orgs) - o) * StepsPerOrg + (Len(Services) + 1 - s) + 2
    BY <1>5 DEF StepsLeft
  <2>2. /\ o <= Len(Orgs) /\ (Len(Orgs) - o) * StepsPerOrg \in Nat
        /\ OctetsLeft \in Nat /\ Len(Services) \in Nat
        /\ s \in Nat /\ s <= Len(Services) + 1
    BY <1>5, BoundParts
  <2> QED
    BY <1>5, <2>1, <2>2
<1>6. CASE pc \in {"done", "failed"}
  BY <1>6 DEF StepsLeft
<1> QED
  BY <1>1, <1>2, <1>3, <1>4, <1>5, <1>6

(* The call ends after at most as many steps as StepsLeft says: each takes *)
(* an octet from a pool, passes a service, or merges an organization       *)
(* (_next_cidr, _allocate_svc_ips, allocate).                              *)
THEOREM AllocationRunsDown ==
  Spec => /\ [](StepsLeft \in Nat /\ (StepsLeft = 0 <=> pc \in {"done", "failed"}))
          /\ [][StepsLeft' < StepsLeft]_vars
<1>1. IInv => StepsLeft \in Nat /\ (StepsLeft = 0 <=> pc \in {"done", "failed"})
  BY StepsLeftType
<1>2. ASSUME IInv, IInv', Next PROVE StepsLeft' < StepsLeft
  <2>0. city' = city /\ Orgs' = Orgs /\ Services' = Services /\ StepsPerOrg' = StepsPerOrg
    BY <1>2, CityFixed DEF Orgs, Services, StepsPerOrg
  <2> DEFINE size  == Len(Orgs)
             width == Len(Services)
  <2>1. /\ size \in Nat /\ width \in Nat /\ MgmtThird \in Nat
        /\ o \in Nat /\ s \in Nat /\ s <= width + 1 /\ o <= size + 1
        /\ pc \in {"nets", "svcs"} => o <= size
        /\ OctetsLeft \in Nat /\ StepsPerOrg \in Nat
        /\ size * StepsPerOrg \in Nat
        /\ (size + 1 - o) * StepsPerOrg \in Nat
        /\ (size + 1 - o) * StepsPerOrg <= size * StepsPerOrg
        /\ o <= size => /\ (size - o) * StepsPerOrg \in Nat
                        /\ (size + 1 - o) * StepsPerOrg
                             = (size - o) * StepsPerOrg + StepsPerOrg
    BY <1>2, BoundParts
  <2>2. StepsPerOrg = MgmtThird + width + 4
    BY DEF StepsPerOrg
  <2>3. CASE TooManyOrganizations \/ NoSubnetLeft \/ NoHostLeft \/ Return
    <3>1. pc \notin {"done", "failed"} /\ pc' \in {"done", "failed"}
      BY <2>3 DEF TooManyOrganizations, NoSubnetLeft, NoHostLeft, Return, NextNetwork, AtService
    <3>2. StepsLeft' = 0 /\ StepsLeft \in Nat \ {0}
      BY <1>2, <3>1, StepsLeftType DEF StepsLeft
    <3> QED
      BY <3>2
  <2>4. CASE AssignIndices
    <3>1. pc = "indices" /\ pc' = "org" /\ o' = o
      BY <2>4 DEF AssignIndices
    <3>2. /\ StepsLeft = size * StepsPerOrg + 2
          /\ StepsLeft' = (size + 1 - o) * StepsPerOrg + 1
      BY <2>0, <3>1 DEF StepsLeft
    <3> QED
      BY <2>1, <3>2
  <2>5. CASE StartOrganization
    <3>1. /\ pc = "org" /\ pc' = "nets" /\ o' = o /\ o <= size
          /\ front' = 0 /\ back' = BackFirst /\ mgmt_used' = FALSE
      BY <2>5 DEF StartOrganization
    <3>2. OctetsLeft' = MgmtThird + 1
      BY <3>1, PlanAssumption DEF OctetsLeft
    <3>3. /\ StepsLeft = (size + 1 - o) * StepsPerOrg + 1
          /\ StepsLeft' = (size - o) * StepsPerOrg + OctetsLeft' + width + 3
      BY <2>0, <3>1 DEF StepsLeft
    <3> QED
      BY <2>1, <2>2, <3>1, <3>2, <3>3
  <2>6. CASE TakeFront \/ TakeBack \/ TakeMgmt
    <3>1. /\ pc = "nets" /\ pc' = "nets" /\ o' = o
          /\ \/ front' = front + 1 /\ UNCHANGED <<back, mgmt_used>>
             \/ back' = back + 1 /\ UNCHANGED <<front, mgmt_used>>
             \/ ~ mgmt_used /\ mgmt_used' /\ UNCHANGED <<front, back>>
      BY <2>6 DEF TakeFront, TakeBack, TakeMgmt, TakeThird, NextNetwork
    <3>2. front \in Nat /\ back \in Nat /\ BackFirst \in Nat /\ MgmtThird \in Nat
      BY <1>2, PlanAssumption DEF IInv, TypeOK
    <3>3. OctetsLeft' = OctetsLeft - 1
      <4> DEFINE mgmt == IF mgmt_used THEN 0 ELSE 1
      <4>1. mgmt \in Nat /\ mgmt' \in Nat
        OBVIOUS
      <4>2. \/ front' = front + 1 /\ back' = back /\ mgmt' = mgmt
            \/ front' = front /\ back' = back + 1 /\ mgmt' = mgmt
            \/ front' = front /\ back' = back /\ mgmt' = mgmt - 1
        BY <3>1
      <4>3. /\ OctetsLeft = (BackFirst - front) + (MgmtThird - back) + mgmt
            /\ OctetsLeft' = (BackFirst - front') + (MgmtThird - back') + mgmt'
        BY DEF OctetsLeft
      <4> HIDE DEF mgmt
      <4> QED
        <5>1. CASE front' = front + 1 /\ back' = back /\ mgmt' = mgmt
          BY <3>2, <4>1, <4>3, <5>1
        <5>2. CASE front' = front /\ back' = back + 1 /\ mgmt' = mgmt
          BY <3>2, <4>1, <4>3, <5>2
        <5>3. CASE front' = front /\ back' = back /\ mgmt' = mgmt - 1
          BY <3>2, <4>1, <4>3, <5>3
        <5> QED
          BY <4>2, <5>1, <5>2, <5>3
    <3>4. /\ StepsLeft = (size - o) * StepsPerOrg + OctetsLeft + width + 3
          /\ StepsLeft' = (size - o) * StepsPerOrg + OctetsLeft' + width + 3
      BY <2>0, <3>1 DEF StepsLeft
    <3> QED
      BY <2>1, <3>1, <3>3, <3>4
  <2>7. CASE StartServices
    <3>1. pc = "nets" /\ pc' = "svcs" /\ o' = o /\ s' = 1
      BY <2>7 DEF StartServices
    <3>2. /\ StepsLeft = (size - o) * StepsPerOrg + OctetsLeft + width + 3
          /\ StepsLeft' = (size - o) * StepsPerOrg + (width + 1 - s') + 2
      BY <2>0, <3>1 DEF StepsLeft
    <3> QED
      BY <2>1, <3>1, <3>2
  <2>8. CASE SkipService \/ BindService
    <3>1. pc = "svcs" /\ pc' = "svcs" /\ o' = o /\ s' = s + 1
      BY <2>8 DEF SkipService, BindService, AtService
    <3>2. /\ StepsLeft = (size - o) * StepsPerOrg + (width + 1 - s) + 2
          /\ StepsLeft' = (size - o) * StepsPerOrg + (width + 1 - s') + 2
      BY <2>0, <3>1 DEF StepsLeft
    <3> QED
      BY <2>1, <3>1, <3>2
  <2>9. CASE MergeOrganization
    <3>1. pc = "svcs" /\ pc' = "org" /\ o' = o + 1 /\ s > width
      BY <2>9 DEF MergeOrganization
    <3>2. size + 1 - (o + 1) = size - o /\ s = width + 1
      BY <2>1, <3>1
    <3>3. /\ StepsLeft = (size - o) * StepsPerOrg + (width + 1 - s) + 2
          /\ StepsLeft' = (size - o) * StepsPerOrg + 1
      BY <2>0, <3>1, <3>2 DEF StepsLeft
    <3> QED
      BY <2>1, <3>1, <3>2, <3>3
  <2> QED
    BY <1>2, <2>3, <2>4, <2>5, <2>6, <2>7, <2>8, <2>9 DEF Next
<1>3. IInv /\ IInv' /\ [Next]_vars => [StepsLeft' < StepsLeft]_vars
  BY <1>2
<1> QED
  BY <1>1, <1>3, Invariant, PTL DEF Spec

=============================================================================
