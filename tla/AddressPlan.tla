----------------------------- MODULE AddressPlan -----------------------------
(***************************************************************************)
(* The address plan of domain/allocator.py in closed form: which subnet    *)
(* and which host address every network and service of a city gets, given  *)
(* the shuffled organization indices, and which cities have a plan at all. *)
(* Module Allocator computes it loop by loop; module Validate uses it as   *)
(* one step.                                                               *)
(*                                                                         *)
(* A CIDR "10.<index>.<third>.0/24" is the pair <<index, third>>, an       *)
(* address "10.<index>.<third>.<host>" the triple <<index, third, host>>:  *)
(* the formatting is injective, and splitting the text gives the same      *)
(* numbers back.                                                           *)
(***************************************************************************)
EXTENDS CityModel

CONSTANTS
  MaxIndex,      \* organization indices are 1 .. MaxIndex (255)
  BackFirst,     \* front subnets are 0 .. BackFirst - 1 (128)
  MgmtThird,     \* back subnets are BackFirst .. MgmtThird - 1 (253)
  FirstHost,     \* the first host address of a subnet (10)
  TotalHosts     \* addresses in a /24 (256); the last is the broadcast

ASSUME PlanAssumption ==
  /\ MaxIndex \in Nat \ {0}
  /\ BackFirst \in Nat
  /\ MgmtThird \in Nat
  /\ BackFirst <= MgmtThird
  /\ FirstHost \in Nat \ {0}
  /\ TotalHosts \in Nat
  /\ FirstHost <= TotalHosts - 1

FrontKinds == {"dmz", "internet"}
BackKinds  == {"lan", "ot"}
MgmtKinds  == {"mgmt"}

Third    == 0 .. MgmtThird
LastHost == TotalHosts - 2
Cidr     == (1 .. MaxIndex) \X Third
Address  == (1 .. MaxIndex) \X Third \X (FirstHost .. LastHost)

-----------------------------------------------------------------------------
(* random.Random(seed).shuffle, cut to its first k entries.                *)
Shuffles(k) == Injection(1 .. k, 1 .. MaxIndex)

(* {org_id: indices[i] for i, org_id in enumerate(org_ids)}                *)
OrgIndex(city, indices) ==
  [id \in OrgIds(city) |-> indices[LastWithId(city.organizations, id)]]

(* How many of the first k networks are of these kinds.                    *)
CountKinds(networks, k, kinds) ==
  Cardinality({m \in 1 .. k : networks[m].kind \in kinds})

(* The third octet network n of its organization gets.                     *)
ThirdOf(networks, n) ==
  CASE networks[n].kind \in FrontKinds ->
         CountKinds(networks, n - 1, FrontKinds)
    [] networks[n].kind \in BackKinds ->
         BackFirst + CountKinds(networks, n - 1, BackKinds)
    [] networks[n].kind \in MgmtKinds -> MgmtThird

OrgCidrs(org, index) ==
  [id \in Ids(org.networks) |->
     <<index, ThirdOf(org.networks, LastWithId(org.networks, id))>>]

(* The service is addressed when its organization is processed.            *)
Binds(org, svc) == svc.org_id = org.id /\ svc.network_id \in Ids(org.networks)

(* The services before s that took an address of the same subnet.          *)
Ahead(city, org, s) ==
  {t \in 1 .. s - 1 :
     /\ Binds(org, city.services[t])
     /\ city.services[t].network_id = city.services[s].network_id}

HostOf(city, org, s) == FirstHost + Cardinality(Ahead(city, org, s))

OrgBound(city, org) ==
  {s \in DOMAIN city.services : Binds(org, city.services[s])}

(* The service whose address stays in the dict under its id.               *)
LastBound(city, org, id) ==
  CHOOSE s \in OrgBound(city, org) :
    /\ city.services[s].id = id
    /\ \A t \in OrgBound(city, org) : city.services[t].id = id => t <= s

OrgAddresses(city, org, index) ==
  [id \in {city.services[s].id : s \in OrgBound(city, org)} |->
     LET s    == LastBound(city, org, id)
         cidr == OrgCidrs(org, index)[city.services[s].network_id]
     IN  <<cidr[1], cidr[2], HostOf(city, org, s)>>]

-----------------------------------------------------------------------------
(* The dicts of the organizations, merged in order: a key that several     *)
(* organizations have keeps the last one's value.                          *)
LastWithKey(dicts, k) ==
  CHOOSE o \in DOMAIN dicts :
    /\ k \in DOMAIN dicts[o]
    /\ \A p \in DOMAIN dicts : k \in DOMAIN dicts[p] => p <= o

Merged(dicts) ==
  [k \in UNION {DOMAIN dicts[o] : o \in DOMAIN dicts} |->
     dicts[LastWithKey(dicts, k)][k]]

Plan(city, indices) ==
  LET orgs  == city.organizations
      index == OrgIndex(city, indices)
  IN  [org_index |-> index,
       net_cidr  |-> Merged([o \in DOMAIN orgs |->
                               OrgCidrs(orgs[o], index[orgs[o].id])]),
       svc_ip    |-> Merged([o \in DOMAIN orgs |->
                               OrgAddresses(city, orgs[o], index[orgs[o].id])])]

(* The city is within every limit; otherwise allocate raises               *)
(* AllocationError.                                                        *)
OrgFits(city, org) ==
  LET Total(kinds) == CountKinds(org.networks, Len(org.networks), kinds)
  IN  /\ Total(FrontKinds) <= BackFirst
      /\ Total(BackKinds) <= MgmtThird - BackFirst
      /\ Total(MgmtKinds) <= 1
      /\ \A s \in OrgBound(city, org) : HostOf(city, org, s) <= LastHost

Fits(city) ==
  /\ Len(city.organizations) <= MaxIndex
  /\ \A o \in DOMAIN city.organizations : OrgFits(city, city.organizations[o])

=============================================================================
