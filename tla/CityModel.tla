------------------------------ MODULE CityModel ------------------------------
(***************************************************************************)
(* The declarative city (domain/models.py) as the allocator, the loader    *)
(* and the checker see it: organizations with their networks, services and *)
(* links, each list in file order.  Only the fields that some guard reads  *)
(* are kept.  Identifiers are opaque values.                               *)
(***************************************************************************)
EXTENDS Naturals, FiniteSets, Sequences, Functions

NetworkKind == {"dmz", "internet", "lan", "ot", "mgmt"}
Exposure    == {"public", "intranet", "ot", "mgmt"}

(* Every criticality but "critical" is the same to the rules.              *)
Criticality == {"critical", "medium"}

(* The link kinds a rule tells apart: the two write kinds, and one that    *)
(* stands for the others.                                                  *)
LinkKind    == {"db-write", "backup-of", "api-call"}

(* service.network_id is None                                              *)
NoNetwork == "none"

Network(NetId) == [id : NetId, kind : NetworkKind]

Organization(OrgId, NetId) == [id : OrgId, networks : Seq(Network(NetId))]

Service(OrgId, NetId, SvcId) ==
  [id : SvcId, org_id : OrgId, network_id : NetId \cup {NoNetwork},
   exposure : Exposure, criticality : Criticality, honeypot : BOOLEAN]

Link(SvcId) == [from_service : SvcId, to_service : SvcId, kind : LinkKind]

CityNetwork(OrgId, NetId, SvcId) ==
  [organizations : Seq(Organization(OrgId, NetId)),
   services      : Seq(Service(OrgId, NetId, SvcId)),
   links         : Seq(Link(SvcId))]

-----------------------------------------------------------------------------
(* Lists and dicts of the source.                                          *)

Ids(items) == {items[i].id : i \in DOMAIN items}

(* Counter(ids) finds no id twice.                                         *)
DistinctIds(items) ==
  \A i, j \in DOMAIN items : items[i].id = items[j].id => i = j

(* The element a dict built over the list keeps for a key: the last one.   *)
LastWithId(items, id) ==
  CHOOSE i \in DOMAIN items :
    /\ items[i].id = id
    /\ \A j \in DOMAIN items : items[j].id = id => j <= i

(* d[k] = v                                                                *)
Assigned(d, k, v) == [x \in DOMAIN d \cup {k} |-> IF x = k THEN v ELSE d[x]]

(* d.update(e)                                                             *)
Updated(d, e) ==
  [x \in DOMAIN d \cup DOMAIN e |-> IF x \in DOMAIN e THEN e[x] ELSE d[x]]

EmptyDict == [x \in {} |-> 0]

(* [items[i] for i in range(len(items)) if i in places]: the k-th element  *)
(* is the one at the place up to which there are k places.                 *)
PlaceOf(places, k) ==
  CHOOSE i \in places : Cardinality({j \in places : j <= i}) = k

Selected(items, places) ==
  [k \in 1 .. Cardinality(places) |-> items[PlaceOf(places, k)]]

-----------------------------------------------------------------------------
(* Views of a city.                                                        *)

OrgIds(city) == Ids(city.organizations)

SvcIds(city) == Ids(city.services)

(* The places of all the networks: <<o, n>> is networks[n] of org o.       *)
NetPlaces(city) ==
  UNION {{o} \X DOMAIN city.organizations[o].networks :
           o \in DOMAIN city.organizations}

NetAt(city, p) == city.organizations[p[1]].networks[p[2]]

NetIds(city) == {NetAt(city, p).id : p \in NetPlaces(city)}

DistinctNetIds(city) ==
  \A p, q \in NetPlaces(city) : NetAt(city, p).id = NetAt(city, q).id => p = q

(* p is listed after q, or is q.                                           *)
NotBefore(p, q) == p[1] > q[1] \/ (p[1] = q[1] /\ p[2] >= q[2])

(* The network {n.id: n for o in organizations for n in o.networks} keeps. *)
NetById(city, id) ==
  NetAt(city, CHOOSE p \in NetPlaces(city) :
                /\ NetAt(city, p).id = id
                /\ \A q \in NetPlaces(city) :
                     NetAt(city, q).id = id => NotBefore(p, q))

=============================================================================
