------------------------------ MODULE PlanProofs ------------------------------
(***************************************************************************)
(* Proofs about the operators of CityModel, AddressPlan and Checker, for   *)
(* every city: which address every network and service gets, that in a     *)
(* city with distinct ids the plan satisfies every rule about addresses,   *)
(* that in any city the rules find the same whatever is drawn, and what    *)
(* the sizes of disjoint parts add up to.                                  *)
(***************************************************************************)
EXTENDS AddressPlan, Checker, FiniteSetTheorems, SequenceTheorems, TLAPS

-----------------------------------------------------------------------------
(* Finite sets of places.                                                  *)

(* A proper part of a finite set has fewer elements.                       *)
LEMMA ProperPart ==
  ASSUME NEW B, IsFiniteSet(B), NEW A \in SUBSET B, NEW x \in B, x \notin A
  PROVE  /\ IsFiniteSet(A)
         /\ Cardinality(A) \in Nat /\ Cardinality(B) \in Nat
         /\ Cardinality(A) < Cardinality(B)
<1>1. IsFiniteSet(A) /\ Cardinality(A) <= Cardinality(B) /\ Cardinality(A) # Cardinality(B)
  BY FS_Subset
<1>2. Cardinality(A) \in Nat /\ Cardinality(B) \in Nat
  BY <1>1, FS_CardinalityType
<1> QED
  BY <1>1, <1>2

(* The first n numbers are n.                                              *)
LEMMA FirstNumbers ==
  ASSUME NEW n \in Nat
  PROVE  IsFiniteSet(1 .. n) /\ Cardinality(1 .. n) = n
BY FS_Interval

(* The places of a list are finitely many.                                 *)
LEMMA PlacesFinite ==
  ASSUME NEW k \in Nat, NEW A \in SUBSET (1 .. k)
  PROVE  IsFiniteSet(A) /\ Cardinality(A) \in 0 .. k
<1>1. IsFiniteSet(1 .. k) /\ Cardinality(1 .. k) = k
  BY FS_Interval
<1>2. IsFiniteSet(A) /\ Cardinality(A) <= k
  BY <1>1, FS_Subset
<1> QED
  BY <1>2, FS_CardinalityType

(* The k-th of a set of places exists and is the only one: the number of   *)
(* places up to each of them grows from 1 to all.                          *)
LEMMA PlaceOfRank ==
  ASSUME NEW n \in Nat, NEW A \in SUBSET (1 .. n)
  PROVE  /\ \A k \in 1 .. Cardinality(A) :
              /\ PlaceOf(A, k) \in A
              /\ Cardinality({j \in A : j <= PlaceOf(A, k)}) = k
         /\ \A i \in A : /\ Cardinality({j \in A : j <= i}) \in 1 .. Cardinality(A)
                         /\ PlaceOf(A, Cardinality({j \in A : j <= i})) = i
<1> DEFINE upto(i) == {j \in A : j <= i}
           rank    == [i \in A |-> Cardinality(upto(i))]
<1>1. IsFiniteSet(A) /\ Cardinality(A) \in Nat
  BY PlacesFinite
<1>2. ASSUME NEW i \in A
      PROVE  Cardinality(upto(i)) \in 1 .. Cardinality(A)
  <2>1. upto(i) \in SUBSET A /\ i \in upto(i)
    OBVIOUS
  <2>2. IsFiniteSet(upto(i)) /\ Cardinality(upto(i)) <= Cardinality(A)
    BY <1>1, <2>1, FS_Subset
  <2>3. Cardinality(upto(i)) \in Nat /\ Cardinality(upto(i)) # 0
    BY <2>1, <2>2, FS_CardinalityType, FS_EmptySet
  <2> QED
    BY <1>1, <2>2, <2>3
<1>3. ASSUME NEW i \in A, NEW k \in A, i < k
      PROVE  Cardinality(upto(i)) < Cardinality(upto(k))
  <2>0. A \subseteq Nat
    OBVIOUS
  <2>1. upto(i) \in SUBSET upto(k) /\ k \in upto(k) /\ k \notin upto(i)
    <3>1. \A j \in A : j <= i => j <= k
      BY <1>3, <2>0
    <3>2. k <= k /\ ~ (k <= i)
      BY <1>3, <2>0
    <3> QED
      BY <3>1, <3>2
  <2>2. upto(k) \in SUBSET (1 .. n)
    OBVIOUS
  <2>3. IsFiniteSet(upto(k))
    BY <2>2, PlacesFinite
  <2> QED
    BY <2>1, <2>3, ProperPart
<1>4. \A i, k \in A : Cardinality(upto(i)) = Cardinality(upto(k)) => i = k
  <2> SUFFICES ASSUME NEW i \in A, NEW k \in A, i # k
               PROVE  Cardinality(upto(i)) # Cardinality(upto(k))
    OBVIOUS
  <2>1. i \in Nat /\ k \in Nat
    OBVIOUS
  <2>2. Cardinality(upto(i)) \in Nat /\ Cardinality(upto(k)) \in Nat
    BY <1>1, <1>2
  <2>3. CASE i < k
    BY <1>3, <2>2, <2>3
  <2>4. CASE k < i
    BY <1>3, <2>2, <2>4
  <2> QED
    BY <2>1, <2>3, <2>4
<1>5. rank \in Injection(A, 1 .. Cardinality(A))
  BY <1>2, <1>4 DEF Injection, IsInjective
<1>6. IsFiniteSet(1 .. Cardinality(A)) /\ Cardinality(1 .. Cardinality(A)) = Cardinality(A)
  BY <1>1, FS_Interval
<1>7. rank \in Surjection(A, 1 .. Cardinality(A))
  <2> HIDE DEF rank
  <2> QED
    BY <1>5, <1>6, FS_Injection
<1>8. \A k \in 1 .. Cardinality(A) : \E i \in A : Cardinality(upto(i)) = k
  BY <1>7 DEF Surjection
<1>9. \A k \in 1 .. Cardinality(A) :
        PlaceOf(A, k) \in A /\ Cardinality(upto(PlaceOf(A, k))) = k
  BY <1>8 DEF PlaceOf
<1> HIDE DEF upto
<1>10. \A i \in A : PlaceOf(A, Cardinality(upto(i))) = i
  BY <1>2, <1>4, <1>9
<1> QED
  BY <1>2, <1>9, <1>10 DEF upto

(* A list comprehension with a condition keeps exactly the elements that   *)
(* meet it, each once, and all of them when they all do.                   *)
LEMMA SelectedFacts ==
  ASSUME NEW T, NEW items \in Seq(T), NEW A \in SUBSET DOMAIN items
  PROVE  /\ Len(Selected(items, A)) \in Nat
         /\ DOMAIN Selected(items, A) = 1 .. Len(Selected(items, A))
         /\ \A k \in DOMAIN Selected(items, A) :
              \E i \in A : Selected(items, A)[k] = items[i]
         /\ \A i \in A : \E k \in DOMAIN Selected(items, A) :
              Selected(items, A)[k] = items[i]
         /\ IsInjective(items) => IsInjective(Selected(items, A))
         /\ A = DOMAIN items => Selected(items, A) = items
         /\ \A U : (\A i \in A : items[i] \in U) => Selected(items, A) \in Seq(U)
<1> DEFINE n   == Len(items)
           sel == Selected(items, A)
<1>1. n \in Nat /\ DOMAIN items = 1 .. n /\ items \in [1 .. n -> T]
  OBVIOUS
<1>2. Cardinality(A) \in 0 .. n /\ A \in SUBSET (1 .. n)
  BY <1>1, PlacesFinite
<1>3. /\ DOMAIN sel = 1 .. Cardinality(A)
      /\ \A k \in 1 .. Cardinality(A) : sel[k] = items[PlaceOf(A, k)]
  BY DEF Selected
<1>4. \A k \in 1 .. Cardinality(A) :
        /\ PlaceOf(A, k) \in A
        /\ Cardinality({j \in A : j <= PlaceOf(A, k)}) = k
  BY <1>1, <1>2, PlaceOfRank
<1>5a. \A i \in A : /\ Cardinality({j \in A : j <= i}) \in 1 .. Cardinality(A)
                    /\ PlaceOf(A, Cardinality({j \in A : j <= i})) = i
  BY <1>1, <1>2, PlaceOfRank
<1>5. \A i \in A : \E k \in 1 .. Cardinality(A) : PlaceOf(A, k) = i
  BY <1>5a
<1>6. ASSUME NEW U, \A i \in A : items[i] \in U
      PROVE  sel \in Seq(U)
  <2>1. sel \in [1 .. Cardinality(A) -> U]
    BY <1>4, <1>6 DEF Selected
  <2> QED
    BY <1>2, <2>1, SeqDef
<1>7. Len(sel) = Cardinality(A)
  <2>1. sel \in Seq(T)
    BY <1>1, <1>2, <1>6
  <2> QED
    BY <1>2, <1>3, <2>1, LenProperties
<1>8. IsInjective(items) => IsInjective(sel)
  <2> SUFFICES ASSUME IsInjective(items), NEW k \in 1 .. Cardinality(A),
                      NEW l \in 1 .. Cardinality(A), sel[k] = sel[l]
               PROVE  k = l
    BY <1>3 DEF IsInjective
  <2>1. PlaceOf(A, k) = PlaceOf(A, l)
    BY <1>1, <1>3, <1>4 DEF IsInjective
  <2> QED
    BY <2>1, <1>4
<1>9. A = DOMAIN items => sel = items
  <2> SUFFICES ASSUME A = 1 .. n PROVE sel = items
    BY <1>1
  <2>1. Cardinality(A) = n
    <3>1. Cardinality(1 .. n) = n
      BY <1>1, FirstNumbers
    <3> QED
      BY <3>1
  <2>2. ASSUME NEW k \in 1 .. n PROVE PlaceOf(A, k) = k
    <3>1. {j \in A : j <= k} = 1 .. k
      BY <1>1
    <3>2. Cardinality({j \in A : j <= k}) = k
      <4>1. Cardinality(1 .. k) = k
        BY <1>1, FirstNumbers
      <4> QED
        BY <3>1, <4>1
    <3> QED
      BY <1>5a, <3>2
  <2>3. sel \in Seq(T)
    BY <1>1, <1>2, <1>6
  <2> QED
    BY <1>1, <1>3, <1>7, <2>1, <2>2, <2>3
<1> HIDE DEF sel
<1>10. \A k \in DOMAIN sel : \E i \in A : sel[k] = items[i]
  BY <1>3, <1>4
<1>11. \A i \in A : \E k \in DOMAIN sel : sel[k] = items[i]
  BY <1>3, <1>5
<1> QED
  BY <1>2, <1>3, <1>6, <1>7, <1>8, <1>9, <1>10, <1>11 DEF sel

-----------------------------------------------------------------------------
(* Cities.                                                                 *)

(* What domain/models.py accepts, whatever the identifiers are.            *)
IsCity(c) == \E O, N, S : c \in CityNetwork(O, N, S)

(* The lists of a city are sequences of records with the fields of the     *)
(* source.                                                                 *)
LEMMA CityLists ==
  ASSUME NEW c, IsCity(c)
  PROVE  /\ Len(c.organizations) \in Nat
         /\ Len(c.services) \in Nat
         /\ Len(c.links) \in Nat
         /\ DOMAIN c.organizations = 1 .. Len(c.organizations)
         /\ DOMAIN c.services = 1 .. Len(c.services)
         /\ DOMAIN c.links = 1 .. Len(c.links)
<1>1. PICK O, N, S : c \in CityNetwork(O, N, S)
  BY DEF IsCity
<1>2. /\ c.organizations \in Seq(Organization(O, N))
      /\ c.services \in Seq(Service(O, N, S))
      /\ c.links \in Seq(Link(S))
  BY <1>1 DEF CityNetwork
<1> QED
  BY <1>2

(* So is an organization's list of networks, each of a known kind.         *)
LEMMA OrganizationLists ==
  ASSUME NEW c, IsCity(c), NEW o \in DOMAIN c.organizations
  PROVE  /\ o \in Nat \ {0}
         /\ Len(c.organizations[o].networks) \in Nat
         /\ DOMAIN c.organizations[o].networks = 1 .. Len(c.organizations[o].networks)
         /\ \A n \in DOMAIN c.organizations[o].networks :
              n \in Nat \ {0} /\ c.organizations[o].networks[n].kind \in NetworkKind
<1> DEFINE org == c.organizations[o]
<1>1. PICK O, N, S : c \in CityNetwork(O, N, S)
  BY DEF IsCity
<1>2. c.organizations \in Seq(Organization(O, N))
  BY <1>1 DEF CityNetwork
<1>3. org \in Organization(O, N) /\ o \in Nat \ {0}
  BY <1>2
<1>4. org.networks \in Seq(Network(N))
  BY <1>3 DEF Organization
<1> HIDE DEF org
<1>5. Len(org.networks) \in Nat /\ DOMAIN org.networks = 1 .. Len(org.networks)
  BY <1>4
<1>6. ASSUME NEW n \in DOMAIN org.networks
      PROVE  n \in Nat \ {0} /\ org.networks[n].kind \in NetworkKind
  <2>1. org.networks[n] \in Network(N)
    BY <1>4
  <2> QED
    BY <1>5, <2>1 DEF Network
<1> QED
  BY <1>3, <1>5, <1>6 DEF org

(* A service has one of the four exposures.                                *)
LEMMA ServiceFields ==
  ASSUME NEW c, IsCity(c), NEW s \in DOMAIN c.services
  PROVE  /\ s \in Nat \ {0}
         /\ c.services[s].exposure \in Exposure
         /\ c.services[s].honeypot \in BOOLEAN
<1>1. PICK O, N, S : c \in CityNetwork(O, N, S)
  BY DEF IsCity
<1>2. c.services \in Seq(Service(O, N, S))
  BY <1>1 DEF CityNetwork
<1>3. c.services[s] \in Service(O, N, S) /\ s \in Nat \ {0}
  BY <1>2
<1> QED
  BY <1>3 DEF Service

(* An id that nothing else has is found where it stands.                   *)
LEMMA LastOfDistinct ==
  ASSUME NEW items, DistinctIds(items), DOMAIN items \subseteq Nat,
         NEW i \in DOMAIN items
  PROVE  LastWithId(items, items[i].id) = i
<1>1. \A j \in DOMAIN items : items[j].id = items[i].id => j = i
  BY DEF DistinctIds
<1>2. \A j \in DOMAIN items : items[j].id = items[i].id => j <= i
  BY <1>1
<1> QED
  BY <1>1, <1>2 DEF LastWithId

(* A place of a network is a position in one of the organizations.         *)
LEMMA Places ==
  ASSUME NEW c
  PROVE  \A p : p \in NetPlaces(c) <=>
           /\ p = <<p[1], p[2]>>
           /\ p[1] \in DOMAIN c.organizations
           /\ p[2] \in DOMAIN c.organizations[p[1]].networks
BY DEF NetPlaces

(* No two organizations, networks or services have one id: what rule `ids` *)
(* asks for of them.                                                       *)
AllDistinct(c) ==
  DistinctIds(c.organizations) /\ DistinctNetIds(c) /\ DistinctIds(c.services)

(* Rule `ids` reports no id of the list: it has each once.                 *)
LEMMA NoRepetition ==
  ASSUME NEW items, Repeated(items) = {}
  PROVE  DistinctIds(items)
BY DEF Repeated, DistinctIds

(* A city that breaks rule `ids` nowhere has distinct ids.                 *)
LEMMA IdsRuleDistinct ==
  ASSUME NEW c, IdsRule(c) = {}
  PROVE  AllDistinct(c)
<1> DEFINE nets == {NetAt(c, p).id : p \in
                     {q \in NetPlaces(c) : \E r \in NetPlaces(c) :
                        r # q /\ NetAt(c, r).id = NetAt(c, q).id}}
<1>1. /\ Issues("ids", {"organizations"} \X Repeated(c.organizations)) = {}
      /\ Issues("ids", {"networks"} \X nets) = {}
      /\ Issues("ids", {"services"} \X Repeated(c.services)) = {}
  BY DEF IdsRule
<1>2. \A A, x : Issues("ids", {x} \X A) = {} => A = {}
  <2>1. \A A, x : \A a \in A : <<"ids", <<x, a>>>> \in Issues("ids", {x} \X A)
    BY DEF Issues
  <2> QED
    BY <2>1
<1>3. Repeated(c.organizations) = {} /\ Repeated(c.services) = {} /\ nets = {}
  BY <1>1, <1>2
<1>4. DistinctNetIds(c)
  BY <1>3 DEF DistinctNetIds
<1> QED
  BY <1>3, <1>4, NoRepetition DEF AllDistinct

(* The networks of one organization are among the networks of the city.    *)
LEMMA OwnNetworks ==
  ASSUME NEW c, DistinctNetIds(c), NEW o \in DOMAIN c.organizations
  PROVE  /\ DistinctIds(c.organizations[o].networks)
         /\ \A q \in DOMAIN c.organizations :
              q # o => Ids(c.organizations[o].networks) \cap Ids(c.organizations[q].networks) = {}
<1> DEFINE nets(q) == c.organizations[q].networks
<1>1. \A q \in DOMAIN c.organizations : \A m \in DOMAIN nets(q) :
        <<q, m>> \in NetPlaces(c) /\ NetAt(c, <<q, m>>) = nets(q)[m]
  BY DEF NetPlaces, NetAt
<1>2. \A q, r \in DOMAIN c.organizations :
        \A m \in DOMAIN nets(q) : \A l \in DOMAIN nets(r) :
          nets(q)[m].id = nets(r)[l].id => q = r /\ m = l
  <2> SUFFICES ASSUME NEW q \in DOMAIN c.organizations, NEW r \in DOMAIN c.organizations,
                      NEW m \in DOMAIN nets(q), NEW l \in DOMAIN nets(r),
                      nets(q)[m].id = nets(r)[l].id
               PROVE  q = r /\ m = l
    OBVIOUS
  <2>1. <<q, m>> = <<r, l>>
    BY <1>1 DEF DistinctNetIds
  <2> QED
    BY <2>1
<1> QED
  BY <1>2 DEF DistinctIds, Ids

-----------------------------------------------------------------------------
(* Third octets.                                                           *)

(* A count is a number.                                                    *)
LEMMA CountKindsType ==
  ASSUME NEW nets, NEW k \in Nat, NEW kinds
  PROVE  CountKinds(nets, k, kinds) \in Nat
<1>1. {m \in 1 .. k : nets[m].kind \in kinds} \in SUBSET (1 .. k)
  OBVIOUS
<1>2. Cardinality({m \in 1 .. k : nets[m].kind \in kinds}) \in 0 .. k
  BY <1>1, PlacesFinite
<1> QED
  BY <1>2 DEF CountKinds

(* A network of these kinds is counted from its place on.                  *)
LEMMA CountKindsGrows ==
  ASSUME NEW nets, NEW n \in Nat \ {0}, NEW k \in Nat, n <= k,
         NEW kinds, nets[n].kind \in kinds
  PROVE  CountKinds(nets, n - 1, kinds) < CountKinds(nets, k, kinds)
<1> DEFINE counted(l) == {m \in 1 .. l : nets[m].kind \in kinds}
<1>1. \A m \in 1 .. n - 1 : m \in 1 .. k
  OBVIOUS
<1>2. counted(n - 1) \in SUBSET counted(k)
  BY <1>1
<1>3. n \in counted(k) /\ n \notin counted(n - 1)
  OBVIOUS
<1>4. counted(k) \in SUBSET (1 .. k)
  OBVIOUS
<1>5. IsFiniteSet(counted(k))
  BY <1>4, PlacesFinite
<1> HIDE DEF counted
<1>6. Cardinality(counted(n - 1)) < Cardinality(counted(k))
  BY <1>2, <1>3, <1>5, ProperPart
<1> QED
  BY <1>6 DEF CountKinds, counted

(* Every kind belongs to one pool.                                         *)
LEMMA KindsOfPools ==
  /\ NetworkKind = FrontKinds \cup BackKinds \cup MgmtKinds
  /\ FrontKinds \cap BackKinds = {} /\ FrontKinds \cap MgmtKinds = {}
  /\ BackKinds \cap MgmtKinds = {}
BY DEF NetworkKind, FrontKinds, BackKinds, MgmtKinds

(* Each kind draws from its own pool.                                      *)
LEMMA ThirdOfKind ==
  ASSUME NEW nets, NEW n
  PROVE  /\ nets[n].kind \in FrontKinds =>
              ThirdOf(nets, n) = CountKinds(nets, n - 1, FrontKinds)
         /\ nets[n].kind \in BackKinds =>
              ThirdOf(nets, n) = BackFirst + CountKinds(nets, n - 1, BackKinds)
         /\ nets[n].kind \in MgmtKinds => ThirdOf(nets, n) = MgmtThird
BY KindsOfPools DEF ThirdOf

(* In an organization within its limits every network gets an octet of its *)
(* kind's pool.                                                            *)
LEMMA ThirdInPool ==
  ASSUME NEW c, IsCity(c),
         NEW o \in DOMAIN c.organizations, OrgFits(c, c.organizations[o]),
         NEW n \in DOMAIN c.organizations[o].networks
  PROVE  LET nets == c.organizations[o].networks
         IN  /\ ThirdOf(nets, n) \in Third
             /\ nets[n].kind \in FrontKinds => ThirdOf(nets, n) \in 0 .. BackFirst - 1
             /\ nets[n].kind \in BackKinds => ThirdOf(nets, n) \in BackFirst .. MgmtThird - 1
             /\ nets[n].kind \in MgmtKinds => ThirdOf(nets, n) = MgmtThird
<1> DEFINE nets == c.organizations[o].networks
           k    == Len(nets)
<1>1. /\ k \in Nat /\ n \in Nat \ {0} /\ n <= k /\ n - 1 \in Nat
      /\ nets[n].kind \in NetworkKind
  BY OrganizationLists
<1>2. /\ CountKinds(nets, k, FrontKinds) <= BackFirst
      /\ CountKinds(nets, k, BackKinds) <= MgmtThird - BackFirst
  BY DEF OrgFits
<1> HIDE DEF nets, k
<1>3. \A kinds : CountKinds(nets, n - 1, kinds) \in Nat /\ CountKinds(nets, k, kinds) \in Nat
  BY <1>1, CountKindsType
<1>4. CASE nets[n].kind \in FrontKinds
  <2>1. CountKinds(nets, n - 1, FrontKinds) < CountKinds(nets, k, FrontKinds)
    BY <1>1, <1>4, CountKindsGrows
  <2>2. ThirdOf(nets, n) \in 0 .. BackFirst - 1
    BY <1>2, <1>3, <1>4, <2>1, ThirdOfKind, PlanAssumption
  <2>3. ThirdOf(nets, n) \in Third
    BY <2>2, PlanAssumption DEF Third
  <2> QED
    BY <1>4, <2>2, <2>3, KindsOfPools DEF nets
<1>5. CASE nets[n].kind \in BackKinds
  <2>1. CountKinds(nets, n - 1, BackKinds) < CountKinds(nets, k, BackKinds)
    BY <1>1, <1>5, CountKindsGrows
  <2>2. ThirdOf(nets, n) \in BackFirst .. MgmtThird - 1
    BY <1>2, <1>3, <1>5, <2>1, ThirdOfKind, PlanAssumption
  <2>3. ThirdOf(nets, n) \in Third
    BY <2>2, PlanAssumption DEF Third
  <2> QED
    BY <1>5, <2>2, <2>3, KindsOfPools DEF nets
<1>6. CASE nets[n].kind \in MgmtKinds
  <2>1. ThirdOf(nets, n) = MgmtThird
    BY <1>6, ThirdOfKind
  <2>2. ThirdOf(nets, n) \in Third
    BY <2>1, PlanAssumption DEF Third
  <2> QED
    BY <1>6, <2>1, <2>2, KindsOfPools DEF nets
<1> QED
  BY <1>1, <1>4, <1>5, <1>6, KindsOfPools

(* No two networks of an organization within its limits get one octet.     *)
LEMMA ThirdsDiffer ==
  ASSUME NEW c, IsCity(c),
         NEW o \in DOMAIN c.organizations, OrgFits(c, c.organizations[o]),
         NEW n \in DOMAIN c.organizations[o].networks,
         NEW m \in DOMAIN c.organizations[o].networks, m < n
  PROVE  ThirdOf(c.organizations[o].networks, m) # ThirdOf(c.organizations[o].networks, n)
<1> DEFINE nets == c.organizations[o].networks
           k    == Len(nets)
<1>1. /\ k \in Nat /\ n \in Nat \ {0} /\ m \in Nat \ {0} /\ n <= k /\ n - 1 \in Nat
      /\ nets[n].kind \in NetworkKind /\ nets[m].kind \in NetworkKind
      /\ m - 1 \in Nat
  BY OrganizationLists
<1>2. CountKinds(nets, k, MgmtKinds) <= 1
  BY DEF OrgFits
<1>3. /\ nets[m].kind \in FrontKinds => ThirdOf(nets, m) \in 0 .. BackFirst - 1
      /\ nets[m].kind \in BackKinds => ThirdOf(nets, m) \in BackFirst .. MgmtThird - 1
      /\ nets[m].kind \in MgmtKinds => ThirdOf(nets, m) = MgmtThird
  BY ThirdInPool
<1>4. /\ nets[n].kind \in FrontKinds => ThirdOf(nets, n) \in 0 .. BackFirst - 1
      /\ nets[n].kind \in BackKinds => ThirdOf(nets, n) \in BackFirst .. MgmtThird - 1
      /\ nets[n].kind \in MgmtKinds => ThirdOf(nets, n) = MgmtThird
  BY ThirdInPool
<1> HIDE DEF nets, k
<1>5. \A l \in Nat : \A kinds : CountKinds(nets, l, kinds) \in Nat
  BY CountKindsType
<1>6. m <= n - 1
  BY <1>1
<1>7. ASSUME NEW kinds, nets[m].kind \in kinds
      PROVE  CountKinds(nets, m - 1, kinds) < CountKinds(nets, n - 1, kinds)
  BY <1>1, <1>6, <1>7, CountKindsGrows
<1>8. CASE nets[m].kind \in FrontKinds /\ nets[n].kind \in FrontKinds
  <2>1. CountKinds(nets, m - 1, FrontKinds) # CountKinds(nets, n - 1, FrontKinds)
    BY <1>1, <1>5, <1>7, <1>8
  <2> QED
    BY <1>8, <2>1, ThirdOfKind DEF nets
<1>9. CASE nets[m].kind \in BackKinds /\ nets[n].kind \in BackKinds
  <2>1. CountKinds(nets, m - 1, BackKinds) < CountKinds(nets, n - 1, BackKinds)
    BY <1>7, <1>9
  <2>2. /\ CountKinds(nets, m - 1, BackKinds) \in Nat
        /\ CountKinds(nets, n - 1, BackKinds) \in Nat
    BY <1>1, <1>5
  <2>3. /\ ThirdOf(nets, m) = BackFirst + CountKinds(nets, m - 1, BackKinds)
        /\ ThirdOf(nets, n) = BackFirst + CountKinds(nets, n - 1, BackKinds)
    BY <1>9, ThirdOfKind
  <2> QED
    BY <2>1, <2>2, <2>3, PlanAssumption DEF nets
<1>10. ~ (nets[m].kind \in MgmtKinds /\ nets[n].kind \in MgmtKinds)
  <2> SUFFICES ASSUME nets[m].kind \in MgmtKinds, nets[n].kind \in MgmtKinds
               PROVE  FALSE
    OBVIOUS
  <2>1. /\ CountKinds(nets, m - 1, MgmtKinds) < CountKinds(nets, n - 1, MgmtKinds)
        /\ CountKinds(nets, n - 1, MgmtKinds) < CountKinds(nets, k, MgmtKinds)
    BY <1>1, <1>7, CountKindsGrows
  <2>2. /\ CountKinds(nets, m - 1, MgmtKinds) \in Nat
        /\ CountKinds(nets, n - 1, MgmtKinds) \in Nat
        /\ CountKinds(nets, k, MgmtKinds) \in Nat
    BY <1>1, <1>5
  <2> QED
    BY <1>2, <2>1, <2>2
<1>11. CASE \/ nets[m].kind \in FrontKinds /\ nets[n].kind \in BackKinds \cup MgmtKinds
            \/ nets[n].kind \in FrontKinds /\ nets[m].kind \in BackKinds \cup MgmtKinds
            \/ nets[m].kind \in BackKinds /\ nets[n].kind \in MgmtKinds
            \/ nets[n].kind \in BackKinds /\ nets[m].kind \in MgmtKinds
  BY <1>3, <1>4, <1>11, PlanAssumption DEF nets
<1> QED
  BY <1>1, <1>8, <1>9, <1>10, <1>11, KindsOfPools

-----------------------------------------------------------------------------
(* The dicts of a plan.                                                    *)

(* The plan's indices are those of the organizations,                      *)
LEMMA PlanIndex ==
  ASSUME NEW c, NEW indices
  PROVE  Plan(c, indices).org_index = OrgIndex(c, indices)
BY DEF Plan

(* its CIDRs are merged from those of each organization,                   *)
LEMMA PlanCidrs ==
  ASSUME NEW c, NEW indices
  PROVE  Plan(c, indices).net_cidr =
           Merged([o \in DOMAIN c.organizations |->
                     OrgCidrs(c.organizations[o],
                              OrgIndex(c, indices)[c.organizations[o].id])])
BY DEF Plan

(* and so are its addresses.                                               *)
LEMMA PlanAddresses ==
  ASSUME NEW c, NEW indices
  PROVE  Plan(c, indices).svc_ip =
           Merged([o \in DOMAIN c.organizations |->
                     OrgAddresses(c, c.organizations[o],
                                  OrgIndex(c, indices)[c.organizations[o].id])])
BY DEF Plan

(* An address is made of the CIDR of its service's network and a host.     *)
LEMMA OrgAddressAt ==
  ASSUME NEW c, NEW org, NEW i,
         NEW id \in {c.services[s].id : s \in OrgBound(c, org)}
  PROVE  OrgAddresses(c, org, i)[id] =
           <<OrgCidrs(org, i)[c.services[LastBound(c, org, id)].network_id][1],
             OrgCidrs(org, i)[c.services[LastBound(c, org, id)].network_id][2],
             HostOf(c, org, LastBound(c, org, id))>>
BY DEF OrgAddresses

(* Merged dicts have the keys of all.                                      *)
LEMMA MergedKeys ==
  ASSUME NEW dicts
  PROVE  DOMAIN Merged(dicts) = UNION {DOMAIN dicts[o] : o \in DOMAIN dicts}
BY DEF Merged

(* A key that only one of them has keeps its value.                        *)
LEMMA MergedValue ==
  ASSUME NEW dicts, DOMAIN dicts \subseteq Nat, NEW o \in DOMAIN dicts,
         NEW k \in DOMAIN dicts[o],
         \A p \in DOMAIN dicts : k \in DOMAIN dicts[p] => p = o
  PROVE  Merged(dicts)[k] = dicts[o][k]
<1>1. LastWithKey(dicts, k) = o
  <2>1. \A p \in DOMAIN dicts : k \in DOMAIN dicts[p] => p <= o
    OBVIOUS
  <2> QED
    BY <2>1 DEF LastWithKey
<1> QED
  BY <1>1 DEF Merged

(* Every organization gets its own entry of the shuffle.                   *)
LEMMA IndexOfOrg ==
  ASSUME NEW c, IsCity(c), NEW indices
  PROVE  /\ DOMAIN Plan(c, indices).org_index = OrgIds(c)
         /\ DistinctIds(c.organizations) =>
              \A o \in DOMAIN c.organizations :
                Plan(c, indices).org_index[c.organizations[o].id] = indices[o]
<1>1. DOMAIN c.organizations \subseteq Nat
  BY CityLists
<1>2. DOMAIN OrgIndex(c, indices) = OrgIds(c)
  BY DEF OrgIndex
<1>3. ASSUME DistinctIds(c.organizations), NEW o \in DOMAIN c.organizations
      PROVE  OrgIndex(c, indices)[c.organizations[o].id] = indices[o]
  <2>1. LastWithId(c.organizations, c.organizations[o].id) = o
    BY <1>1, <1>3, LastOfDistinct
  <2>2. c.organizations[o].id \in OrgIds(c)
    BY DEF OrgIds, Ids
  <2> QED
    BY <2>1, <2>2 DEF OrgIndex
<1> QED
  BY <1>2, <1>3, PlanIndex

(* Every network of the city has a CIDR.                                   *)
LEMMA CidrKeys ==
  ASSUME NEW c, IsCity(c), NEW indices
  PROVE  DOMAIN Plan(c, indices).net_cidr = NetIds(c)
<1> DEFINE orgs  == c.organizations
           nets(o) == orgs[o].networks
           ix    == OrgIndex(c, indices)
           dicts == [o \in DOMAIN orgs |-> OrgCidrs(orgs[o], ix[orgs[o].id])]
<1>1. Plan(c, indices).net_cidr = Merged(dicts)
  BY PlanCidrs
<1>2. \A o \in DOMAIN orgs : DOMAIN dicts[o] = Ids(nets(o))
  BY DEF OrgCidrs
<1>3. NetIds(c) = UNION {Ids(nets(o)) : o \in DOMAIN orgs}
  <2>1. \A o \in DOMAIN orgs : \A n \in DOMAIN nets(o) :
          <<o, n>> \in NetPlaces(c) /\ NetAt(c, <<o, n>>) = nets(o)[n]
    BY DEF NetPlaces, NetAt
  <2>2. \A p \in NetPlaces(c) : /\ p[1] \in DOMAIN orgs /\ p[2] \in DOMAIN nets(p[1])
                               /\ NetAt(c, p) = nets(p[1])[p[2]]
    BY Places DEF NetAt
  <2>3. ASSUME NEW id \in NetIds(c) PROVE \E o \in DOMAIN orgs : id \in Ids(nets(o))
    BY <2>2 DEF NetIds, Ids
  <2>4. ASSUME NEW o \in DOMAIN orgs, NEW id \in Ids(nets(o)) PROVE id \in NetIds(c)
    BY <2>1 DEF NetIds, Ids
  <2> QED
    BY <2>3, <2>4
<1>4. DOMAIN dicts = DOMAIN orgs
  OBVIOUS
<1> HIDE DEF dicts
<1>5. DOMAIN Merged(dicts) = UNION {DOMAIN dicts[o] : o \in DOMAIN orgs}
  BY <1>4, MergedKeys
<1> QED
  BY <1>1, <1>2, <1>3, <1>5

(* With distinct ids the CIDR of a network is made of its organization's  *)
(* index and its own octet.                                                *)
LEMMA CidrOfNetwork ==
  ASSUME NEW c, IsCity(c), AllDistinct(c),
         NEW indices, NEW o \in DOMAIN c.organizations,
         NEW n \in DOMAIN c.organizations[o].networks
  PROVE  Plan(c, indices).net_cidr[c.organizations[o].networks[n].id] =
           <<indices[o], ThirdOf(c.organizations[o].networks, n)>>
<1> DEFINE orgs  == c.organizations
           nets(p) == orgs[p].networks
           ix    == OrgIndex(c, indices)
           dicts == [p \in DOMAIN orgs |-> OrgCidrs(orgs[p], ix[orgs[p].id])]
<1>1. Plan(c, indices).net_cidr = Merged(dicts)
  BY PlanCidrs
<1>2. DistinctIds(nets(o)) /\ DistinctIds(orgs)
  BY OwnNetworks DEF AllDistinct
<1>3. LastWithId(nets(o), nets(o)[n].id) = n
  <2>1. DOMAIN nets(o) \subseteq Nat
    BY OrganizationLists
  <2> QED
    BY <1>2, <2>1, LastOfDistinct
<1>4. nets(o)[n].id \in Ids(nets(o))
  BY DEF Ids
<1>5. ix[orgs[o].id] = indices[o]
  BY <1>2, IndexOfOrg, PlanIndex
<1>6. dicts[o][nets(o)[n].id] = <<indices[o], ThirdOf(nets(o), n)>>
  BY <1>3, <1>4, <1>5 DEF OrgCidrs
<1>7. /\ DOMAIN dicts = DOMAIN orgs /\ DOMAIN orgs \subseteq Nat
      /\ \A p \in DOMAIN orgs : DOMAIN dicts[p] = Ids(nets(p))
  BY CityLists DEF OrgCidrs
<1>8. \A p \in DOMAIN orgs : nets(o)[n].id \in Ids(nets(p)) => p = o
  BY <1>4, OwnNetworks DEF AllDistinct
<1> HIDE DEF dicts
<1>9. Merged(dicts)[nets(o)[n].id] = dicts[o][nets(o)[n].id]
  BY <1>4, <1>7, <1>8, MergedValue
<1> QED
  BY <1>1, <1>6, <1>9

-----------------------------------------------------------------------------
(* Services.                                                               *)

(* Service s names organization o and its network n.                       *)
Stands(c, s, o, n) ==
  /\ o \in DOMAIN c.organizations
  /\ n \in DOMAIN c.organizations[o].networks
  /\ c.services[s].org_id = c.organizations[o].id
  /\ c.services[s].network_id = c.organizations[o].networks[n].id

(* An organization addresses the services that stand in it.                *)
LEMMA BoundStands ==
  ASSUME NEW c, NEW o \in DOMAIN c.organizations
  PROVE  OrgBound(c, c.organizations[o]) =
           {s \in DOMAIN c.services : \E n : Stands(c, s, o, n)}
BY DEF OrgBound, Binds, Ids, Stands

(* A service stands in one place.                                          *)
LEMMA StandsOnce ==
  ASSUME NEW c, AllDistinct(c), NEW s, NEW o, NEW n, NEW q, NEW m,
         Stands(c, s, o, n), Stands(c, s, q, m)
  PROVE  o = q /\ n = m
<1>1. o = q
  BY DEF Stands, AllDistinct, DistinctIds
<1>2. DistinctIds(c.organizations[o].networks)
  BY OwnNetworks DEF AllDistinct, Stands
<1> QED
  BY <1>1, <1>2 DEF Stands, DistinctIds

(* A service is alone in holding its host among those of its network.      *)
LEMMA HostsDiffer ==
  ASSUME NEW c, NEW org, NEW s \in Nat \ {0}, NEW t \in Nat \ {0}, t < s,
         Binds(org, c.services[t]),
         c.services[t].network_id = c.services[s].network_id
  PROVE  HostOf(c, org, t) # HostOf(c, org, s)
<1>1. Ahead(c, org, s) \in SUBSET (1 .. s - 1) /\ s - 1 \in Nat
  BY DEF Ahead
<1>2. IsFiniteSet(Ahead(c, org, s))
  BY <1>1, PlacesFinite
<1>3. t \in Ahead(c, org, s) /\ t \notin Ahead(c, org, t)
  BY DEF Ahead
<1>4. Ahead(c, org, t) \in SUBSET Ahead(c, org, s)
  <2>1. \A r \in 1 .. t - 1 : r \in 1 .. s - 1
    OBVIOUS
  <2> QED
    BY <2>1 DEF Ahead
<1>5. /\ Cardinality(Ahead(c, org, t)) \in Nat /\ Cardinality(Ahead(c, org, s)) \in Nat
      /\ Cardinality(Ahead(c, org, t)) < Cardinality(Ahead(c, org, s))
  BY <1>2, <1>3, <1>4, ProperPart
<1> QED
  BY <1>5, PlanAssumption DEF HostOf

(* The services that stand somewhere have an address.                      *)
LEMMA AddressKeys ==
  ASSUME NEW c, IsCity(c), NEW indices
  PROVE  DOMAIN Plan(c, indices).svc_ip =
           {c.services[s].id : s \in {t \in DOMAIN c.services :
                                        \E o, n : Stands(c, t, o, n)}}
<1> DEFINE orgs  == c.organizations
           svcs  == c.services
           ix    == OrgIndex(c, indices)
           bound(o) == {s \in DOMAIN svcs : \E n : Stands(c, s, o, n)}
           dicts == [o \in DOMAIN orgs |-> OrgAddresses(c, orgs[o], ix[orgs[o].id])]
<1>1. Plan(c, indices).svc_ip = Merged(dicts)
  BY PlanAddresses
<1>2. \A o \in DOMAIN orgs : OrgBound(c, orgs[o]) = bound(o)
  BY BoundStands
<1>3. \A o \in DOMAIN orgs : DOMAIN dicts[o] = {svcs[s].id : s \in bound(o)}
  BY <1>2 DEF OrgAddresses
<1>4. DOMAIN dicts = DOMAIN orgs
  OBVIOUS
<1>5. DOMAIN Merged(dicts) = UNION {DOMAIN dicts[o] : o \in DOMAIN orgs}
  BY <1>4, MergedKeys
<1>6. \A s, o, n : Stands(c, s, o, n) => o \in DOMAIN orgs
  BY DEF Stands
<1> HIDE DEF dicts
<1> QED
  BY <1>1, <1>3, <1>5, <1>6

(* With distinct ids the address of a service is made of its               *)
(* organization's index, its network's octet and its own host.             *)
LEMMA AddressOfService ==
  ASSUME NEW c, IsCity(c), AllDistinct(c),
         NEW indices, NEW s \in DOMAIN c.services, NEW o, NEW n, Stands(c, s, o, n)
  PROVE  Plan(c, indices).svc_ip[c.services[s].id] =
           <<indices[o], ThirdOf(c.organizations[o].networks, n),
             HostOf(c, c.organizations[o], s)>>
<1> DEFINE orgs  == c.organizations
           svcs  == c.services
           nets  == orgs[o].networks
           ix    == OrgIndex(c, indices)
           i     == ix[orgs[o].id]
           bound(p) == {t \in DOMAIN svcs : \E m : Stands(c, t, p, m)}
           dicts == [p \in DOMAIN orgs |-> OrgAddresses(c, orgs[p], ix[orgs[p].id])]
<1>1. Plan(c, indices).svc_ip = Merged(dicts)
  BY PlanAddresses
<1>2. /\ o \in DOMAIN orgs /\ n \in DOMAIN nets /\ s \in bound(o)
      /\ svcs[s].network_id = nets[n].id
  BY DEF Stands
<1>3. \A t \in DOMAIN svcs : svcs[t].id = svcs[s].id => t = s
  BY DEF AllDistinct, DistinctIds
<1>4. DOMAIN orgs \subseteq Nat /\ DOMAIN svcs \subseteq Nat
  BY CityLists
<1>5. \A p \in DOMAIN orgs : OrgBound(c, orgs[p]) = bound(p)
  BY BoundStands
<1>6. LastBound(c, orgs[o], svcs[s].id) = s
  <2>1. /\ s \in OrgBound(c, orgs[o])
        /\ \A t \in OrgBound(c, orgs[o]) : svcs[t].id = svcs[s].id => t = s
        /\ s <= s
    BY <1>2, <1>3, <1>4, <1>5
  <2> QED
    BY <2>1 DEF LastBound
<1>7. OrgCidrs(orgs[o], i)[svcs[s].network_id] = <<indices[o], ThirdOf(nets, n)>>
  <2>1. DistinctIds(nets) /\ DistinctIds(orgs)
    BY <1>2, OwnNetworks DEF AllDistinct
  <2>2. LastWithId(nets, nets[n].id) = n
    <3>1. DOMAIN nets \subseteq Nat
      BY <1>2, OrganizationLists
    <3> QED
      BY <1>2, <2>1, <3>1, LastOfDistinct
  <2>3. nets[n].id \in Ids(nets)
    BY <1>2 DEF Ids
  <2>4. i = indices[o]
    BY <1>2, <2>1, IndexOfOrg, PlanIndex
  <2> QED
    BY <1>2, <2>2, <2>3, <2>4 DEF OrgCidrs
<1>8. svcs[s].id \in {svcs[t].id : t \in OrgBound(c, orgs[o])}
  BY <1>2, <1>5
<1>9. /\ dicts[o] = OrgAddresses(c, orgs[o], i)
      /\ DOMAIN dicts = DOMAIN orgs
      /\ \A p \in DOMAIN orgs : DOMAIN dicts[p] = {svcs[t].id : t \in bound(p)}
  BY <1>2, <1>5 DEF OrgAddresses
<1> HIDE DEF dicts, i
<1>10. OrgAddresses(c, orgs[o], i)[svcs[s].id] =
         <<OrgCidrs(orgs[o], i)[svcs[s].network_id][1],
           OrgCidrs(orgs[o], i)[svcs[s].network_id][2], HostOf(c, orgs[o], s)>>
  BY <1>6, <1>8, OrgAddressAt
<1>11. \A p \in DOMAIN orgs : svcs[s].id \in DOMAIN dicts[p] => p = o
  <2> SUFFICES ASSUME NEW p \in DOMAIN orgs, svcs[s].id \in DOMAIN dicts[p]
               PROVE  p = o
    OBVIOUS
  <2>1. svcs[s].id \in {svcs[t].id : t \in bound(p)}
    BY <1>9
  <2>2. PICK t \in bound(p) : svcs[t].id = svcs[s].id
    BY <2>1
  <2>3. t = s
    BY <1>3, <2>2
  <2>4. PICK m : Stands(c, s, p, m)
    BY <2>2, <2>3
  <2> QED
    BY <2>4, StandsOnce
<1>12. Merged(dicts)[svcs[s].id] = dicts[o][svcs[s].id]
  <2>1. svcs[s].id \in DOMAIN dicts[o]
    BY <1>2, <1>9
  <2> QED
    BY <1>2, <1>4, <1>9, <1>11, <2>1, MergedValue
<1> QED
  BY <1>1, <1>7, <1>9, <1>10, <1>12

-----------------------------------------------------------------------------
(* The rules about addresses.                                              *)

(* A service with an address stands somewhere.                             *)
LEMMA AddressedStands ==
  ASSUME NEW c, IsCity(c), NEW indices,
         AllDistinct(c), NEW s \in DOMAIN c.services,
         c.services[s].id \in DOMAIN Plan(c, indices).svc_ip
  PROVE  \E o, n : Stands(c, s, o, n)
<1>1. PICK t \in DOMAIN c.services :
        c.services[t].id = c.services[s].id /\ \E o, n : Stands(c, t, o, n)
  BY AddressKeys
<1>2. t = s
  BY <1>1 DEF AllDistinct, DistinctIds
<1> QED
  BY <1>1, <1>2

(* A draw gives each organization an index of its own.                     *)
LEMMA ShuffledIndices ==
  ASSUME NEW k, NEW indices \in Shuffles(k)
  PROVE  /\ indices \in [1 .. k -> 1 .. MaxIndex]
         /\ \A i, j \in 1 .. k : indices[i] = indices[j] => i = j
BY DEF Shuffles, Injection, IsInjective

(* Two networks of a city within its limits have different CIDRs.          *)
LEMMA CidrsDiffer ==
  ASSUME NEW c, IsCity(c), Fits(c),
         NEW indices \in Shuffles(Len(c.organizations)),
         NEW o \in DOMAIN c.organizations, NEW q \in DOMAIN c.organizations,
         NEW n \in DOMAIN c.organizations[o].networks,
         NEW m \in DOMAIN c.organizations[q].networks,
         indices[o] = indices[q],
         ThirdOf(c.organizations[o].networks, n) = ThirdOf(c.organizations[q].networks, m)
  PROVE  o = q /\ n = m
<1>1. o = q
  BY CityLists, ShuffledIndices
<1>2. OrgFits(c, c.organizations[o])
  BY DEF Fits
<1>3. n \in Nat /\ m \in Nat /\ ~ (n < m) /\ ~ (m < n)
  BY <1>1, <1>2, OrganizationLists, ThirdsDiffer
<1> QED
  BY <1>1, <1>3

(* The allocator satisfies every rule about addresses, whatever it draws,  *)
(* in a city whose ids are distinct.                                       *)
THEOREM AddressRulesHold ==
  ASSUME NEW c, IsCity(c), Fits(c), AllDistinct(c),
         NEW indices \in Shuffles(Len(c.organizations))
  PROVE  AddressIssues(c, Plan(c, indices)) = {}
<1> DEFINE orgs == c.organizations
           svcs == c.services
           plan == Plan(c, indices)
           nets(o) == orgs[o].networks
<1>1. \A o \in DOMAIN orgs : plan.org_index[orgs[o].id] = indices[o]
  BY IndexOfOrg DEF AllDistinct
<1>2. \A o \in DOMAIN orgs : \A n \in DOMAIN nets(o) :
        plan.net_cidr[nets(o)[n].id] = <<indices[o], ThirdOf(nets(o), n)>>
  BY CidrOfNetwork
<1>3. \A s \in DOMAIN svcs : \A o, n : Stands(c, s, o, n) =>
        plan.svc_ip[svcs[s].id] = <<indices[o], ThirdOf(nets(o), n), HostOf(c, orgs[o], s)>>
  BY AddressOfService
<1>4. \A s \in DOMAIN svcs :
        svcs[s].id \in DOMAIN plan.svc_ip => \E o, n : Stands(c, s, o, n)
  BY AddressedStands
<1>5. \A o, q \in DOMAIN orgs : indices[o] = indices[q] => o = q
  BY CityLists, ShuffledIndices
<1>6. \A p \in NetPlaces(c) :
        /\ p = <<p[1], p[2]>> /\ p[1] \in DOMAIN orgs /\ p[2] \in DOMAIN nets(p[1])
        /\ NetAt(c, p) = nets(p[1])[p[2]]
  BY Places DEF NetAt
<1>7. DOMAIN orgs \subseteq Nat /\ DOMAIN svcs \subseteq Nat
  BY CityLists
<1>8. \A p \in NetPlaces(c) :
        plan.net_cidr[NetAt(c, p).id] = <<indices[p[1]], ThirdOf(nets(p[1]), p[2])>>
  BY <1>2, <1>6
<1> HIDE DEF plan
<1>9. \A s \in DOMAIN svcs : \A o, n : Stands(c, s, o, n) =>
        o \in DOMAIN orgs /\ n \in DOMAIN nets(o) /\ svcs[s].network_id = nets(o)[n].id
  BY DEF Stands
<1>11. NetworkIndexRule(c, plan) = {}
  <2>1. \A i \in DOMAIN orgs : \A j \in 1 .. i - 1 :
          plan.org_index[orgs[j].id] # plan.org_index[orgs[i].id]
    <3> SUFFICES ASSUME NEW i \in DOMAIN orgs, NEW j \in 1 .. i - 1
                 PROVE  plan.org_index[orgs[j].id] # plan.org_index[orgs[i].id]
      OBVIOUS
    <3>1. i \in 1 .. Len(orgs) /\ DOMAIN orgs = 1 .. Len(orgs) /\ Len(orgs) \in Nat
      BY CityLists
    <3>2. j \in DOMAIN orgs /\ j # i
      BY <3>1
    <3> QED
      BY <1>1, <1>5, <3>2
  <2> QED
    BY <2>1 DEF NetworkIndexRule, Issues
<1>12. IpInNetworkRule(c, plan) = {}
  <2>1. ASSUME NEW i \in DOMAIN svcs, svcs[i].id \in DOMAIN plan.svc_ip
        PROVE  <<plan.svc_ip[svcs[i].id][1], plan.svc_ip[svcs[i].id][2]>> =
                 plan.net_cidr[svcs[i].network_id]
    <3>1. PICK o, n : Stands(c, i, o, n)
      BY <1>4, <2>1
    <3>2. plan.svc_ip[svcs[i].id] =
            <<indices[o], ThirdOf(nets(o), n), HostOf(c, orgs[o], i)>>
      BY <1>3, <3>1
    <3>3. plan.net_cidr[svcs[i].network_id] = <<indices[o], ThirdOf(nets(o), n)>>
      BY <1>2, <1>9, <3>1
    <3> QED
      BY <3>2, <3>3
  <2> QED
    BY <2>1 DEF IpInNetworkRule, Issues, Placed
<1>13. IpUniqueRule(c, plan) = {}
  <2>1. ASSUME NEW i \in DOMAIN svcs, NEW j \in 1 .. i - 1,
               svcs[i].id \in DOMAIN plan.svc_ip, svcs[j].id \in DOMAIN plan.svc_ip,
               svcs[j].network_id = svcs[i].network_id
        PROVE  plan.svc_ip[svcs[j].id] # plan.svc_ip[svcs[i].id]
    <3>1. i \in 1 .. Len(svcs) /\ DOMAIN svcs = 1 .. Len(svcs) /\ Len(svcs) \in Nat
      BY CityLists
    <3>2. j \in DOMAIN svcs /\ j < i /\ i \in Nat \ {0} /\ j \in Nat \ {0}
      BY <3>1
    <3>3. PICK o, n : Stands(c, i, o, n)
      BY <1>4, <2>1
    <3>4. PICK q, m : Stands(c, j, q, m)
      BY <1>4, <2>1, <3>2
    <3>5. o = q /\ n = m
      <4>1. nets(o)[n].id = nets(q)[m].id
        BY <1>9, <2>1, <3>2, <3>3, <3>4
      <4>2. o = q
        <5>1. /\ o \in DOMAIN orgs /\ q \in DOMAIN orgs
              /\ nets(o)[n].id \in Ids(nets(o)) /\ nets(q)[m].id \in Ids(nets(q))
          BY <1>9, <3>2, <3>3, <3>4 DEF Ids
        <5> QED
          BY <4>1, <5>1, OwnNetworks DEF AllDistinct
      <4> QED
        BY <1>9, <3>2, <3>3, <3>4, <4>1, <4>2, OwnNetworks DEF AllDistinct, DistinctIds
    <3>6. Binds(orgs[o], svcs[j])
      BY <3>4, <3>5 DEF Binds, Stands, Ids
    <3>7. HostOf(c, orgs[o], j) # HostOf(c, orgs[o], i)
      BY <2>1, <3>2, <3>6, HostsDiffer
    <3> QED
      BY <1>3, <3>2, <3>3, <3>4, <3>5, <3>7
  <2> QED
    BY <2>1 DEF IpUniqueRule, Issues
<1>14. NetworkOverlapRule(c, plan) = {}
  <2>1. ASSUME NEW p \in NetPlaces(c), NEW r \in NetPlaces(c),
               plan.net_cidr[NetAt(c, p).id] = plan.net_cidr[NetAt(c, r).id]
        PROVE  p = r
    <3>1. indices[p[1]] = indices[r[1]] /\ ThirdOf(nets(p[1]), p[2]) = ThirdOf(nets(r[1]), r[2])
      BY <1>8, <2>1
    <3>2. p[1] = r[1] /\ p[2] = r[2]
      BY <1>6, <3>1, CidrsDiffer
    <3> QED
      BY <1>6, <3>2
  <2> QED
    BY <2>1 DEF NetworkOverlapRule, Issues
<1>15. IpSchemeRule(c, plan) = {}
  BY <1>1, <1>6, <1>8 DEF IpSchemeRule, Issues
<1> QED
  BY <1>11, <1>12, <1>13, <1>14, <1>15 DEF AddressIssues, plan

-----------------------------------------------------------------------------
(* What the other rules say of a city with distinct ids.                   *)

(* A rule that reports nothing found no place to point at.                 *)
LEMMA NoIssue ==
  ASSUME NEW code, NEW A, Issues(code, A) = {}
  PROVE  A = {}
<1>1. \A a \in A : <<code, a>> \in Issues(code, A)
  BY DEF Issues
<1> QED
  BY <1>1

(* Rule `network-belongs`: every service stands somewhere.                 *)
LEMMA EveryServiceStands ==
  ASSUME NEW c, IsCity(c), AllDistinct(c), NetworkBelongsRule(c) = {},
         NEW s \in DOMAIN c.services
  PROVE  \E o, n : Stands(c, s, o, n)
<1> DEFINE orgs == c.organizations
           svc  == c.services[s]
<1>0. {i \in DOMAIN c.services :
         c.services[i].network_id \notin AllowedNets(c, c.services[i].org_id)} = {}
  BY NoIssue DEF NetworkBelongsRule
<1>1. svc.network_id \in AllowedNets(c, svc.org_id)
  BY <1>0
<1>2. /\ svc.org_id \in OrgIds(c)
      /\ svc.network_id \in Ids(orgs[LastWithId(orgs, svc.org_id)].networks)
  BY <1>1 DEF AllowedNets
<1>3. PICK o \in DOMAIN orgs : orgs[o].id = svc.org_id
  BY <1>2 DEF OrgIds, Ids
<1>4. LastWithId(orgs, svc.org_id) = o
  BY <1>3, CityLists, LastOfDistinct DEF AllDistinct
<1>5. PICK n \in DOMAIN orgs[o].networks : orgs[o].networks[n].id = svc.network_id
  BY <1>2, <1>4 DEF Ids
<1> QED
  BY <1>3, <1>5 DEF Stands

(* The dict from network ids to networks holds the one a service names.    *)
LEMMA NetworkNamed ==
  ASSUME NEW c, IsCity(c), AllDistinct(c), NEW s, NEW o, NEW n, Stands(c, s, o, n)
  PROVE  /\ c.services[s].network_id \in NetIds(c)
         /\ NetById(c, c.services[s].network_id) = c.organizations[o].networks[n]
<1> DEFINE id == c.services[s].network_id
           p  == <<o, n>>
<1>1. /\ o \in DOMAIN c.organizations /\ n \in DOMAIN c.organizations[o].networks
      /\ id = c.organizations[o].networks[n].id
  BY DEF Stands
<1>2. p \in NetPlaces(c) /\ NetAt(c, p) = c.organizations[o].networks[n]
  BY <1>1 DEF NetPlaces, NetAt
<1>3. \A q \in NetPlaces(c) : NetAt(c, q).id = id => q = p
  BY <1>1, <1>2 DEF AllDistinct, DistinctNetIds
<1>4. NotBefore(p, p)
  BY <1>1, OrganizationLists DEF NotBefore
<1> HIDE DEF p, id
<1>5. p \in NetPlaces(c) /\ NetAt(c, p).id = id
  BY <1>1, <1>2
<1>6. \A q \in NetPlaces(c) : NetAt(c, q).id = id => NotBefore(p, q)
  BY <1>3, <1>4
<1>7. (CHOOSE r \in NetPlaces(c) :
         /\ NetAt(c, r).id = id
         /\ \A q \in NetPlaces(c) : NetAt(c, q).id = id => NotBefore(r, q)) = p
  BY <1>3, <1>5, <1>6
<1>8. NetById(c, id) = NetAt(c, p)
  BY <1>7 DEF NetById
<1> QED
  BY <1>2, <1>5, <1>8 DEF NetIds, id

(* Rule `exposure-network`, and the pools: the exposure of a service tells *)
(* the pool that its network's octet comes from.                           *)
LEMMA PoolOfExposure ==
  ASSUME NEW c, IsCity(c), AllDistinct(c), Fits(c), ExposureNetworkRule(c) = {},
         NEW s \in DOMAIN c.services, NEW o, NEW n, Stands(c, s, o, n)
  PROVE  /\ c.services[s].exposure = "public" =>
              ThirdOf(c.organizations[o].networks, n) \in 0 .. BackFirst - 1
         /\ c.services[s].exposure \in {"intranet", "ot"} =>
              ThirdOf(c.organizations[o].networks, n) \in BackFirst .. MgmtThird - 1
         /\ c.services[s].exposure = "mgmt" =>
              ThirdOf(c.organizations[o].networks, n) = MgmtThird
<1> DEFINE net == c.organizations[o].networks[n]
           exposure == c.services[s].exposure
<1>1. s \in Placed(c) /\ NetById(c, c.services[s].network_id) = net
  BY NetworkNamed DEF Placed
<1>0. {i \in Placed(c) :
         NetById(c, c.services[i].network_id).kind
           \notin AllowedKinds[c.services[i].exposure]} = {}
  BY NoIssue DEF ExposureNetworkRule
<1>2. net.kind \in AllowedKinds[exposure]
  BY <1>0, <1>1
<1>3. o \in DOMAIN c.organizations /\ n \in DOMAIN c.organizations[o].networks
  BY DEF Stands
<1>4. OrgFits(c, c.organizations[o])
  BY <1>3 DEF Fits
<1>5. /\ exposure = "public" => net.kind \in FrontKinds
      /\ exposure \in {"intranet", "ot"} => net.kind \in BackKinds
      /\ exposure = "mgmt" => net.kind \in MgmtKinds
  BY <1>2 DEF AllowedKinds, Exposure, FrontKinds, BackKinds, MgmtKinds
<1> QED
  BY <1>3, <1>4, <1>5, ThirdInPool

-----------------------------------------------------------------------------
(* Sums over the parts of a set.                                           *)

(* What the parts with the indices T make up.                              *)
Together(part, T) == UNION {part[x] : x \in T}

(* Finite parts that share nothing.                                        *)
Apart(part, S) ==
  /\ \A x \in S : IsFiniteSet(part[x])
  /\ \A x, y \in S : x # y => part[x] \cap part[y] = {}

(* Two functions on the subsets of a finite set are equal, when they agree *)
(* at each subset below which they agree.                                  *)
LEMMA AgreeByParts ==
  ASSUME NEW S, IsFiniteSet(S), NEW f, NEW g,
         \A T \in SUBSET S : (\A U \in SUBSET T : U # T => f[U] = g[U]) => f[T] = g[T]
  PROVE  \A T \in SUBSET S : f[T] = g[T]
<1> DEFINE Differ == {T \in SUBSET S : f[T] # g[T]}
           Below  == StrictSubsetOrdering(S)
<1>1. IsWellFoundedOn(Below, SUBSET S)
  BY FS_StrictSubsetOrderingWellFounded, FS_FiniteSubsetsOfFinite
<1>2. ASSUME Differ # {} PROVE FALSE
  <2>1. PICK T \in Differ : \A U \in Differ : ~ (<<U, T>> \in Below)
    <3> HIDE DEF Below
    <3>1. Differ \subseteq SUBSET S
      OBVIOUS
    <3> HIDE DEF Differ
    <3> QED
      BY <1>1, <1>2, <3>1, WFMin
  <2>2. \A U \in SUBSET T : U # T => <<U, T>> \in Below
    BY DEF StrictSubsetOrdering
  <2>3. \A U \in SUBSET T : U # T => f[U] = g[U]
    BY <2>1, <2>2
  <2> QED
    BY <2>3
<1> QED
  BY <1>2

(* Finitely many finite parts make up a finite set.                        *)
LEMMA TogetherFinite ==
  ASSUME NEW S, IsFiniteSet(S), NEW part, Apart(part, S)
  PROVE  \A T \in SUBSET S : IsFiniteSet(Together(part, T))
<1> DEFINE f == [T \in SUBSET S |-> IsFiniteSet(Together(part, T))]
           g == [T \in SUBSET S |-> TRUE]
<1>1. ASSUME NEW T \in SUBSET S, \A U \in SUBSET T : U # T => f[U] = g[U]
      PROVE  f[T] = g[T]
  <2>1. CASE T = {}
    <3>1. Together(part, T) = {}
      BY <2>1 DEF Together
    <3> QED
      BY <3>1, FS_EmptySet
  <2>2. CASE T # {}
    <3>1. PICK y : y \in T
      BY <2>2
    <3> DEFINE U == T \ {y}
    <3>2. U \in SUBSET T /\ U # T /\ U \in SUBSET S
      BY <3>1
    <3>3. IsFiniteSet(Together(part, U)) /\ IsFiniteSet(part[y])
      BY <1>1, <3>1, <3>2 DEF Apart
    <3>4. Together(part, T) = Together(part, U) \cup part[y]
      BY <3>1 DEF Together
    <3> HIDE DEF U
    <3>5. IsFiniteSet(Together(part, U) \cup part[y])
      BY <3>3, FS_Union
    <3> QED
      BY <3>4, <3>5
  <2> QED
    BY <2>1, <2>2
<1> HIDE DEF f, g
<1>2. \A T \in SUBSET S : f[T] = g[T]
  BY <1>1, AgreeByParts
<1> QED
  BY <1>2 DEF f, g

(* The size of what parts make up, from that of one and that of the rest.  *)
LEMMA OnePartMore ==
  ASSUME NEW S, IsFiniteSet(S), NEW part, Apart(part, S),
         NEW T \in SUBSET S, NEW y \in T
  PROVE  /\ Cardinality(part[y]) \in Nat
         /\ Cardinality(Together(part, T \ {y})) \in Nat
         /\ Cardinality(Together(part, T)) =
              Cardinality(part[y]) + Cardinality(Together(part, T \ {y}))
<1> DEFINE Rest == Together(part, T \ {y})
<1>1. IsFiniteSet(Rest) /\ IsFiniteSet(part[y])
  BY TogetherFinite DEF Apart
<1>2. Together(part, T) = part[y] \cup Rest /\ part[y] \cap Rest = {}
  BY DEF Together, Apart
<1> HIDE DEF Rest
<1>3. Cardinality(part[y]) \in Nat /\ Cardinality(Rest) \in Nat
  BY <1>1, FS_CardinalityType
<1>4. /\ Cardinality(part[y] \cup Rest) =
           Cardinality(part[y]) + Cardinality(Rest) - Cardinality(part[y] \cap Rest)
      /\ Cardinality(part[y] \cap Rest) = 0
  BY <1>1, <1>2, FS_Union, FS_EmptySet
<1>5. Cardinality(part[y] \cup Rest) = Cardinality(part[y]) + Cardinality(Rest)
  BY <1>3, <1>4
<1> QED
  BY <1>2, <1>3, <1>5 DEF Rest

(* A function on the subsets of S is the size of what the parts make up,   *)
(* when it starts at 0 and one of the parts makes the difference.          *)
LEMMA SizeByParts ==
  ASSUME NEW S, IsFiniteSet(S), NEW part, Apart(part, S), NEW f,
         f[{}] = 0,
         \A T \in SUBSET S : T # {} =>
           \E y \in T : f[T \ {y}] \in Nat =>
                          f[T] = Cardinality(part[y]) + f[T \ {y}]
  PROVE  f[S] = Cardinality(Together(part, S))
<1> DEFINE size == [T \in SUBSET S |-> Cardinality(Together(part, T))]
<1>1. ASSUME NEW T \in SUBSET S, \A U \in SUBSET T : U # T => f[U] = size[U]
      PROVE  f[T] = size[T]
  <2>1. CASE T = {}
    <3>1. Together(part, T) = {}
      BY <2>1 DEF Together
    <3> QED
      BY <2>1, <3>1, FS_EmptySet
  <2>2. CASE T # {}
    <3>1. PICK y \in T : f[T \ {y}] \in Nat =>
                           f[T] = Cardinality(part[y]) + f[T \ {y}]
      BY <2>2
    <3>2. f[T \ {y}] = Cardinality(Together(part, T \ {y}))
      BY <1>1
    <3> QED
      BY <3>1, <3>2, OnePartMore
  <2> QED
    BY <2>1, <2>2
<1> HIDE DEF size
<1>2. \A T \in SUBSET S : f[T] = size[T]
  BY <1>1, AgreeByParts
<1> QED
  BY <1>2 DEF size

(* The sizes of disjoint parts add up to the size of what they make up.    *)
(* The fold is the value of a function that recurs over the subsets; the   *)
(* size is such a function, and what recurs so is the size.                *)
LEMMA SumOfParts ==
  ASSUME NEW S, IsFiniteSet(S), NEW part, Apart(part, S),
         NEW h, \A x \in S : h[x] = Cardinality(part[x])
  PROVE  FoldFunctionOnSet(+, 0, h, S) = Cardinality(Together(part, S))
<1> DEFINE pick(T) == CHOOSE x \in T : TRUE
           Recurs(f) == f = [T \in SUBSET S |->
                               IF T = {} THEN 0 ELSE h[pick(T)] + f[T \ {pick(T)}]]
           size == [T \in SUBSET S |-> Cardinality(Together(part, T))]
           sum  == CHOOSE f : Recurs(f)
<1>0. \A T : T # {} => pick(T) \in T
  OBVIOUS
<1>1. FoldFunctionOnSet(+, 0, h, S) = sum[S]
  BY DEF FoldFunctionOnSet, MapThenFoldSet
<1> HIDE DEF pick
<1>2. ASSUME NEW T \in SUBSET S
      PROVE  size[T] = IF T = {} THEN 0 ELSE h[pick(T)] + size[T \ {pick(T)}]
  <2>1. CASE T = {}
    <3>1. Together(part, T) = {}
      BY <2>1 DEF Together
    <3> QED
      BY <2>1, <3>1, FS_EmptySet
  <2>2. CASE T # {}
    BY <1>0, <2>2, OnePartMore
  <2> QED
    BY <2>1, <2>2
<1>3. Recurs(size)
  <2>1. size = [T \in SUBSET S |-> size[T]]
    OBVIOUS
  <2> HIDE DEF size
  <2> QED
    BY <1>2, <2>1
<1>4. Recurs(sum)
  <2> HIDE DEF size, Recurs
  <2> QED
    BY <1>3
<1> HIDE DEF size, sum
<1>5. \A T \in SUBSET S :
        sum[T] = IF T = {} THEN 0 ELSE h[pick(T)] + sum[T \ {pick(T)}]
  BY <1>4
<1>6. \A T \in SUBSET S : T # {} => h[pick(T)] = Cardinality(part[pick(T)])
  BY <1>0
<1> HIDE DEF Recurs
<1>7. sum[S] = Cardinality(Together(part, S))
  BY <1>0, <1>5, <1>6, SizeByParts
<1> QED
  BY <1>1, <1>7

(* A row of k places has k of them.                                        *)
LEMMA RowOfPlaces ==
  ASSUME NEW o, NEW k \in Nat
  PROVE  IsFiniteSet({o} \X (1 .. k)) /\ Cardinality({o} \X (1 .. k)) = k
<1> DEFINE row == [n \in 1 .. k |-> <<o, n>>]
<1>0. /\ row \in [1 .. k -> {o} \X (1 .. k)]
      /\ \A m, n \in 1 .. k : row[m] = row[n] => m = n
      /\ \A p \in {o} \X (1 .. k) : p[2] \in 1 .. k /\ p = row[p[2]]
  OBVIOUS
<1> HIDE DEF row
<1>1. row \in Bijection(1 .. k, {o} \X (1 .. k))
  <2>1. row \in Injection(1 .. k, {o} \X (1 .. k))
    BY <1>0 DEF Injection, IsInjective
  <2>2. row \in Surjection(1 .. k, {o} \X (1 .. k))
    BY <1>0 DEF Surjection
  <2> QED
    BY <2>1, <2>2 DEF Bijection
<1>2. ExistsBijection(1 .. k, {o} \X (1 .. k))
  BY <1>1 DEF ExistsBijection
<1> QED
  BY <1>2, FS_NatBijection, FS_CountingElements

(* The places of the networks, organization by organization.               *)
PlacesOf(c) ==
  [o \in DOMAIN c.organizations |-> {o} \X DOMAIN c.organizations[o].networks]

(* They share nothing, and make up all the places.                         *)
LEMMA PlacesByOrganization ==
  ASSUME NEW c, IsCity(c)
  PROVE  /\ IsFiniteSet(DOMAIN c.organizations)
         /\ Apart(PlacesOf(c), DOMAIN c.organizations)
         /\ Together(PlacesOf(c), DOMAIN c.organizations) = NetPlaces(c)
         /\ \A o \in DOMAIN c.organizations :
              /\ Len(c.organizations[o].networks) \in Nat
              /\ Len(c.organizations[o].networks) = Cardinality(PlacesOf(c)[o])
<1>1. IsFiniteSet(DOMAIN c.organizations)
  BY CityLists, FirstNumbers
<1>2. ASSUME NEW o \in DOMAIN c.organizations
      PROVE  /\ Len(c.organizations[o].networks) \in Nat
             /\ IsFiniteSet(PlacesOf(c)[o])
             /\ Len(c.organizations[o].networks) = Cardinality(PlacesOf(c)[o])
  <2> DEFINE k == Len(c.organizations[o].networks)
  <2>1. k \in Nat /\ PlacesOf(c)[o] = {o} \X (1 .. k)
    BY OrganizationLists DEF PlacesOf
  <2> HIDE DEF k
  <2>2. IsFiniteSet({o} \X (1 .. k)) /\ Cardinality({o} \X (1 .. k)) = k
    BY <2>1, RowOfPlaces
  <2> QED
    BY <2>1, <2>2 DEF k
<1>3. \A o, q \in DOMAIN c.organizations :
        o # q => PlacesOf(c)[o] \cap PlacesOf(c)[q] = {}
  BY DEF PlacesOf
<1>4. Together(PlacesOf(c), DOMAIN c.organizations) = NetPlaces(c)
  BY DEF Together, PlacesOf, NetPlaces
<1> QED
  BY <1>1, <1>2, <1>3, <1>4 DEF Apart

-----------------------------------------------------------------------------
(* The draw does not matter: two plans of one city differ in the names of  *)
(* the indices only.                                                       *)

(* A set of places has a first and a last one.                             *)
LEMMA FirstPlace ==
  ASSUME NEW n \in Nat, NEW A \in SUBSET (1 .. n), A # {}
  PROVE  \E m \in A : \A j \in A : m <= j
<1>1. Cardinality(A) \in 0 .. n /\ Cardinality(A) # 0 /\ 1 \in 1 .. Cardinality(A)
  <2>1. IsFiniteSet(A) /\ Cardinality(A) \in 0 .. n
    BY PlacesFinite
  <2>2. Cardinality(A) # 0
    BY <2>1, FS_EmptySet
  <2> QED
    BY <2>1, <2>2
<1>2. PlaceOf(A, 1) \in A /\ Cardinality({j \in A : j <= PlaceOf(A, 1)}) = 1
  BY <1>1, PlaceOfRank
<1> DEFINE m == PlaceOf(A, 1)
           upto == {j \in A : j <= m}
<1>3. IsFiniteSet(upto)
  <2>1. upto \in SUBSET (1 .. n)
    OBVIOUS
  <2> QED
    BY <2>1, PlacesFinite
<1>4. PICK x : upto = {x}
  <2>1. Cardinality(upto) = 1
    BY <1>2
  <2> HIDE DEF upto
  <2> QED
    BY <1>3, <2>1, FS_Singleton
<1>5. \A j \in A : j \in Nat
  OBVIOUS
<1>6. m \in A /\ m \in Nat
  BY <1>2, <1>5
<1> HIDE DEF m
<1>7. \A j \in A : j <= m => j = m
  <2>1. m \in upto
    BY <1>6
  <2>2. \A j \in A : j <= m => j \in upto
    OBVIOUS
  <2> QED
    BY <1>4, <2>1, <2>2
<1> QED
  BY <1>5, <1>6, <1>7

(* The last one, likewise.                                                 *)
LEMMA LastPlace ==
  ASSUME NEW n \in Nat, NEW A \in SUBSET (1 .. n), A # {}
  PROVE  \E m \in A : \A j \in A : j <= m
<1> DEFINE k == Cardinality(A)
<1>1. IsFiniteSet(A) /\ k \in 0 .. n
  BY PlacesFinite
<1>2. k # 0
  BY <1>1, FS_EmptySet
<1>3. k \in 1 .. k
  BY <1>1, <1>2
<1>4. PlaceOf(A, k) \in A /\ Cardinality({j \in A : j <= PlaceOf(A, k)}) = k
  BY <1>3, PlaceOfRank
<1> DEFINE m == PlaceOf(A, k)
           upto == {j \in A : j <= m}
<1>5. upto \in SUBSET A /\ Cardinality(upto) = Cardinality(A) /\ m \in A
  BY <1>4
<1> HIDE DEF k, m
<1>6. upto = A
  BY <1>1, <1>5, FS_Subset
<1> QED
  BY <1>5, <1>6

(* An id of the list is found where it stands last.                        *)
LEMMA LastWithIdFound ==
  ASSUME NEW n \in Nat, NEW items, DOMAIN items = 1 .. n, NEW id \in Ids(items)
  PROVE  /\ LastWithId(items, id) \in 1 .. n
         /\ items[LastWithId(items, id)].id = id
         /\ \A j \in 1 .. n : items[j].id = id => j <= LastWithId(items, id)
<1> DEFINE A == {i \in 1 .. n : items[i].id = id}
<1>1. A \in SUBSET (1 .. n) /\ A # {}
  BY DEF Ids
<1>2. \E m \in A : \A j \in A : j <= m
  BY <1>1, LastPlace
<1>3. \E m \in DOMAIN items : /\ items[m].id = id
                              /\ \A j \in DOMAIN items : items[j].id = id => j <= m
  BY <1>2
<1> QED
  BY <1>3 DEF LastWithId

(* A merged dict keeps the value of the last dict that has the key.        *)
LEMMA LastWithKeyFound ==
  ASSUME NEW n \in Nat, NEW dicts, DOMAIN dicts = 1 .. n,
         NEW k, NEW q \in 1 .. n, k \in DOMAIN dicts[q]
  PROVE  /\ LastWithKey(dicts, k) \in 1 .. n
         /\ k \in DOMAIN dicts[LastWithKey(dicts, k)]
         /\ \A p \in 1 .. n : k \in DOMAIN dicts[p] => p <= LastWithKey(dicts, k)
<1> DEFINE A == {o \in 1 .. n : k \in DOMAIN dicts[o]}
<1>1. A \in SUBSET (1 .. n) /\ A # {}
  OBVIOUS
<1>2. \E m \in A : \A j \in A : j <= m
  BY <1>1, LastPlace
<1>3. \E m \in DOMAIN dicts : /\ k \in DOMAIN dicts[m]
                              /\ \A p \in DOMAIN dicts : k \in DOMAIN dicts[p] => p <= m
  BY <1>2
<1> QED
  BY <1>3 DEF LastWithKey

(* Dicts with the same keys are merged to the same keys,                   *)
LEMMA MergedKeysAlike ==
  ASSUME NEW d, NEW e, DOMAIN d = DOMAIN e,
         \A o \in DOMAIN d : DOMAIN d[o] = DOMAIN e[o]
  PROVE  DOMAIN Merged(d) = DOMAIN Merged(e)
<1>1. /\ DOMAIN Merged(d) = UNION {DOMAIN d[o] : o \in DOMAIN d}
      /\ DOMAIN Merged(e) = UNION {DOMAIN e[o] : o \in DOMAIN e}
  BY MergedKeys
<1>2. \A k : k \in DOMAIN Merged(d) <=> \E o \in DOMAIN d : k \in DOMAIN d[o]
  BY <1>1
<1>3. \A k : k \in DOMAIN Merged(e) <=> \E o \in DOMAIN e : k \in DOMAIN e[o]
  BY <1>1
<1> QED
  BY <1>2, <1>3

(* each from the same place.                                               *)
LEMMA MergedAlike ==
  ASSUME NEW n \in Nat, NEW d, NEW e, DOMAIN d = 1 .. n, DOMAIN e = 1 .. n,
         \A o \in 1 .. n : DOMAIN d[o] = DOMAIN e[o],
         NEW k \in DOMAIN Merged(d)
  PROVE  \E o \in 1 .. n : /\ k \in DOMAIN d[o]
                           /\ Merged(d)[k] = d[o][k] /\ Merged(e)[k] = e[o][k]
<1>0. /\ DOMAIN Merged(d) = UNION {DOMAIN d[x] : x \in 1 .. n}
      /\ DOMAIN Merged(e) = UNION {DOMAIN e[x] : x \in 1 .. n}
  BY MergedKeys
<1>1. PICK q \in 1 .. n : k \in DOMAIN d[q]
  BY <1>0
<1>2. k \in DOMAIN e[q] /\ k \in DOMAIN Merged(e)
  BY <1>0, <1>1
<1> DEFINE o == LastWithKey(d, k)
           p == LastWithKey(e, k)
<1>3. /\ o \in 1 .. n /\ k \in DOMAIN d[o]
      /\ \A r \in 1 .. n : k \in DOMAIN d[r] => r <= o
  BY <1>1, LastWithKeyFound
<1>4. /\ p \in 1 .. n /\ k \in DOMAIN e[p]
      /\ \A r \in 1 .. n : k \in DOMAIN e[r] => r <= p
  BY <1>2, LastWithKeyFound
<1>5. Merged(d)[k] = d[o][k] /\ Merged(e)[k] = e[p][k]
  BY <1>2 DEF Merged
<1> HIDE DEF o, p
<1>6. o = p
  BY <1>3, <1>4
<1> QED
  BY <1>3, <1>5, <1>6

(* The plans p and q of city c say the same, p with the indices ix and q   *)
(* with iy.                                                                *)
Alike(c, p, q, ix, iy) ==
  LET draws == 1 .. Len(c.organizations)
  IN  /\ \A id \in OrgIds(c) : \E i \in draws :
           p.org_index[id] = ix[i] /\ q.org_index[id] = iy[i]
      /\ DOMAIN p.net_cidr = DOMAIN q.net_cidr
      /\ \A id \in DOMAIN p.net_cidr : \E i \in draws : \E t :
           p.net_cidr[id] = <<ix[i], t>> /\ q.net_cidr[id] = <<iy[i], t>>
      /\ DOMAIN p.svc_ip = DOMAIN q.svc_ip
      /\ \A id \in DOMAIN p.svc_ip : \E i \in draws : \E t, h :
           p.svc_ip[id] = <<ix[i], t, h>> /\ q.svc_ip[id] = <<iy[i], t, h>>

(* The index comes into a CIDR as its first octet, and nowhere else.       *)
LEMMA OrgCidrAt ==
  ASSUME NEW org, NEW id \in Ids(org.networks), NEW i
  PROVE  OrgCidrs(org, i)[id] = <<i, ThirdOf(org.networks, LastWithId(org.networks, id))>>
BY DEF OrgCidrs

(* So too into an address: the service whose address stays is one that the *)
(* organization has bound, so its network has a CIDR.                      *)
LEMMA OrgAddressOf ==
  ASSUME NEW c, IsCity(c), NEW org,
         NEW id \in {c.services[s].id : s \in OrgBound(c, org)}, NEW i
  PROVE  OrgAddresses(c, org, i)[id] =
           <<i, ThirdOf(org.networks,
                        LastWithId(org.networks,
                                   c.services[LastBound(c, org, id)].network_id)),
             HostOf(c, org, LastBound(c, org, id))>>
<1> DEFINE last == LastBound(c, org, id)
           net  == c.services[last].network_id
           third == ThirdOf(org.networks, LastWithId(org.networks, net))
           A    == {s \in OrgBound(c, org) : c.services[s].id = id}
<1>1. Len(c.services) \in Nat /\ DOMAIN c.services = 1 .. Len(c.services)
  BY CityLists
<1>2. A \in SUBSET (1 .. Len(c.services)) /\ A # {}
  BY <1>1 DEF OrgBound
<1>3. \E s \in A : \A t \in A : t <= s
  BY <1>1, <1>2, LastPlace
<1>4. \E s \in OrgBound(c, org) :
        /\ c.services[s].id = id
        /\ \A t \in OrgBound(c, org) : c.services[t].id = id => t <= s
  BY <1>3
<1>5. last \in OrgBound(c, org)
  BY <1>4 DEF LastBound
<1>6. net \in Ids(org.networks)
  BY <1>5 DEF OrgBound, Binds
<1>7. OrgAddresses(c, org, i)[id] =
        <<OrgCidrs(org, i)[net][1], OrgCidrs(org, i)[net][2], HostOf(c, org, last)>>
  BY OrgAddressAt
<1> HIDE DEF net, last
<1>8. OrgCidrs(org, i)[net] = <<i, third>>
  BY <1>6, OrgCidrAt
<1> HIDE DEF third
<1>9. OrgAddresses(c, org, i)[id] = <<i, third, HostOf(c, org, last)>>
  BY <1>7, <1>8
<1> QED
  BY <1>9 DEF third, net, last

(* Two plans of one city are alike, whatever ids it repeats.               *)
LEMMA PlansAlike ==
  ASSUME NEW c, IsCity(c), NEW ix, NEW iy
  PROVE  Alike(c, Plan(c, ix), Plan(c, iy), ix, iy)
<1> DEFINE orgs == c.organizations
           n    == Len(orgs)
           p    == Plan(c, ix)
           q    == Plan(c, iy)
           at(o) == LastWithId(orgs, orgs[o].id)
<1>1. n \in Nat /\ DOMAIN orgs = 1 .. n
  BY CityLists
<1>2. ASSUME NEW id \in OrgIds(c)
      PROVE  /\ LastWithId(orgs, id) \in 1 .. n
             /\ \A k : OrgIndex(c, k)[id] = k[LastWithId(orgs, id)]
  BY <1>1, LastWithIdFound DEF OrgIds, OrgIndex
<1>3. \A id \in OrgIds(c) : \E i \in 1 .. n :
        p.org_index[id] = ix[i] /\ q.org_index[id] = iy[i]
  BY <1>2, PlanIndex
<1>4. \A o \in 1 .. n : /\ at(o) \in 1 .. n
                        /\ \A k : OrgIndex(c, k)[orgs[o].id] = k[at(o)]
  BY <1>1, <1>2 DEF OrgIds, Ids
<1>5. /\ DOMAIN p.net_cidr = DOMAIN q.net_cidr
      /\ \A id \in DOMAIN p.net_cidr : \E i \in 1 .. n : \E t :
           p.net_cidr[id] = <<ix[i], t>> /\ q.net_cidr[id] = <<iy[i], t>>
  <2> DEFINE d(k) == [o \in DOMAIN orgs |-> OrgCidrs(orgs[o], OrgIndex(c, k)[orgs[o].id])]
  <2>1. p.net_cidr = Merged(d(ix)) /\ q.net_cidr = Merged(d(iy))
    BY PlanCidrs
  <2>2. \A k : /\ DOMAIN d(k) = 1 .. n
               /\ \A o \in 1 .. n : /\ d(k)[o] = OrgCidrs(orgs[o], k[at(o)])
                                     /\ DOMAIN d(k)[o] = Ids(orgs[o].networks)
    BY <1>1, <1>4 DEF OrgCidrs
  <2> HIDE DEF d
  <2>3. \A o \in 1 .. n : DOMAIN d(ix)[o] = DOMAIN d(iy)[o]
    BY <2>2
  <2>4. DOMAIN Merged(d(ix)) = DOMAIN Merged(d(iy))
    BY <2>2, <2>3, MergedKeysAlike
  <2>5. ASSUME NEW id \in DOMAIN Merged(d(ix))
        PROVE  \E i \in 1 .. n : \E t :
                 Merged(d(ix))[id] = <<ix[i], t>> /\ Merged(d(iy))[id] = <<iy[i], t>>
    <3>1. PICK o \in 1 .. n : /\ id \in DOMAIN d(ix)[o]
                              /\ Merged(d(ix))[id] = d(ix)[o][id]
                              /\ Merged(d(iy))[id] = d(iy)[o][id]
      BY <1>1, <2>2, <2>3, MergedAlike
    <3>2. id \in Ids(orgs[o].networks)
      BY <2>2, <3>1
    <3> DEFINE t == ThirdOf(orgs[o].networks, LastWithId(orgs[o].networks, id))
    <3>3. \A k : d(k)[o][id] = <<k[at(o)], t>>
      BY <2>2, <3>2, OrgCidrAt
    <3>4. Merged(d(ix))[id] = <<ix[at(o)], t>> /\ Merged(d(iy))[id] = <<iy[at(o)], t>>
      BY <3>1, <3>3
    <3> QED
      BY <1>4, <3>4
  <2> QED
    BY <2>1, <2>4, <2>5
<1>6. /\ DOMAIN p.svc_ip = DOMAIN q.svc_ip
      /\ \A id \in DOMAIN p.svc_ip : \E i \in 1 .. n : \E t, h :
           p.svc_ip[id] = <<ix[i], t, h>> /\ q.svc_ip[id] = <<iy[i], t, h>>
  <2> DEFINE d(k) == [o \in DOMAIN orgs |-> OrgAddresses(c, orgs[o], OrgIndex(c, k)[orgs[o].id])]
             bound(o) == {c.services[s].id : s \in OrgBound(c, orgs[o])}
  <2>1. p.svc_ip = Merged(d(ix)) /\ q.svc_ip = Merged(d(iy))
    BY PlanAddresses
  <2>2. \A k : /\ DOMAIN d(k) = 1 .. n
               /\ \A o \in 1 .. n : /\ d(k)[o] = OrgAddresses(c, orgs[o], k[at(o)])
                                     /\ DOMAIN d(k)[o] = bound(o)
    BY <1>1, <1>4 DEF OrgAddresses
  <2> HIDE DEF d, bound
  <2>3. \A o \in 1 .. n : DOMAIN d(ix)[o] = DOMAIN d(iy)[o]
    BY <2>2
  <2>4. DOMAIN Merged(d(ix)) = DOMAIN Merged(d(iy))
    BY <2>2, <2>3, MergedKeysAlike
  <2>5. ASSUME NEW id \in DOMAIN Merged(d(ix))
        PROVE  \E i \in 1 .. n : \E t, h : /\ Merged(d(ix))[id] = <<ix[i], t, h>>
                                            /\ Merged(d(iy))[id] = <<iy[i], t, h>>
    <3>1. PICK o \in 1 .. n : /\ id \in DOMAIN d(ix)[o]
                              /\ Merged(d(ix))[id] = d(ix)[o][id]
                              /\ Merged(d(iy))[id] = d(iy)[o][id]
      BY <1>1, <2>2, <2>3, MergedAlike
    <3>2. id \in bound(o)
      BY <2>2, <3>1
    <3> DEFINE last == LastBound(c, orgs[o], id)
               t == ThirdOf(orgs[o].networks,
                            LastWithId(orgs[o].networks, c.services[last].network_id))
               h == HostOf(c, orgs[o], last)
    <3>3. id \in {c.services[s].id : s \in OrgBound(c, orgs[o])}
      BY <3>2 DEF bound
    <3>4. \A k : OrgAddresses(c, orgs[o], k[at(o)])[id] = <<k[at(o)], t, h>>
      BY <3>3, OrgAddressOf
    <3> HIDE DEF t, h
    <3>5. \A k : d(k)[o][id] = <<k[at(o)], t, h>>
      BY <2>2, <3>4
    <3>6. Merged(d(ix))[id] = <<ix[at(o)], t, h>> /\ Merged(d(iy))[id] = <<iy[at(o)], t, h>>
      BY <3>1, <3>5
    <3>7. at(o) \in 1 .. n
      BY <1>4
    <3> HIDE DEF at
    <3> QED
      BY <3>6, <3>7
  <2> QED
    BY <2>1, <2>4, <2>5
<1> QED
  BY <1>3, <1>5, <1>6 DEF Alike

(* Rule by rule: what is compared are indices of one plan with each other, *)
(* which are equal in the one as they are in the other.                    *)

(* The two draws tell the same organizations apart.                        *)
SameDraws(n, ix, iy) == \A i, j \in 1 .. n : ix[i] = ix[j] <=> iy[i] = iy[j]

(* Rule `network-index`.                                                   *)
LEMMA IndexRuleAlike ==
  ASSUME NEW c, NEW p, NEW q, NEW ix, NEW iy, Alike(c, p, q, ix, iy),
         SameDraws(Len(c.organizations), ix, iy), IsCity(c)
  PROVE  NetworkIndexRule(c, p) = NetworkIndexRule(c, q)
<1> DEFINE orgs == c.organizations
           P(i, j) == p.org_index[orgs[j].id] = p.org_index[orgs[i].id]
           Q(i, j) == q.org_index[orgs[j].id] = q.org_index[orgs[i].id]
<1>1. DOMAIN orgs = 1 .. Len(orgs) /\ Len(orgs) \in Nat
  BY CityLists
<1>2. ASSUME NEW i \in DOMAIN orgs, NEW j \in DOMAIN orgs PROVE P(i, j) <=> Q(i, j)
  <2>1. orgs[i].id \in OrgIds(c) /\ orgs[j].id \in OrgIds(c)
    BY DEF OrgIds, Ids
  <2>2. PICK k \in 1 .. Len(orgs) : /\ p.org_index[orgs[i].id] = ix[k]
                                   /\ q.org_index[orgs[i].id] = iy[k]
    BY <2>1 DEF Alike
  <2>3. PICK l \in 1 .. Len(orgs) : /\ p.org_index[orgs[j].id] = ix[l]
                                   /\ q.org_index[orgs[j].id] = iy[l]
    BY <2>1 DEF Alike
  <2> QED
    BY <2>2, <2>3 DEF SameDraws
<1>3. \A i \in DOMAIN orgs : 1 .. i - 1 \subseteq DOMAIN orgs
  BY <1>1
<1> HIDE DEF P, Q
<1>4. {i \in DOMAIN orgs : \E j \in 1 .. i - 1 : P(i, j)}
        = {i \in DOMAIN orgs : \E j \in 1 .. i - 1 : Q(i, j)}
  BY <1>2, <1>3
<1> QED
  BY <1>4 DEF NetworkIndexRule, P, Q

(* Rule `ip-in-network`.                                                   *)
LEMMA InNetworkRuleAlike ==
  ASSUME NEW c, NEW p, NEW q, NEW ix, NEW iy, Alike(c, p, q, ix, iy),
         SameDraws(Len(c.organizations), ix, iy)
  PROVE  IpInNetworkRule(c, p) = IpInNetworkRule(c, q)
<1> DEFINE Wrong(x, svc) ==
             /\ svc.id \in DOMAIN x.svc_ip
             /\ svc.network_id \in DOMAIN x.net_cidr
             /\ <<x.svc_ip[svc.id][1], x.svc_ip[svc.id][2]>> # x.net_cidr[svc.network_id]
<1>1. ASSUME NEW svc PROVE Wrong(p, svc) <=> Wrong(q, svc)
  <2>1. /\ DOMAIN p.net_cidr = DOMAIN q.net_cidr
        /\ DOMAIN p.svc_ip = DOMAIN q.svc_ip
    BY DEF Alike
  <2>2. CASE svc.id \in DOMAIN p.svc_ip /\ svc.network_id \in DOMAIN p.net_cidr
    <3>1. PICK i \in 1 .. Len(c.organizations) : \E t, h :
            p.svc_ip[svc.id] = <<ix[i], t, h>> /\ q.svc_ip[svc.id] = <<iy[i], t, h>>
      BY <2>2 DEF Alike
    <3>2. PICK t, h :
            p.svc_ip[svc.id] = <<ix[i], t, h>> /\ q.svc_ip[svc.id] = <<iy[i], t, h>>
      BY <3>1
    <3>3. PICK j \in 1 .. Len(c.organizations) : \E u :
            /\ p.net_cidr[svc.network_id] = <<ix[j], u>>
            /\ q.net_cidr[svc.network_id] = <<iy[j], u>>
      BY <2>2 DEF Alike
    <3>4. PICK u : /\ p.net_cidr[svc.network_id] = <<ix[j], u>>
                   /\ q.net_cidr[svc.network_id] = <<iy[j], u>>
      BY <3>3
    <3>5. ix[i] = ix[j] <=> iy[i] = iy[j]
      BY DEF SameDraws
    <3> QED
      BY <2>1, <2>2, <3>2, <3>4, <3>5
  <2> QED
    BY <2>1, <2>2
<1>2. \A x : IpInNetworkRule(c, x) =
        Issues("ip-in-network", {i \in Placed(c) : Wrong(x, c.services[i])})
  BY DEF IpInNetworkRule
<1> HIDE DEF Wrong
<1>3. {i \in Placed(c) : Wrong(p, c.services[i])} = {i \in Placed(c) : Wrong(q, c.services[i])}
  BY <1>1
<1> QED
  BY <1>2, <1>3

(* Rule `ip-unique`.                                                       *)
LEMMA UniqueRuleAlike ==
  ASSUME NEW c, NEW p, NEW q, NEW ix, NEW iy, Alike(c, p, q, ix, iy),
         SameDraws(Len(c.organizations), ix, iy)
  PROVE  IpUniqueRule(c, p) = IpUniqueRule(c, q)
<1> DEFINE svcs == c.services
           Holds(x, i) == svcs[i].network_id # NoNetwork /\ svcs[i].id \in DOMAIN x.svc_ip
           Same(x, i, j) == x.svc_ip[svcs[j].id] = x.svc_ip[svcs[i].id]
           Again(x) ==
             {i \in DOMAIN svcs :
                Holds(x, i) /\ \E j \in 1 .. i - 1 :
                  /\ Holds(x, j)
                  /\ svcs[j].network_id = svcs[i].network_id
                  /\ Same(x, i, j)}
<1>1. DOMAIN p.svc_ip = DOMAIN q.svc_ip
  BY DEF Alike
<1>2. \A i : Holds(p, i) <=> Holds(q, i)
  BY <1>1
<1>3. ASSUME NEW a \in DOMAIN p.svc_ip, NEW b \in DOMAIN p.svc_ip
      PROVE  p.svc_ip[b] = p.svc_ip[a] <=> q.svc_ip[b] = q.svc_ip[a]
  <2>1. PICK i \in 1 .. Len(c.organizations) : \E t, h :
          p.svc_ip[a] = <<ix[i], t, h>> /\ q.svc_ip[a] = <<iy[i], t, h>>
    BY DEF Alike
  <2>2. PICK t, h : p.svc_ip[a] = <<ix[i], t, h>> /\ q.svc_ip[a] = <<iy[i], t, h>>
    BY <2>1
  <2>3. PICK j \in 1 .. Len(c.organizations) : \E u, g :
          p.svc_ip[b] = <<ix[j], u, g>> /\ q.svc_ip[b] = <<iy[j], u, g>>
    BY DEF Alike
  <2>4. PICK u, g : p.svc_ip[b] = <<ix[j], u, g>> /\ q.svc_ip[b] = <<iy[j], u, g>>
    BY <2>3
  <2>5. ix[i] = ix[j] <=> iy[i] = iy[j]
    BY DEF SameDraws
  <2> QED
    BY <2>2, <2>4, <2>5
<1>4. \A i, j : Holds(p, i) /\ Holds(p, j) => (Same(p, i, j) <=> Same(q, i, j))
  BY <1>3
<1>5. \A x : IpUniqueRule(c, x) = Issues("ip-unique", Again(x))
  BY DEF IpUniqueRule
<1> HIDE DEF Holds, Same
<1>6. Again(p) = Again(q)
  BY <1>2, <1>4
<1> QED
  BY <1>5, <1>6

(* Rule `network-overlap`.                                                 *)
LEMMA OverlapRuleAlike ==
  ASSUME NEW c, NEW p, NEW q, NEW ix, NEW iy, Alike(c, p, q, ix, iy),
         SameDraws(Len(c.organizations), ix, iy)
  PROVE  NetworkOverlapRule(c, p) = NetworkOverlapRule(c, q)
<1> DEFINE places(x) == {y \in NetPlaces(c) : NetAt(c, y).id \in DOMAIN x.net_cidr}
           At(x, y) == x.net_cidr[NetAt(c, y).id]
           Pairs(x) == {yz \in places(x) \X places(x) :
                          /\ yz[1] # yz[2]
                          /\ NotBefore(yz[2], yz[1])
                          /\ At(x, yz[1]) = At(x, yz[2])}
<1>1. DOMAIN p.net_cidr = DOMAIN q.net_cidr
  BY DEF Alike
<1>2. places(p) = places(q)
  BY <1>1
<1>3. ASSUME NEW a \in DOMAIN p.net_cidr, NEW b \in DOMAIN p.net_cidr
      PROVE  p.net_cidr[a] = p.net_cidr[b] <=> q.net_cidr[a] = q.net_cidr[b]
  <2>1. PICK i \in 1 .. Len(c.organizations) : \E t :
          p.net_cidr[a] = <<ix[i], t>> /\ q.net_cidr[a] = <<iy[i], t>>
    BY DEF Alike
  <2>2. PICK t : p.net_cidr[a] = <<ix[i], t>> /\ q.net_cidr[a] = <<iy[i], t>>
    BY <2>1
  <2>3. PICK j \in 1 .. Len(c.organizations) : \E u :
          p.net_cidr[b] = <<ix[j], u>> /\ q.net_cidr[b] = <<iy[j], u>>
    BY DEF Alike
  <2>4. PICK u : p.net_cidr[b] = <<ix[j], u>> /\ q.net_cidr[b] = <<iy[j], u>>
    BY <2>3
  <2>5. ix[i] = ix[j] <=> iy[i] = iy[j]
    BY DEF SameDraws
  <2> QED
    BY <2>2, <2>4, <2>5
<1>4. \A y, z \in places(p) : At(p, y) = At(p, z) <=> At(q, y) = At(q, z)
  BY <1>3
<1>5. \A x : NetworkOverlapRule(c, x) = Issues("network-overlap", Pairs(x))
  BY DEF NetworkOverlapRule
<1> HIDE DEF places, At
<1>6. Pairs(p) = Pairs(q)
  BY <1>2, <1>4
<1> QED
  BY <1>5, <1>6

(* Rule `ip-scheme`.                                                       *)
LEMMA SchemeRuleAlike ==
  ASSUME NEW c, NEW p, NEW q, NEW ix, NEW iy, Alike(c, p, q, ix, iy),
         SameDraws(Len(c.organizations), ix, iy)
  PROVE  IpSchemeRule(c, p) = IpSchemeRule(c, q)
<1> DEFINE Wrong(x, y) ==
             LET id == NetAt(c, y).id
             IN  /\ id \in DOMAIN x.net_cidr
                 /\ x.net_cidr[id][1] # x.org_index[c.organizations[y[1]].id]
<1>1. ASSUME NEW y \in NetPlaces(c) PROVE Wrong(p, y) <=> Wrong(q, y)
  <2> DEFINE id  == NetAt(c, y).id
             org == c.organizations[y[1]].id
  <2>1. DOMAIN p.net_cidr = DOMAIN q.net_cidr /\ org \in OrgIds(c)
    BY Places DEF Alike, OrgIds, Ids
  <2>2. CASE id \in DOMAIN p.net_cidr
    <3>1. PICK i \in 1 .. Len(c.organizations) : \E t :
            p.net_cidr[id] = <<ix[i], t>> /\ q.net_cidr[id] = <<iy[i], t>>
      BY <2>2 DEF Alike
    <3>2. PICK t : p.net_cidr[id] = <<ix[i], t>> /\ q.net_cidr[id] = <<iy[i], t>>
      BY <3>1
    <3>3. PICK j \in 1 .. Len(c.organizations) :
            p.org_index[org] = ix[j] /\ q.org_index[org] = iy[j]
      BY <2>1 DEF Alike
    <3>4. ix[i] = ix[j] <=> iy[i] = iy[j]
      BY DEF SameDraws
    <3> QED
      BY <2>1, <3>2, <3>3, <3>4
  <2> QED
    BY <2>1, <2>2
<1>2. \A x : IpSchemeRule(c, x) = Issues("ip-scheme", {y \in NetPlaces(c) : Wrong(x, y)})
  BY DEF IpSchemeRule
<1> HIDE DEF Wrong
<1>3. {y \in NetPlaces(c) : Wrong(p, y)} = {y \in NetPlaces(c) : Wrong(q, y)}
  BY <1>1
<1> QED
  BY <1>2, <1>3

(* The rules find the same issues whatever indices the allocator draws,    *)
(* in cities with repeated ids as well: `check` and `build` may each draw  *)
(* their own (checker.py, allocator.py).                                   *)
THEOREM DrawDoesNotMatter ==
  ASSUME NEW c, IsCity(c),
         NEW ix \in Shuffles(Len(c.organizations)),
         NEW iy \in Shuffles(Len(c.organizations))
  PROVE  Check(c, Plan(c, ix)) = Check(c, Plan(c, iy))
<1> DEFINE p == Plan(c, ix)
           q == Plan(c, iy)
<1>1. Alike(c, p, q, ix, iy)
  BY PlansAlike
<1>2. SameDraws(Len(c.organizations), ix, iy)
  BY ShuffledIndices DEF SameDraws
<1> HIDE DEF p, q
<1>3. AddressIssues(c, p) = AddressIssues(c, q)
  BY <1>1, <1>2, IndexRuleAlike, InNetworkRuleAlike, UniqueRuleAlike, OverlapRuleAlike,
     SchemeRuleAlike DEF AddressIssues
<1> QED
  BY <1>3 DEF Check, p, q

=============================================================================
