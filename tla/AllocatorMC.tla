----------------------------- MODULE AllocatorMC -----------------------------
(***************************************************************************)
(* A small instance of Allocator: two organization indices, two front and  *)
(* two back octets, two hosts to a subnet, and cities at, under and over   *)
(* every one of those limits, with network and service ids that repeat     *)
(* inside an organization and across organizations.                        *)
(***************************************************************************)
EXTENDS Allocator

Net(id, kind) == [id |-> id, kind |-> kind]

Svc(id, org, net) ==
  [id |-> id, org_id |-> org, network_id |-> net, exposure |-> "intranet",
   criticality |-> "medium", honeypot |-> FALSE]

(* The networks of the first organization: every kind, repeated ids, full  *)
(* and overfull pools, one and two management networks.                    *)
NetworkLists ==
  { <<>>,
    <<Net("n1", "dmz"), Net("n2", "internet")>>,
    <<Net("n1", "dmz"), Net("n2", "internet"), Net("n3", "dmz")>>,
    <<Net("n1", "lan"), Net("n2", "ot"), Net("n1", "mgmt")>>,
    <<Net("n1", "ot"), Net("n2", "lan"), Net("n3", "lan")>>,
    <<Net("n1", "mgmt"), Net("n2", "mgmt")>>,
    <<Net("n1", "lan"), Net("n1", "dmz"), Net("n2", "dmz")>> }

OtherNetworkLists ==
  { <<>>,
    <<Net("n1", "lan")>>,
    <<Net("n3", "lan"), Net("n1", "dmz")>>,
    <<Net("n4", "dmz"), Net("n4", "internet")>> }

OrgLists ==
  { <<[id |-> "a", networks |-> x], [id |-> "b", networks |-> y]>> :
      x \in NetworkLists, y \in OtherNetworkLists }
  \cup { <<[id |-> "a", networks |-> x]>> : x \in NetworkLists }
  \cup { <<>>,
         <<[id |-> "a", networks |-> <<>>], [id |-> "b", networks |-> <<>>],
           [id |-> "c", networks |-> <<>>]>> }

SomeServices ==
  { Svc("s1", "a", "n1"), Svc("s2", "a", "n1"), Svc("s1", "b", "n1"),
    Svc("s3", "a", "n2"), Svc("s3", "b", "n4"), Svc("s2", "a", NoNetwork) }

ServiceLists ==
  UNION {[1 .. k -> SomeServices] : k \in 0 .. 2}
  \cup { <<Svc("s1", "a", "n1"), Svc("s3", "b", "n4"), Svc("s2", "a", "n1")>>,
         <<Svc("s1", "a", "n1"), Svc("s2", "b", "n1"), Svc("s3", "a", "n1"),
           Svc("s4", "a", "n1")>> }

MCCities ==
  {[organizations |-> x, services |-> y, links |-> <<>>] :
     x \in OrgLists, y \in ServiceLists}

=============================================================================
