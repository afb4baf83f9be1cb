----------------------------- MODULE ValidateMC -----------------------------
(***************************************************************************)
(* Small instances of Validate: two organization folders, whose config.yml *)
(* files break every rule of the loader and of the checker, alone and in   *)
(* combination, and exceed every limit of the allocator.                   *)
(***************************************************************************)
EXTENDS Validate

Net(id, kind) == [id |-> id, kind |-> kind]

Svc(id, org, net, exposure, honeypot) ==
  [id |-> id, org_id |-> org, network_id |-> net, exposure |-> exposure,
   criticality |-> "medium", honeypot |-> honeypot]

Lnk(from, to, kind) == [from_service |-> from, to_service |-> to, kind |-> kind]

Mapping(id, networks, services, links) ==
  [form |-> "mapping", id |-> id, valid |-> TRUE, networks |-> networks,
   services |-> services, links |-> links]

FolderNames == <<"a", "b">>

-----------------------------------------------------------------------------
(* Every rule: files that stay as they are.                                *)

Decoy == Svc("s1", Unset, "n1", "public", TRUE)
Shop == Svc("s1", "a", "n1", "public", FALSE)
Relay == Svc("s2", Unset, "n2", "intranet", TRUE)

NetworksA ==
  { <<Net("n1", "dmz"), Net("n2", "lan")>>,
    <<Net("n1", "internet"), Net("n1", "lan")>>,
    <<Net("n1", "mgmt"), Net("n2", "ot")>>,
    <<Net("n1", "lan"), Net("n2", "ot")>> }

ServicesA ==
  { <<>>,
    <<Shop, Relay>>,
    <<Decoy, Relay>>,
    <<Decoy, Invalid, Relay>>,
    <<Shop, [Relay EXCEPT !.network_id = "n1"]>>,
    <<Shop, [Shop EXCEPT !.network_id = "n2", !.exposure = "intranet"]>>,
    <<[Decoy EXCEPT !.criticality = "critical"]>>,
    <<Svc("s1", Unset, NoNetwork, "ot", FALSE)>>,
    <<Svc("s1", "b", "n3", "intranet", FALSE)>>,
    <<Svc("s1", "z", "n1", "public", FALSE)>>,
    <<Svc("s1", Unset, "n1", "mgmt", FALSE), Svc("s2", Unset, "n2", "ot", FALSE)>>,
    <<Shop, Svc("s2", Unset, "n1", "public", FALSE),
      Svc("s4", Unset, "n1", "public", FALSE)>> }

LinksA ==
  { <<>>,
    <<Lnk("s1", "s2", "db-write"), Lnk("s2", "s3", "backup-of")>>,
    <<Lnk("s1", "s3", "api-call"), Lnk("s1", "s3", "api-call")>>,
    <<Lnk("s2", "s2", "db-write")>>,
    <<Lnk("s1", "s2", "api-call"), Invalid>>,
    <<Lnk("s1", "s9", "db-write")>> }

ConfigsA ==
  {Mapping("a", x, y, z) : x \in NetworksA, y \in ServicesA, z \in LinksA}
  \cup {Malformed, Unreadable, Mapping("b", <<>>, <<>>, <<>>)}

ConfigsB ==
  { Malformed,
    [Mapping("b", <<>>, <<>>, <<>>) EXCEPT !.valid = FALSE],
    Mapping("b", <<Net("n3", "lan")>>,
            <<Svc("s3", Unset, "n3", "intranet", FALSE)>>, <<>>),
    Mapping("b", <<Net("n3", "lan")>>,
            <<Svc("s3", Unset, "n3", "intranet", TRUE)>>,
            <<Lnk("s3", "s2", "db-write")>>),
    Mapping("b", <<Net("n1", "dmz")>>,
            <<Svc("s1", Unset, "n1", "public", FALSE)>>, <<>>) }

RuleConfigs == [d \in {"a", "b"} |-> IF d = "a" THEN ConfigsA ELSE ConfigsB]

-----------------------------------------------------------------------------
(* Edits: a few files, each of which may turn into the others.             *)

FewA ==
  { Malformed,
    Mapping("a", <<Net("n1", "dmz")>>, <<Shop>>, <<Lnk("s1", "s3", "api-call")>>),
    Mapping("a", <<Net("n1", "dmz"), Net("n2", "lan")>>, <<Invalid, Relay>>,
            <<Lnk("s2", "s3", "db-write")>>),
    Mapping("a", <<>>, <<>>, <<Invalid>>),
    Mapping("b", <<>>, <<>>, <<>>) }

FewB ==
  { [Mapping("b", <<>>, <<>>, <<>>) EXCEPT !.valid = FALSE],
    Mapping("b", <<Net("n3", "lan")>>,
            <<Svc("s3", Unset, "n3", "intranet", FALSE)>>, <<>>),
    Mapping("b", <<Net("n1", "dmz")>>,
            <<Svc("s3", Unset, "n1", "public", TRUE),
              Svc("s1", "a", "n1", "public", FALSE)>>, <<>>) }

EditConfigs == [d \in {"a", "b"} |-> IF d = "a" THEN FewA ELSE FewB]

=============================================================================
