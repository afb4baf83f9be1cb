------------------------------- MODULE ViewsMC -------------------------------
(***************************************************************************)
(* A small instance of Views: the files of ValidateMC, and cities that are *)
(* nearly all accepted, with every combination of a few links within and   *)
(* across two organizations.                                               *)
(***************************************************************************)
EXTENDS ValidateMC, Views, SequencesExt

CrossLinks ==
  {Lnk(from, to, kind) : from, to \in {"s1", "s2", "s3"}, kind \in {"api-call", "db-write"}}

Small(S, n) == {T \in SUBSET S : Cardinality(T) <= n}

LinkLists == {SetToSeq(T) : T \in Small(CrossLinks, 2)}

Web == Svc("s1", Unset, "n1", "public", FALSE)

OpenConfigsA ==
  {Mapping("a", <<Net("n1", "dmz"), Net("n2", "lan")>>,
           <<Web, Svc("s2", Unset, "n2", "intranet", FALSE)>>, links) : links \in LinkLists}

ViewConfigs == [RuleConfigs EXCEPT !["a"] = @ \cup OpenConfigsA]

=============================================================================
