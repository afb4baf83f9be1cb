------------------------------- MODULE CliMC -------------------------------
(***************************************************************************)
(* A small instance of Cli: models with no fault, a warning, an error of   *)
(* each source, no room for their addresses, or a file that is no text.    *)
(***************************************************************************)
EXTENDS Cli, ValidateMC

FileA ==
  { Unreadable, Malformed,
    Mapping("a", <<Net("n1", "dmz"), Net("n2", "lan")>>,
              <<Shop, Relay>>, <<Lnk("s1", "s3", "api-call")>>),
    Mapping("a", <<Net("n1", "dmz")>>, <<Invalid, Shop>>, <<>>),
    Mapping("a", <<Net("n1", "dmz")>>, <<Shop>>, <<Lnk("s1", "s1", "api-call")>>),
    Mapping("a", <<Net("n1", "mgmt"), Net("n2", "mgmt")>>, <<>>, <<>>) }

FileB ==
  { Mapping("b", <<Net("n3", "lan")>>,
              <<Svc("s3", Unset, "n3", "intranet", FALSE)>>, <<>>),
    Mapping("b", <<Net("n1", "dmz")>>, <<Shop>>, <<>>) }

Files == [d \in {"a", "b"} |-> IF d = "a" THEN FileA ELSE FileB]

=============================================================================
