------------------------------ MODULE ChangesMC ------------------------------
(***************************************************************************)
(* A small instance of Changes: cities that differ by an item that is      *)
(* added, removed, changed, or in another place of its list.               *)
(***************************************************************************)
EXTENDS Changes

Item(key, body) == [key |-> key, body |-> body]

City(organizations, services, links) ==
  [c \in Category |-> CASE c = "organization" -> organizations
                        [] c = "service"      -> services
                        [] c = "link"         -> links]

Bank   == Item("bank", "as it was")
Clinic == Item("clinic", "as it was")
Web    == Item("web", "as it was")
Db     == Item("db", "as it was")
Flow   == Item(<<"web", "db", "api-call">>, "tls")

BankOnly   == City(<<Bank>>, <<Web>>, <<>>)
Both       == City(<<Bank, Clinic>>, <<Web, Db>>, <<Flow>>)
OtherOrder == City(<<Clinic, Bank>>, <<Db, Web>>, <<Flow>>)
Altered    == City(<<Clinic>>, <<Item("web", "altered"), Db>>,
                   <<Item(<<"web", "db", "api-call">>, "mtls")>>)

(* Written by hand: an id that is there twice.                             *)
Repeated   == City(<<Bank, Bank>>, <<Web, Item("web", "altered")>>, <<>>)

FewCities == {BankOnly, Both, OtherOrder, Altered}

FewNetworks == FewCities \cup {Repeated}

FewHistories == {<<>>, <<NoFile>>, <<Foreign>>, <<Both, Repeated>>}

=============================================================================
