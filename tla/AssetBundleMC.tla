---------------------------- MODULE AssetBundleMC ----------------------------
(***************************************************************************)
(* A small instance of AssetBundle: a folder with two files and a folder   *)
(* in it, so that files come and go in the middle of a walk, and a second  *)
(* one that the build comes to before or after it.                         *)
(***************************************************************************)
EXTENDS AssetBundle

FewPlaces == {<<"web", "page">>, <<"web", "image">>, <<"web", "folder">>, <<"db", "page">>}

=============================================================================
