------------------------------- MODULE MCRelease -------------------------------
(* An instance of MagusRelease: a port that needs another at run time.       *)
EXTENDS MagusRelease

MCRunDepends == {<<"app", "lib">>}

(* The port app restricts both of its files; lib has a tagged distfile and   *)
(* one whose path leads out of the directory.                                *)
MCDistfiles == {<<"app", "a.tgz">>, <<"app", "b.tgz">>, <<"lib", "c.tgz:tag">>, <<"lib", "../d">>}
MCRestrictedFiles == {<<"app", "a.tgz">>, <<"app", "b.tgz">>}
MCNormal == [n \in Names |-> CASE n = "c.tgz:tag" -> "c.tgz" [] n = "../d" -> Outside
                              [] OTHER -> n]
(* b.tgz is kept in a directory of its own. *)
MCBase == [f \in Files |-> IF f = "sub/b.tgz" THEN "b.tgz" ELSE f]
=============================================================================
