---------------------------- MODULE MCCollection ----------------------------
(***************************************************************************)
(* A small instance of Collection: a ConfigMap and a Secret of one name,   *)
(* two paths of one GitRepository, another one, and an OCIRepository.      *)
(***************************************************************************)
EXTENDS Collection, TLC

CONSTANTS x, y, blank

Ref3(kind, name, path) == [kind |-> kind, name |-> name, path |-> path]
RefSeq == <<Ref3("ConfigMap", x, ""), Ref3("GitRepository", x, "a"),
            Ref3("Secret", x, ""), Ref3("GitRepository", x, "b"),
            Ref3("GitRepository", y, ""), Ref3("OCIRepository", x, "")>>

With(files) == [present |-> TRUE, usable |-> TRUE, files |-> files]
Unusable == [Absent EXCEPT !.present = TRUE]
F1 == <<"a", 1>>
F2 == <<"a", 2>>
F3 == <<"b", 1>>
VersionsOf == [s \in Source |->
  CASE s = <<"ConfigMap", x>> -> {Absent, With(F1 :> <<"p", "q">> @@ F2 :> <<"p", blank>>)}
    [] s = <<"Secret", x>> -> {Unusable, With(F1 :> <<blank, "q">>)}
    [] s = <<"GitRepository", x>> -> {Unusable, With(F1 :> <<"p", "q">> @@ F3 :> <<"q">>),
                                      With(F1 :> <<"p">>)}
    [] s = <<"GitRepository", y>> -> {Absent, With(F1 :> <<"q">> @@ F3 :> <<"p", "p">>)}
    [] s = <<"OCIRepository", x>> -> {With(F1 :> <<"p">>)}]
Counts == [failures |-> 1, fetches |-> 1, changes |-> 1, crashes |-> 1]
=============================================================================
