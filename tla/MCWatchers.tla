----------------------------- MODULE MCWatchers -----------------------------
(***************************************************************************)
(* A small instance of Watchers: both providers, and a CRD of neither.     *)
(***************************************************************************)
EXTENDS Watchers, TLC

CONSTANTS capi, flux

Providers == {capi, flux}
Kinds == {"clusters", "machines", "gitrepositories", "ocirepositories", "others"}
Groups == capi :> {"clusters", "machines"} @@ flux :> {"gitrepositories", "ocirepositories"}
CheckedKinds == capi :> "clusters" @@ flux :> "gitrepositories"
WatchedKinds == capi :> <<"clusters", "machines">> @@ flux :> <<"gitrepositories", "ocirepositories">>
WithController == {capi}
Counts == [failures |-> 2, crashes |-> 1, changes |-> 2]
=============================================================================
