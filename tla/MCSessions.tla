----------------------------- MODULE MCSessions -----------------------------
(***************************************************************************)
(* A small instance of Sessions for TLC: a browser with two tabs and a     *)
(* second device.                                                          *)
(***************************************************************************)
EXTENDS Sessions, TLC

CONSTANTS tab1, tab2, app

TwoJars == {"browser", "phone"}
ThreeTabs == {tab1, tab2, app}
JarOfTab == (tab1 :> "browser") @@ (tab2 :> "browser") @@ (app :> "phone")
AnyTab == Permutations({tab1, tab2})
=============================================================================
