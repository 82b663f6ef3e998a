--------------------------- MODULE MCControlSocket ---------------------------
(***************************************************************************)
(* Instances of ControlSocket for TLC: clients of the proxy that do little *)
(* else than connect, so that there is room for the queries.               *)
(***************************************************************************)
EXTENDS MCSocksServer, ControlSocket

BriefScripts == {<<Hello({"noauth"}), Connect, Host(h1)>>}
IdleScripts == {<<Data>>}

\* The isolation mode plays no part in what a query is told.
MCInit == ControlInit /\ isolation = "shared"
MCSpec == MCInit /\ [][ControlNext]_allVars
MCFairSpec == MCSpec /\ ControlFairness
=============================================================================
