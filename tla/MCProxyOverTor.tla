--------------------------- MODULE MCProxyOverTor ---------------------------
(***************************************************************************)
(* An instance of ProxyOverTor for TLC.                                    *)
(***************************************************************************)
EXTENDS MCSocksServer, ProxyOverTor

BriefScripts == {<<Hello({"noauth"}), Connect, Host(h1)>>}

\* The isolation mode plays no part in when arti answers.
MCInit == ProxyInit /\ isolation = "shared"
MCSpec == MCInit /\ [][ProxyNext]_proxyVars /\ ProxyFairness
=============================================================================
