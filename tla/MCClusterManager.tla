--------------------------- MODULE MCClusterManager ---------------------------
(***************************************************************************)
(* TLC instance of ClusterManager: one static cluster to begin with,       *)
(* whole-cluster writes carry the endpoint i1 at a1, registries edit every *)
(* endpoint ID and address.                                                *)
(***************************************************************************)
EXTENDS ClusterManager, TLC

CONSTANTS c1, i1, a1

MCPayload == {i1 :> a1}
MCBootstrap == {c1 :> (i1 :> a1)}
=============================================================================
