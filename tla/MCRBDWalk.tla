----------------------------- MODULE MCRBDWalk ------------------------------
(* RBDWalk on clusters small enough for TLC. *)
EXTENDS RBDWalk, TLC

CONSTANTS rbd, tenants, meta, gone, n1

Image(p, n, name) == [pool |-> p, namespace |-> n, name |-> name]

MCPools == {rbd, tenants, meta}

\* rbd has the same name in two namespaces, tenants keeps its two images in a
\* named one, and meta belongs to another Ceph component.
MCImages == {Image(rbd, Default, "a"), Image(rbd, n1, "a"),
             Image(tenants, n1, "a"), Image(tenants, n1, "b")}

Entry(p, list) == [name |-> p, namespaces |-> list]

\* No selection; and one namespace of rbd, all of tenants, a pool the cluster has
\* not, and rbd a second time.
MCConfigs ==
    {<<>>, <<Entry(rbd, {n1}), Entry(tenants, {}), Entry(gone, {}),
             Entry(rbd, {Default})>>}
=============================================================================
