----------------------------- MODULE FolderTree -----------------------------
(***************************************************************************)
(* The recursive queries of worker/d1-store.ts over a table of folders:   *)
(* t[f] is the row of folder f, with the folder it lies in as t[f].parent. *)
(* The queries are UNION ALL recursions of SQL: on a table with a cycle    *)
(* they never come to an end.                                              *)
(***************************************************************************)
EXTENDS Integers, FiniteSets, FiniteSetsExt

CONSTANT Root   \* folder_id NULL: the connections and folders of no folder

\* ancestorIds: f itself and every folder above it.
Above(t, f) ==
  LET up[n \in 0 .. Cardinality(DOMAIN t)] ==
        IF n = 0 THEN {f} \cap DOMAIN t
        ELSE LET below == up[n - 1]
             IN below \cup ({t[g].parent : g \in below} \ {Root})
  IN up[Cardinality(DOMAIN t)]

\* descendantRows: f itself and every folder below it.
Below(t, f) == {g \in DOMAIN t : f \in Above(t, g)}

\* folderDepth: folders of the first level have depth 1, Root has 0.
Depth(t, f) == Cardinality(Above(t, f))

\* folderSubtreeHeight; a folder deleted meanwhile has no rows below it.
Height(t, f) == Max({0} \cup {Depth(t, g) - Depth(t, f) + 1 : g \in Below(t, f)})

OnCycle(t, f) == f \in DOMAIN t /\ f \in Above(t, t[f].parent)

\* The query for the folders above f never ends; the one for the folders
\* below f does not when OnCycle(t, f).
Endless(t, f) == \E g \in Above(t, f) : OnCycle(t, g)

Acyclic(t) == \A f \in DOMAIN t : ~OnCycle(t, f)

\* The connections in f and in the folders below it.
HostsIn(t, conns, f) == {c \in DOMAIN conns : f \in Above(t, conns[c].folder)}
=============================================================================
