-------------------------- MODULE MCMetadataPolicy --------------------------
(* Small instances of MetadataPolicy. *)
EXTENDS MetadataPolicy, TLC

CONSTANTS r1, r2, ed, boss, guest, fin, gro, n1, n2

RoleOf == ed :> "editor" @@ boss :> "admin" @@ guest :> "viewer"
TeamOf == ed :> fin @@ boss :> gro @@ guest :> fin

Entry(name, team, level) == [name |-> name, team |-> team, level |-> level]

FewRows == {Entry(n1, fin, "unlisted"), Entry(n2, gro, "sensitive")}
\* An editor may rename, but neither close a dataset off nor give it away.
FewPatches == {Untouched,
               [Untouched EXCEPT !.level = "sensitive"],
               [Untouched EXCEPT !.name = n2],
               [Untouched EXCEPT !.team = gro, !.name = n2]}
Threads == Permutations({r1, r2})
OneEdge == {<<1, 2>>}
TwoSeeds == 1 :> Entry(n1, fin, "open") @@ 2 :> Entry(n2, fin, "sensitive")
=============================================================================
