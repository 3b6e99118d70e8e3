---------------------------- MODULE MCIntegrity ----------------------------
(* Small roots for IntegrityProperties. *)
EXTENDS IntegrityProperties

CONSTANTS f, g, d, e, top, hash1, hash2

\* A file in a folder in a folder.
Deep == (f :> e) @@ (e :> d) @@ (d :> top)

Sight(meta, hash, val) == [meta |-> meta, hash |-> hash, val |-> val]
Untouched == {Sight(1, None, 0)}
Read == {Sight(1, None, 0), Sight(1, hash1, 1), Sight(2, hash2, 2)}
Few == (f :> Read) @@ (e :> Untouched) @@ (d :> Untouched)

\* A folder with a file and a folder with a file, seen in two states each, and
\* six scans before version 19 that leave its newest version inverted.
Wide == (f :> d) @@ (g :> e) @@ (e :> d) @@ (d :> top)
Either == [i \in Items |-> {Sight(1, None, 0), Sight(2, None, 0)}]
Metas(inF, inD, inE, inG) ==
  (f :> Sight(inF, None, 0)) @@ (d :> Sight(inD, None, 0)) @@
  (e :> Sight(inE, None, 0)) @@ (g :> Sight(inG, None, 0))
Turns == <<Metas(1, 1, 1, 1), Metas(1, 2, 2, 1), Metas(1, 2, 1, 1),
           Metas(1, 1, 1, 1), Metas(2, 1, 2, 1), Metas(2, 2, 2, 2)>>
TurnsInit == seen = Turns /\ early = LastScan /\ running = FALSE /\ Init
TurnsSpec == TurnsInit /\ [][Next]_vars
=============================================================================
