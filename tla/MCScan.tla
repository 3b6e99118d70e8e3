------------------------------- MODULE MCScan -------------------------------
(***************************************************************************)
(* Small instances of ScanLifecycle for TLC.                               *)
(***************************************************************************)
EXTENDS ScanProperties, TLC

CONSTANTS d, f, u,             \* a directory, a file, a path that cannot be read
          r1, r2,              \* roots
          m1, m2, none,        \* observed metadata
          h1, h2               \* digests

\* One root: a file in a directory.
NestedRootOf == (d :> r1) @@ (f :> r1)
NestedAbove == (d :> {}) @@ (f :> {d})

\* Two roots: a file, and a path that cannot be read.
TwoRootOf == (f :> r1) @@ (u :> r2)
TwoAbove == (f :> {}) @@ (u :> {})

\* One file.
OneRootOf == f :> r1
OneAbove == f :> {}

Everything == {[hash |-> "All", val |-> TRUE]}
NewHashes == {[hash |-> "New", val |-> TRUE]}

Interchangeable == Permutations({m1, m2}) \cup Permutations({h1, h2})
=============================================================================
