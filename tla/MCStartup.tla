----------------------------- MODULE MCStartup -----------------------------
(* Small databases for StartupProperties. *)
EXTENDS StartupProperties

TwoScans == {1, 2}
TwoFolders == {3, 4}
TwoItems == {5, 6}
EveryVersion == {0} \cup 2..31
Resumable == {9, 15, 26, 27, 29}
=============================================================================
