----------------------------- MODULE MCDbReplace -----------------------------
(***************************************************************************)
(* Small instances of DbReplace for TLC: an archive of an older version, with  *)
(* two migrations to go, and a broken one.                                  *)
(***************************************************************************)
EXTENDS DbReplace

CONSTANTS i1, i2, good, broken, fresh, partial

OneImporter == {i1}
TwoImporters == {i1, i2}
BothArchives == {good, broken}
BrokenArchive == {broken}
Older == [a \in BothArchives |-> 0]
==============================================================================
