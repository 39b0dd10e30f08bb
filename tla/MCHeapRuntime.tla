--------------------------- MODULE MCHeapRuntime ---------------------------
(* Small instance of HeapRuntime: three threads of the owner, so that two  *)
(* admitted calls meet a third one and the full counter, and one thread of *)
(* a foreign identity.                                                     *)
EXTENDS HeapRuntime, TLC

CONSTANTS t1, t2, t3, foreign, own

MCThreads == {t1, t2, t3, foreign}
MCOwners == {own}
MCOwnerOf == [t \in MCThreads |-> IF t = foreign THEN NoOwner ELSE own]
MCSymmetry == Permutations({t1, t2, t3})
=============================================================================
