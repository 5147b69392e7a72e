--------------------------- MODULE MCStorageObjects ---------------------------
(***************************************************************************)
(* An instance of StorageObjects for TLC: two objects, so that one upload  *)
(* that cannot be removed stands next to another, and two requests.        *)
(***************************************************************************)
EXTENDS StorageObjects

CONSTANTS o1, o2

\* Every request is made for the first object; the upload of the second is begun.
AskedOfEach == [o \in Objects |-> IF o = o1 THEN Ops ELSE {"init"}]
=============================================================================
