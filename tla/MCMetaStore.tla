---------------------------- MODULE MCMetaStore ----------------------------
(***************************************************************************)
(* Four calls of save_file: two with one uuid, two with one file name, and *)
(* one that overwrites a file and then fails for its long name.            *)
(***************************************************************************)
EXTENDS MetaStore

CONSTANTS u1, u2, n1, n2

MCUuid == << u1, u1, u2, u2 >>
MCFileName == << n1, n2, n2, n1 >>
=============================================================================
