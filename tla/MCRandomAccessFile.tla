------------------------ MODULE MCRandomAccessFile -------------------------
(***************************************************************************)
(* Instances of RandomAccessFile: one file of two-page segments, so that   *)
(* calls span segments and the last segment may be partial; and two files  *)
(* of one-page segments that push each other's segments out of the cache.  *)
(***************************************************************************)
EXTENDS RandomAccessFile

CONSTANTS f1, f2, zero, v1, null

OneFile == {f1}
TwoFiles == {f1, f2}
MCValues == {zero, v1}
=============================================================================
