---------------------------- MODULE MCBlobsTotals ----------------------------
(***************************************************************************)
(* MCBlobsService's instances for BlobsQuota.                              *)
(***************************************************************************)
EXTENDS MCBlobsService, BlobsQuota
=============================================================================
