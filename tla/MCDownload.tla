----------------------------- MODULE MCDownload -----------------------------
(* Bounded instance of Download.                                           *)
EXTENDS Download
=============================================================================
