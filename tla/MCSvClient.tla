----------------------------- MODULE MCSvClient -----------------------------
(* An instance of SvClient for TLC; its constants are all in SvClient.cfg.   *)
EXTENDS SvClient
=============================================================================
