---------------------------- MODULE MCCrawlItems ----------------------------
(***************************************************************************)
(* Small instances of CrawlItems for TLC.                                  *)
(***************************************************************************)
EXTENDS CrawlItems

CONSTANTS c1, c2
=============================================================================
