--------------------------- MODULE MCCrawlRunner ---------------------------
(***************************************************************************)
(* Small instances of CrawlRunner for TLC.                                 *)
(***************************************************************************)
EXTENDS CrawlRunner

CONSTANTS c1, c2, cli, job
=============================================================================
