----------------------- MODULE MCCrawlerThreadHistory -----------------------
(* The small instances of CrawlerThread, with the history of its calls *)
EXTENDS MCCrawlerThread, CrawlerThreadHistory
=============================================================================
