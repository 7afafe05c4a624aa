--------------------------------- MODULE Sites ---------------------------------
(***************************************************************************)
(* The web sites that a worker process crawls.  They do not change.         *)
(***************************************************************************)
EXTENDS Integers

CONSTANTS
  Hosts,
  Rules,      \* the hosts that have a robots.txt
  CrawlDelay, \* CrawlDelay[h]: its Crawl-delay, 0 if it names none
  Flaky,      \* hosts whose robots.txt requests may fail
  Garbling,   \* hosts whose robots.txt may be misread, or answered with a 4xx
  Pages,      \* the pages to crawl
  HostOf,     \* HostOf[p]: the host of page p
  Disallowed  \* the pages that the robots.txt of their host disallows

ASSUME SiteAssumption ==
  /\ Rules \subseteq Hosts
  /\ CrawlDelay \in [Hosts -> Nat]
  /\ HostOf \in [Pages -> Hosts]
===============================================================================
