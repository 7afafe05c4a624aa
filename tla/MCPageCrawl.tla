------------------------------ MODULE MCPageCrawl ------------------------------
(***************************************************************************)
(* Three hosts for TLC.  Requests for the robots.txt of x may fail, that of *)
(* y names no delay and may be misread, and that of z is always read.       *)
(***************************************************************************)
EXTENDS RequestTimes, TLC

CONSTANTS x, y, z, x1, x2, y1, z1, z2, f1, f2

Delays == x :> 3 @@ y :> 0 @@ z :> 2

HostOfPage == x1 :> x @@ x2 :> x @@ y1 :> y @@ z1 :> z @@ z2 :> z

FetcherSymmetry == Permutations(Fetchers)
===============================================================================
