--------------------------- MODULE MCIngestPool ---------------------------
(* Instances of IngestPool: three envelopes, two of one release, and a round *)
(* of the cron evaluator, over four connections or over fewer.               *)
EXTENDS IngestPool, TLC

CONSTANTS r1, r2, r3, e1, v1

MCReleaseOf == r1 :> v1 @@ r2 :> v1 @@ r3 :> NoRelease
MCWork == r1 :> 2 @@ r2 :> 1 @@ r3 :> 1 @@ e1 :> 2
MCWorkOfRequests == r1 :> 1 @@ r2 :> 1 @@ r3 :> 1
=============================================================================
