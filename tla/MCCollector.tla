---------------------------- MODULE MCCollector ----------------------------
(* Two threads the collector can create and two requests: enough for a     *)
(* worker that outlives stop(), its replacement, and requests that arrive    *)
(* before, during and after a collection.                                    *)
EXTENDS Collector

CONSTANTS w1, w2
MCWorkers == {w1, w2}
=============================================================================
