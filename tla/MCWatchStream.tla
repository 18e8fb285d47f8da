--------------------------- MODULE MCWatchStream ---------------------------
(* Instances of WatchStream for TLC. *)
EXTENDS WatchStream

CONSTANTS t1, t2
=============================================================================
