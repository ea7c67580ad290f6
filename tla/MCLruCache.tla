----------------------------- MODULE MCLruCache -----------------------------
(* Model checking of LruCache on small instances. *)
EXTENDS LruCache

\* The hypothesis of EvictsTheOldest: nobody stores what get() says of a key it
\* does not have.
ASSUME NoValueMeansNotFound == NotFound \notin Values

\* The last answer is not part of a state: nothing reads it.
Contents == <<heap, cache, latest, destroyed>>
=============================================================================
