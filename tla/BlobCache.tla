----------------------------- MODULE BlobCache ------------------------------
(***************************************************************************)
(* What the content-addressed store promises its callers, with every        *)
(* operation reduced to the one instant at which it takes effect.           *)
(*   - A name refers to a blob that is there.                               *)
(*   - A blob may be dropped at any time, together with the names that      *)
(*     refer to it: this is a cache.                                        *)
(*   - A lookup may fail at any time, but an answer it does give is true at *)
(*     the instant it is given.                                             *)
(***************************************************************************)
CONSTANTS Procs, Blobs, NoBlob, Uris, NoUri

VARIABLES
    rows,     \* the blobs that are stored
    names,    \* names[u]: the blob u is bound to, or NoBlob
    answer    \* answer[p]: the latest answer p was given, or NoAnswer

cacheVars == <<rows, names, answer>>

NoAnswer == [uri |-> NoUri, blob |-> NoBlob]

Referable(R, N) == \A u \in Uris : N[u] \in R \cup {NoBlob}

CacheInit ==
    /\ rows \in SUBSET Blobs
    /\ names = [u \in Uris |-> NoBlob]
    /\ answer = [p \in Procs |-> NoAnswer]

(* Blobs come in and names are bound, possibly many at once (an import).    *)
Extend ==
    /\ rows \subseteq rows' /\ rows' \subseteq Blobs
    /\ names' \in [Uris -> Blobs \cup {NoBlob}]
    /\ \A u \in Uris : names[u] # NoBlob => names'[u] # NoBlob
    /\ Referable(rows', names')

(* Names and blobs are dropped; no surviving name changes its meaning.      *)
Discard ==
    /\ rows' \subseteq rows
    /\ names' \in [Uris -> Blobs \cup {NoBlob}]
    /\ \A u \in Uris : names'[u] \in {names[u], NoBlob}
    /\ Referable(rows', names')

Answer(p) ==
    \E u \in Uris \cup {NoUri}, b \in rows :
        /\ u # NoUri => names[u] = b
        /\ answer' = [answer EXCEPT ![p] = [uri |-> u, blob |-> b]]
        /\ UNCHANGED <<rows, names>>

Forget(p) == answer' = [answer EXCEPT ![p] = NoAnswer] /\ UNCHANGED <<rows, names>>

CacheNext ==
    \/ (Extend \/ Discard) /\ UNCHANGED answer
    \/ \E p \in Procs : Answer(p) \/ Forget(p)

CacheSpec == CacheInit /\ [][CacheNext]_cacheVars
=============================================================================
