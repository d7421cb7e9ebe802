--------------------------- MODULE MCConfirmation ---------------------------
(* Confirmations of what is done to messages, for TLC: four instances of       *)
(* Freshness, each with bounds that bring out one side of it.  A behaviour     *)
(* belongs to one of them, so that a run covers the sum of their states.       *)
EXTENDS Integers, TLC

CONSTANTS
    Parts,  \* the instances of this run
    None, c1, c2, o1, o2, r1, r2

VARIABLES
    part,
    box, changes, now, store, cache, req, log

freshVars == <<box, changes, now, store, cache, req, log>>

TTL == 1
CacheTTL == 1
Concurrency == 2
MaxTime == 1
Alike == c1 :> 1 @@ c2 :> 1
Unlike == c1 :> 1 @@ c2 :> 2
Both == {c1, c2}

\* The store of tokens: two sessions, pages of two messages, three tokens for
\* room for two.
Tokens == INSTANCE Freshness WITH
    Uids <- {1, 2}, SizeOf <- (c1 :> 1), Owners <- {o1, o2}, Contents <- {c1}, Requests <- {r1},
    Capacity <- 2, PerOwner <- 2, MaxBatch <- 2, CacheCapacity <- 1, CacheBytes <- 1,
    PreviewMax <- 0, MaxTokens <- 3, MaxChanges <- 0
\* A selection of two messages that other clients change meanwhile.
Selection == INSTANCE Freshness WITH
    Uids <- {1, 2}, SizeOf <- Alike, Owners <- {o1}, Contents <- Both, Requests <- {r1},
    Capacity <- 2, PerOwner <- 2, MaxBatch <- 2, CacheCapacity <- 1, CacheBytes <- 1,
    PreviewMax <- 2, MaxTokens <- 2, MaxChanges <- 1
\* Two requests that overlap on one message.
Overlap == INSTANCE Freshness WITH
    Uids <- {1}, SizeOf <- Alike, Owners <- {o1}, Contents <- Both, Requests <- {r1, r2},
    Capacity <- 2, PerOwner <- 2, MaxBatch <- 1, CacheCapacity <- 1, CacheBytes <- 4,
    PreviewMax <- 2, MaxTokens <- 2, MaxChanges <- 1
\* Previews of three messages of unequal size that compete for the cache.
Previews == INSTANCE Freshness WITH
    Uids <- {1, 2, 3}, SizeOf <- Unlike, Owners <- {o1}, Contents <- Both, Requests <- {r1},
    Capacity <- 1, PerOwner <- 1, MaxBatch <- 1, CacheCapacity <- 3, CacheBytes <- 4,
    PreviewMax <- 2, MaxTokens <- 1, MaxChanges <- 0

ASSUME
    /\ Tokens!FreshnessAssumption /\ Selection!FreshnessAssumption
    /\ Overlap!FreshnessAssumption /\ Previews!FreshnessAssumption


Init ==
    /\ part \in Parts
    /\ CASE part = "selection" -> Selection!Init
         [] part = "overlap" -> Overlap!Init
         [] part = "previews" -> Previews!Init
         [] OTHER -> Tokens!Init

Next ==
    /\ \/ part = "tokens" /\ Tokens!Next
       \/ part = "selection" /\ Selection!Next
       \/ part = "overlap" /\ Overlap!Next
       \/ part = "previews" /\ Previews!Next
    /\ UNCHANGED part

Spec == Init /\ [][Next]_<<part, freshVars>>

Pools == Permutations({o1, o2}) \cup Permutations({r1, r2})

-----------------------------------------------------------------------------
(* The properties; the module says what each is about.                         *)

\* A call is made only for messages shown to this session and unchanged since,
\* and a token admits at most one, however requests overlap.
ActsOnceOnShown ==
    /\ part = "tokens" => Tokens!ActsOnceOnShown
    /\ part = "selection" => Selection!ActsOnceOnShown
    /\ part = "overlap" => Overlap!ActsOnceOnShown
    /\ part = "previews" => Previews!ActsOnceOnShown
\* The two indexes of the token store and the sizes of the preview cache agree
\* with their entries and keep their limits.
StoresExact ==
    /\ part = "tokens" => Tokens!StoresExact
    /\ part = "selection" => Selection!StoresExact
    /\ part = "overlap" => Overlap!StoresExact
    /\ part = "previews" => Previews!StoresExact
=============================================================================
