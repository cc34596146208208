------------------------------- MODULE RssFdw --------------------------------
(***************************************************************************)
(* The cache of multicorn.rssfdw.RssFdw: the rows of the last successful   *)
(* fetch are served again while they are younger than cache_duration.      *)
(* The feed changes at any time, the fetch takes time and may fail, and    *)
(* the cache is dated when the fetch is over.  Rows are abstracted to the  *)
(* number of the version of the feed they were made from.                  *)
(***************************************************************************)
EXTENDS Naturals

CONSTANTS
    CacheDuration,  \* cache_duration
    FetchTime,      \* bound on the time a fetch takes
    MaxClock,       \* bound on the clock
    MaxVersions,    \* bound on the versions of the feed
    NoRows          \* the answer, and the cache, without rows

ASSUME RssAssumption ==
    /\ CacheDuration \in Nat /\ FetchTime \in Nat
    /\ MaxClock \in Nat /\ MaxVersions \in Nat /\ NoRows \notin Nat

VARIABLES
    clock,      \* datetime.now()
    ended,      \* ended[v]: when version v was replaced; the last one is published
    rssCache,   \* self.cache: [date, values]
    fetch,      \* the fetch in progress: [since, got], got the version read
    answer      \* what the last execute returned, and when: [values, at]

rssvars == <<clock, ended, rssCache, fetch, answer>>

Times == 0 .. MaxClock
NoFetch == [since |-> 0, got |-> NoRows]

Published == CHOOSE v \in DOMAIN ended : v + 1 \notin DOMAIN ended

RssTypeOK ==
    /\ clock \in Times
    /\ \E n \in 0 .. MaxVersions : ended \in [0 .. n -> Times]
    /\ rssCache \in [date : Times, values : DOMAIN ended \union {NoRows}]
    /\ fetch \in [since : Times, got : DOMAIN ended \union {NoRows}]
    /\ answer \in [values : DOMAIN ended \union {NoRows}, at : Times]

RssInit ==
    /\ clock = 0
    /\ ended = [v \in {0} |-> 0]
    /\ rssCache = [date |-> 0, values |-> NoRows]
    /\ fetch = NoFetch
    /\ answer = [values |-> NoRows, at |-> 0]

\* External: the clock, while the fetch has time left, and the publisher.
Tick ==
    /\ clock < MaxClock
    /\ fetch # NoFetch => clock < fetch.since + FetchTime
    /\ clock' = clock + 1
    /\ UNCHANGED <<ended, rssCache, fetch, answer>>

Publish ==
    /\ Published < MaxVersions
    /\ ended' = [v \in 0 .. Published + 1 |-> IF v <= Published - 1 THEN ended[v] ELSE clock]
    /\ UNCHANGED <<clock, rssCache, fetch, answer>>

Returns(v) == answer' = [values |-> v, at |-> clock]

\* Mutant: a result that is as old as cache_duration is served.
YoungOrEqual == rssCache.values # NoRows /\ clock - rssCache.date <= CacheDuration

Young == rssCache.values # NoRows /\ clock - rssCache.date < CacheDuration

ExecuteCached ==
    /\ fetch = NoFetch /\ Young
    /\ Returns(rssCache.values)
    /\ UNCHANGED <<clock, ended, rssCache, fetch>>

\* urlopen(self.url).read()
ExecuteReads ==
    /\ fetch = NoFetch /\ ~Young
    /\ fetch' = [since |-> clock, got |-> Published]
    /\ UNCHANGED <<clock, ended, rssCache, answer>>

\* The rows are made, and the cache is dated now.
ExecuteStores ==
    /\ fetch # NoFetch
    /\ rssCache' = [date |-> clock, values |-> fetch.got]
    /\ Returns(fetch.got)
    /\ fetch' = NoFetch
    /\ UNCHANGED <<clock, ended>>

\* Mutant: a failed fetch answers from the cache, however old.
ExecuteFailsToCache ==
    /\ fetch # NoFetch
    /\ Returns(rssCache.values)
    /\ fetch' = NoFetch
    /\ UNCHANGED <<clock, ended, rssCache>>

\* IOError or a ParseError: no rows, and the cache stays as it is.
ExecuteFails ==
    /\ fetch # NoFetch
    /\ Returns(NoRows)
    /\ fetch' = NoFetch
    /\ UNCHANGED <<clock, ended, rssCache>>

RssNext == Tick \/ Publish \/ ExecuteCached \/ ExecuteReads \/ ExecuteStores \/ ExecuteFails

RssSpec == RssInit /\ [][RssNext]_rssvars

-----------------------------------------------------------------------------

\* The rows of an answer were those of the feed less than cache_duration and
\* the time of one fetch ago.
NotTooOld ==
    answer.values # NoRows =>
        \/ answer.values = Published
        \/ answer.at - ended[answer.values] <= FetchTime
        \/ answer.at - ended[answer.values] < CacheDuration + FetchTime
=============================================================================
