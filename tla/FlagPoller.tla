------------------------------- MODULE FlagPoller -------------------------------
(***************************************************************************)
(* The poller that keeps the flag definitions for local evaluation in      *)
(* posthog-node (FeatureFlagsPoller in                                     *)
(* packages/node/src/extensions/feature-flags/feature-flags.ts): loads on  *)
(* demand, by force and by timer, conditional requests, backoff, and a     *)
(* cache shared with other instances.                                      *)
(*                                                                         *)
(* Definitions are the version of them that the server had; 0 is none.     *)
(***************************************************************************)
EXTENDS Naturals

CONSTANTS
    MaxVersions  \* bound: versions of the definitions on the server

ASSUME PollerAssumption == MaxVersions \in Nat \ {0}

VARIABLES
    hasCache,       \* a cacheProvider is configured
    serverVersion,  \* the server's definitions (external)
    cacheVersion,   \* the shared cache's definitions (external)
    definitions,    \* featureFlags and what goes with them
    etag,           \* flagsEtag: the version it names
    loadedOnce,     \* loadedSuccessfullyOnce
    backingOff,     \* now < nextFetchAllowedAt
    load,           \* the await _loadFeatureFlags is at; "none" without a loadingPromise
    shouldFetch,    \* the local of that name
    pollTimer,      \* timers set to call loadFeatureFlags(true)
    stopped,        \* pollerStopped
    notModified     \* history: the last answer was a 304

fpVars == <<hasCache, serverVersion, cacheVersion, definitions, etag, loadedOnce,
            backingOff, load, shouldFetch, pollTimer, stopped, notModified>>

Versions == 0..MaxVersions

PollerTypeOK ==
    /\ hasCache \in BOOLEAN /\ loadedOnce \in BOOLEAN /\ backingOff \in BOOLEAN
    /\ shouldFetch \in BOOLEAN /\ stopped \in BOOLEAN /\ notModified \in BOOLEAN
    /\ serverVersion \in Versions \ {0} /\ cacheVersion \in Versions
    /\ definitions \in Versions /\ etag \in Versions
    /\ load \in {"none", "deciding", "reading cache", "requesting", "storing"}
    /\ pollTimer \in 0..1

\* The constructor starts the first load.
PollerInit ==
    /\ hasCache \in BOOLEAN
    /\ serverVersion = 1 /\ cacheVersion = 0
    /\ definitions = 0 /\ etag = 0 /\ loadedOnce = FALSE /\ backingOff = FALSE
    /\ load = (IF hasCache THEN "deciding" ELSE "requesting") /\ shouldFetch = TRUE
    /\ pollTimer = 0 /\ stopped = FALSE /\ notModified = FALSE

--------------------------------------------------------------------------------
(* Loads *)

\* _loadFeatureFlags up to its first await: the timer is cleared.
BeginLoad ==
    /\ load = "none"
    /\ load' = IF hasCache THEN "deciding" ELSE "requesting"
    /\ shouldFetch' = TRUE
    /\ pollTimer' = 0

\* Mutant: a load that ends after stopPoller schedules a poll all the same.
EndLoadThoughStopped ==
    /\ load' = "none"
    /\ pollTimer' = pollTimer + 1

\* Mutant: polling ends with the first success.
EndLoadOnce ==
    /\ load' = "none"
    /\ pollTimer' = IF stopped \/ loadedOnce THEN pollTimer ELSE pollTimer + 1

\* finally: the next poll is scheduled.
EndLoad ==
    /\ load' = "none"
    /\ pollTimer' = IF stopped THEN pollTimer ELSE pollTimer + 1

\* Awaited by an evaluation.  While a load runs, the caller shares its promise.
LoadOnDemand ==
    /\ ~loadedOnce /\ ~backingOff
    /\ BeginLoad
    /\ UNCHANGED <<hasCache, serverVersion, cacheVersion, definitions, etag, loadedOnce,
                   backingOff, stopped, notModified>>

\* reloadFeatureFlags of the client.
ReloadDefinitions ==
    /\ BeginLoad
    /\ UNCHANGED <<hasCache, serverVersion, cacheVersion, definitions, etag, loadedOnce,
                   backingOff, stopped, notModified>>

\* The interval of the timer is that of the backoff, set before it.
PollTimerFires ==
    /\ pollTimer > 0
    /\ BeginLoad
    /\ backingOff' = FALSE
    /\ UNCHANGED <<hasCache, serverVersion, cacheVersion, definitions, etag, loadedOnce,
                   stopped, notModified>>

BackoffPasses ==
    /\ backingOff
    /\ backingOff' = FALSE
    /\ UNCHANGED <<hasCache, serverVersion, cacheVersion, definitions, etag, loadedOnce,
                   load, shouldFetch, pollTimer, stopped, notModified>>

\* shouldFetchFlagDefinitions of the provider; an error counts as a yes.
CacheDecides(fetch) ==
    /\ load = "deciding"
    /\ shouldFetch' = fetch
    /\ load' = IF fetch THEN "requesting" ELSE "reading cache"
    /\ UNCHANGED <<hasCache, serverVersion, cacheVersion, definitions, etag, loadedOnce,
                   backingOff, pollTimer, stopped, notModified>>

\* loadFromCache: what it finds replaces the definitions, and not the entity tag.
CacheHit ==
    /\ load = "reading cache" /\ cacheVersion # 0
    /\ definitions' = cacheVersion /\ loadedOnce' = TRUE /\ notModified' = FALSE
    /\ EndLoad
    /\ UNCHANGED <<hasCache, serverVersion, cacheVersion, etag, backingOff, shouldFetch, stopped>>

\* Nothing found, or an error: without definitions the decision is ignored.
CacheMiss ==
    /\ load = "reading cache"
    /\ IF loadedOnce THEN EndLoad
                     ELSE load' = "requesting" /\ UNCHANGED pollTimer
    /\ UNCHANGED <<hasCache, serverVersion, cacheVersion, definitions, etag, loadedOnce,
                   backingOff, shouldFetch, stopped, notModified>>

--------------------------------------------------------------------------------
(* Answers *)

\* 200 with definitions: the tag is that of the answer, if it has one.
Fetched(tagged) ==
    /\ load = "requesting" /\ (etag = 0 \/ etag # serverVersion)
    /\ etag' = IF tagged THEN serverVersion ELSE 0
    /\ definitions' = serverVersion /\ loadedOnce' = TRUE /\ backingOff' = FALSE
    /\ notModified' = FALSE
    /\ IF hasCache /\ shouldFetch THEN load' = "storing" /\ UNCHANGED pollTimer
                                  ELSE EndLoad
    /\ UNCHANGED <<hasCache, serverVersion, cacheVersion, shouldFetch, stopped>>

\* onFlagDefinitionsReceived returns; it may have failed.
Stored(succeeds) ==
    /\ load = "storing"
    /\ cacheVersion' = IF succeeds THEN definitions ELSE cacheVersion
    /\ EndLoad
    /\ UNCHANGED <<hasCache, serverVersion, definitions, etag, loadedOnce, backingOff,
                   shouldFetch, stopped, notModified>>

\* 304: the server compares the tag that the request carried.
NotModified ==
    /\ load = "requesting" /\ etag = serverVersion
    /\ loadedOnce' = TRUE /\ backingOff' = FALSE /\ notModified' = TRUE
    /\ EndLoad
    /\ UNCHANGED <<hasCache, serverVersion, cacheVersion, definitions, etag, shouldFetch, stopped>>

\* 402: the definitions are cleared; the tag and loadedSuccessfullyOnce stay.
QuotaExceeded ==
    /\ load = "requesting"
    /\ definitions' = 0 /\ notModified' = FALSE
    /\ EndLoad
    /\ UNCHANGED <<hasCache, serverVersion, cacheVersion, etag, loadedOnce, backingOff,
                   shouldFetch, stopped>>

\* 401, 403, 429.
Rejected ==
    /\ load = "requesting"
    /\ backingOff' = TRUE /\ notModified' = FALSE
    /\ EndLoad
    /\ UNCHANGED <<hasCache, serverVersion, cacheVersion, definitions, etag, loadedOnce,
                   shouldFetch, stopped>>

\* Another status, a body that cannot be used, a network error or a timeout.
RequestFails ==
    /\ load = "requesting"
    /\ notModified' = FALSE
    /\ EndLoad
    /\ UNCHANGED <<hasCache, serverVersion, cacheVersion, definitions, etag, loadedOnce,
                   backingOff, shouldFetch, stopped>>

--------------------------------------------------------------------------------
(* The poller is stopped; the server and the other instances *)

StopPoller ==
    /\ ~stopped
    /\ stopped' = TRUE /\ pollTimer' = 0
    /\ UNCHANGED <<hasCache, serverVersion, cacheVersion, definitions, etag, loadedOnce,
                   backingOff, load, shouldFetch, notModified>>

DefinitionsChange ==
    /\ serverVersion < MaxVersions
    /\ serverVersion' = serverVersion + 1
    /\ UNCHANGED <<hasCache, cacheVersion, definitions, etag, loadedOnce, backingOff, load,
                   shouldFetch, pollTimer, stopped, notModified>>

\* Another instance stores what the server has, or the entry expires.
CacheChanges(version) ==
    /\ hasCache /\ version \in {0, serverVersion} \ {cacheVersion}
    /\ cacheVersion' = version
    /\ UNCHANGED <<hasCache, serverVersion, definitions, etag, loadedOnce, backingOff, load,
                   shouldFetch, pollTimer, stopped, notModified>>

--------------------------------------------------------------------------------
Loaded == \/ \E tagged \in BOOLEAN : Fetched(tagged)
          \/ NotModified

LoadStep ==
    \/ \E fetch \in BOOLEAN : CacheDecides(fetch)
    \/ CacheHit \/ CacheMiss
    \/ Loaded \/ QuotaExceeded \/ Rejected \/ RequestFails
    \/ \E succeeds \in BOOLEAN : Stored(succeeds)

PollerNext ==
    \/ LoadOnDemand \/ ReloadDefinitions \/ PollTimerFires \/ BackoffPasses
    \/ LoadStep
    \/ StopPoller \/ DefinitionsChange
    \/ \E version \in Versions : CacheChanges(version)

PollerSpec == PollerInit /\ [][PollerNext]_fpVars

--------------------------------------------------------------------------------
(* Properties *)

\* The comment at feature-flags.ts:888: after a 304 "flags haven't changed,
\* keep using cached data", so there is cached data to use.
NotModifiedKeepsData == notModified /\ ~hasCache => definitions # 0

\* Polling neither stops by itself nor runs twice (feature-flags.ts:977-981):
\* until the poller is stopped, a load runs or one timer is set, whatever the
\* answers and however loads on demand, forced loads and the timer interleave;
\* once it is stopped no timer is set, also by a load that was running.
PollingGoesOn ==
    pollTimer = IF stopped \/ load # "none" THEN 0 ELSE 1

\* The tag stands for definitions that the poller no longer holds: they were
\* cleared by a quota answer or replaced from the cache (feature-flags.ts:906).
TagOutlivesDefinitions == etag # 0 /\ etag # definitions

\* The definitions catch up with the server's after errors, quota answers and
\* backoff, if requests succeed again and again; a poller that is stopped, has
\* a tag that outlives its definitions, or may be told not to fetch, need not.
DefinitionsCatchUp ==
    <>[](~stopped /\ ~TagOutlivesDefinitions /\ ~hasCache) => []<>(definitions = serverVersion)
================================================================================
