---------------------------- MODULE CatalogCache ----------------------------
(***************************************************************************)
(* The cached model catalog (codex/catalog.rs, codex/version.rs): processes *)
(* that load a catalog for the Codex installation they resolved, from the   *)
(* cache if it is fresh, else, under a refresh lock with a timeout, from    *)
(* Codex itself, and put what they found back into the cache.               *)
(*                                                                         *)
(* Installations are numbered as they follow each other on the machine; the *)
(* number stands for the fingerprint.  A process resolves it once, Codex    *)
(* may be upgraded at any time.                                             *)
(***************************************************************************)
EXTENDS Integers

CONSTANTS
    Processes,    \* processes that load a catalog
    Requests,     \* who may ask for a refresh, or for bundled metadata
    MaxAge,       \* how old a fresh catalog may be
    MaxClock,     \* bound on the clock
    LastInstall,  \* bound on upgrades
    Nobody, None, Fallback

Request == [refresh : BOOLEAN, bundled : BOOLEAN]
Times == 1..MaxClock
Installs == 1..LastInstall

\* A catalog lists the models of one installation and gives the version of one.
Catalogs ==
    [lists : Installs, version : Installs, at : Times,
     source : {"live", "bundled", "cache"}, stale : BOOLEAN, warned : BOOLEAN]

ASSUME CatalogConstantsOK ==
    /\ Requests \subseteq [Processes -> Request]
    /\ MaxAge \in Nat /\ MaxClock \in Nat \ {0} /\ LastInstall \in Nat \ {0}
    /\ Nobody \notin Processes
    /\ None \notin Catalogs \cup Installs
    /\ Fallback \notin Catalogs \cup {None}

VARIABLES
    clock,      \* the time of day, in the unit of MaxAge
    installed,  \* the installation that running Codex reaches
    request,    \* what each process asks for, fixed
    cache,      \* the cached catalog of each installation
    versions,   \* the cached version of each installation
    refresher,  \* who holds the refresh lock of each installation
    pc,         \* where each process is
    began,      \* when it began
    install,    \* the installation it resolved
    cached,     \* what it found in the cache at first
    version,    \* the version it goes by
    found,      \* what Codex told it
    answer      \* what the load returned

vars == <<clock, installed, request, cache, versions, refresher, pc, began, install, cached,
          version, found, answer>>
own == <<began, install>>

\* What earlier loads for the present installation may have left in the cache.
WellCached(c) ==
    /\ c.lists = installed /\ c.version = installed /\ c.at <= clock
    /\ <<c.source, c.warned>> \in {<<"live", FALSE>>, <<"bundled", TRUE>>, <<"bundled", FALSE>>}
    /\ ~c.stale

Init ==
    /\ clock \in Times
    /\ installed \in Installs
    /\ request \in Requests
    /\ \E c \in {None} \cup {c \in Catalogs : WellCached(c)} :
          cache = [f \in Installs |-> IF f = installed THEN c ELSE None]
    /\ versions \in {[f \in Installs |-> None], [f \in Installs |-> IF f = installed THEN f ELSE None]}
    /\ refresher = [f \in Installs |-> Nobody]
    /\ pc = [p \in Processes |-> "start"]
    /\ began = [p \in Processes |-> clock]
    /\ install = [p \in Processes |-> installed]
    /\ cached = [p \in Processes |-> None]
    /\ version = [p \in Processes |-> None]
    /\ found = [p \in Processes |-> None]
    /\ answer = [p \in Processes |-> None]

Goto(p, step) == pc' = [pc EXCEPT ![p] = step]
At(p, step) == pc[p] = step
Refresh(p) == request[p].refresh
Bundled(p) == request[p].bundled
Release(p) == refresher' = [f \in Installs |-> IF refresher[f] = p THEN Nobody ELSE refresher[f]]

\* The load returns; its locals are gone.
Return(p, catalog) ==
    /\ Goto(p, "done")
    /\ answer' = [answer EXCEPT ![p] = catalog]
    /\ cached' = [cached EXCEPT ![p] = None]
    /\ version' = [version EXCEPT ![p] = None]
    /\ found' = [found EXCEPT ![p] = None]

\* What is left when a refresh is not possible.
Prior(p) ==
    IF cached[p] = None THEN Fallback ELSE [cached[p] EXCEPT !.stale = TRUE, !.warned = TRUE]

-----------------------------------------------------------------------------
(* CachedCatalogSource *)

\* (Fault: a catalog one unit too old is still fresh.)
ExpiredLate(at) == clock - at > MaxAge + 1
Expired(at) == clock - at > MaxAge

\* The cached catalog of an installation, with its age as of now.
\* (Fault: the file of any installation will do.)
LoadedAny(f) ==
    LET known == {g \in Installs : cache[g] # None} IN
    IF known = {} THEN None
    ELSE LET c == cache[CHOOSE g \in known : \A h \in known : g <= h]
         IN  [c EXCEPT !.source = "cache", !.stale = Expired(c.at)]
Loaded(f) ==
    IF cache[f] = None THEN None
    ELSE [cache[f] EXCEPT !.source = "cache", !.stale = Expired(cache[f].at)]

-----------------------------------------------------------------------------
(* CatalogManager::load *)

\* The process resolves the installation.
Start(p) ==
    /\ At(p, "start")
    /\ Goto(p, "read")
    /\ began' = [began EXCEPT ![p] = clock]
    /\ install' = [install EXCEPT ![p] = installed]
    /\ UNCHANGED <<clock, installed, request, cache, versions, refresher, cached, version, found,
                   answer>>

\* A fresh catalog is enough, unless more is asked for.
ReadCache(p) ==
    /\ At(p, "read")
    /\ LET c == Loaded(install[p]) IN
       IF ~Refresh(p) /\ ~Bundled(p) /\ c # None /\ ~c.stale
       THEN Return(p, c)
       ELSE /\ Goto(p, "lock")
            /\ cached' = [cached EXCEPT ![p] = c]
            /\ UNCHANGED <<version, found, answer>>
    /\ UNCHANGED <<clock, installed, request, cache, versions, refresher, own>>

LockRefresh(p) ==
    /\ At(p, "lock") /\ refresher[install[p]] = Nobody
    /\ refresher' = [refresher EXCEPT ![install[p]] = p]
    /\ Goto(p, "reload")
    /\ UNCHANGED <<clock, installed, request, cache, versions, own, cached, version, found, answer>>

\* Another process held the lock for as long as this one waits.
\* (Fault: the refresh goes on without the lock.)
LockTimeoutIgnored(p) ==
    /\ At(p, "lock") /\ refresher[install[p]] # Nobody
    /\ Goto(p, "reload")
    /\ UNCHANGED <<clock, installed, request, cache, versions, refresher, own, cached, version,
                   found, answer>>
LockTimeout(p) ==
    /\ At(p, "lock") /\ refresher[install[p]] # Nobody
    /\ Return(p, Prior(p))
    /\ UNCHANGED <<clock, installed, request, cache, versions, refresher, own>>

\* The lock file cannot be opened or locked: without a catalog the load fails.
LockFails(p) ==
    /\ At(p, "lock")
    /\ IF cached[p] # None
       THEN Return(p, Prior(p))
       ELSE Goto(p, "failed") /\ UNCHANGED <<cached, version, found, answer>>
    /\ UNCHANGED <<clock, installed, request, cache, versions, refresher, own>>

\* Another process may have refreshed the catalog while this one waited.
\* (Fault: it is refreshed again all the same.)
RefreshedWhileWaitingNever(p, c) == FALSE
RefreshedWhileWaiting(p, c) ==
    /\ ~Bundled(p) /\ c # None
    /\ IF Refresh(p)
       THEN cached[p] = None \/ c.at > cached[p].at
       ELSE ~c.stale

Reload(p) ==
    /\ At(p, "reload")
    /\ LET c == Loaded(install[p]) IN
       IF RefreshedWhileWaiting(p, c)
       THEN Return(p, c) /\ Release(p)
       ELSE Goto(p, "version") /\ UNCHANGED <<cached, version, found, answer, refresher>>
    /\ UNCHANGED <<clock, installed, request, cache, versions, own>>

\* The version is the cached one of the installation, or what Codex says it is.
KnownVersion(p) ==
    /\ At(p, "version") /\ ~Refresh(p) /\ versions[install[p]] # None
    /\ version' = [version EXCEPT ![p] = versions[install[p]]]
    /\ Goto(p, "probe")
    /\ UNCHANGED <<clock, installed, request, cache, versions, refresher, own, cached, found, answer>>

ProbeVersion(p) ==
    /\ At(p, "version") /\ (Refresh(p) \/ versions[install[p]] = None)
    /\ versions' = [versions EXCEPT ![install[p]] = installed]
    /\ version' = [version EXCEPT ![p] = installed]
    /\ Goto(p, "probe")
    /\ UNCHANGED <<clock, installed, request, cache, refresher, own, cached, found, answer>>

\* Codex fails or takes too long, or the version cannot be cached.
VersionFails(p) ==
    /\ At(p, "version") /\ (Refresh(p) \/ versions[install[p]] = None)
    /\ Return(p, Prior(p)) /\ Release(p)
    /\ UNCHANGED <<clock, installed, request, cache, versions, own>>

\* What `codex debug models` printed.
\* (Fault: the time is rounded up.)
NowRoundedUp == clock + 1
Now == clock
Discover(p, source, warned) ==
    /\ found' = [found EXCEPT ![p] =
           [lists |-> installed, version |-> version[p], at |-> Now, source |-> source,
            stale |-> FALSE, warned |-> warned]]
    /\ Goto(p, "save")
    /\ UNCHANGED <<clock, installed, request, cache, versions, refresher, own, cached, version,
                   answer>>

Probe(p) == At(p, "probe") /\ Discover(p, IF Bundled(p) THEN "bundled" ELSE "live", FALSE)

\* After the live catalog the bundled one is tried, with a warning.
ProbeFails(p) ==
    /\ At(p, "probe")
    /\ IF Bundled(p)
       THEN Return(p, Prior(p)) /\ Release(p)
       ELSE Goto(p, "bundled") /\ UNCHANGED <<cached, version, found, answer, refresher>>
    /\ UNCHANGED <<clock, installed, request, cache, versions, own>>

ProbeBundled(p) == At(p, "bundled") /\ Discover(p, "bundled", TRUE)

ProbeBundledFails(p) ==
    /\ At(p, "bundled")
    /\ Return(p, Prior(p)) /\ Release(p)
    /\ UNCHANGED <<clock, installed, request, cache, versions, own>>

\* One atomic write (see StateFiles).
Save(p) ==
    /\ At(p, "save")
    /\ cache' = [cache EXCEPT ![install[p]] = found[p]]
    /\ Return(p, found[p]) /\ Release(p)
    /\ UNCHANGED <<clock, installed, request, versions, own>>

SaveFails(p) ==
    /\ At(p, "save")
    /\ Return(p, [found[p] EXCEPT !.warned = TRUE]) /\ Release(p)
    /\ UNCHANGED <<clock, installed, request, cache, versions, own>>

-----------------------------------------------------------------------------
(* The machine *)

\* A killed process's lock is released by the system.
Killed(p) ==
    /\ pc[p] \notin {"start", "done", "failed", "killed"}
    /\ Goto(p, "killed")
    /\ cached' = [cached EXCEPT ![p] = None]
    /\ version' = [version EXCEPT ![p] = None]
    /\ found' = [found EXCEPT ![p] = None]
    /\ Release(p)
    /\ UNCHANGED <<clock, installed, request, cache, versions, own, answer>>

Upgrade ==
    /\ installed < LastInstall
    /\ installed' = installed + 1
    /\ UNCHANGED <<clock, request, cache, versions, refresher, pc, own, cached, version, found,
                   answer>>

Tick ==
    /\ clock < MaxClock
    /\ clock' = clock + 1
    /\ UNCHANGED <<installed, request, cache, versions, refresher, pc, own, cached, version, found,
                   answer>>

Next ==
    \/ \E p \in Processes :
          \/ Start(p) \/ ReadCache(p)
          \/ LockRefresh(p) \/ LockTimeout(p) \/ LockFails(p) \/ Reload(p)
          \/ KnownVersion(p) \/ ProbeVersion(p) \/ VersionFails(p)
          \/ Probe(p) \/ ProbeFails(p) \/ ProbeBundled(p) \/ ProbeBundledFails(p)
          \/ Save(p) \/ SaveFails(p)
          \/ Killed(p)
    \/ Upgrade
    \/ Tick

Spec == Init /\ [][Next]_vars

-----------------------------------------------------------------------------
(* Properties *)

Holding == {"reload", "version", "probe", "bundled", "save"}
TypeOK ==
    /\ clock \in Times
    /\ installed \in Installs
    /\ request \in Requests
    /\ cache \in [Installs -> Catalogs \cup {None}]
    /\ versions \in [Installs -> Installs \cup {None}]
    /\ refresher \in [Installs -> Processes \cup {Nobody}]
    /\ pc \in [Processes -> {"start", "read", "lock", "done", "failed", "killed"} \cup Holding]
    /\ began \in [Processes -> Times]
    /\ install \in [Processes -> Installs]
    /\ cached \in [Processes -> Catalogs \cup {None}]
    /\ version \in [Processes -> Installs \cup {None}]
    /\ found \in [Processes -> Catalogs \cup {None}]
    /\ answer \in [Processes -> Catalogs \cup {None, Fallback}]

\* No load returns models, or the version, of an installation that had been replaced
\* before it began: ARCHITECTURE.md, the fingerprint "invalidate[s] when [the]
\* underlying installed package changes".
NothingReplacedIsListed ==
    \A p \in Processes : answer[p] \in Catalogs =>
        answer[p].lists >= install[p] /\ answer[p].version >= install[p]

\* A catalog that is returned as fresh was fetched at most MaxAge before the load
\* began, however long it then waited for others.
FreshIsRecent ==
    \A p \in Processes : (answer[p] \in Catalogs /\ ~answer[p].stale) =>
        answer[p].at + MaxAge >= began[p]

\* Processes share a refresh: Codex is only asked while the cache has no fresh
\* catalog, unless that was asked for (ARCHITECTURE.md, "share a bounded refresh lock").
RefreshIsShared ==
    [][\A p \in Processes :
           ((Probe(p) \/ ProbeFails(p)) /\ ~Refresh(p) /\ ~Bundled(p)) =>
               (cache[install[p]] = None \/ Expired(cache[install[p]].at))]_vars

\* A slow process never puts an older catalog in the place of a newer one.
CacheNeverGoesBack ==
    [][\A f \in Installs : cache[f] # None =>
           cache'[f] # None /\ cache'[f].at >= cache[f].at]_vars
=============================================================================
