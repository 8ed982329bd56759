------------------------- MODULE CatalogCacheProofs -------------------------
(***************************************************************************)
(* Proofs about CatalogCache, for any number of processes, upgrades and any *)
(* age: what a load returns is of no replaced installation and as fresh as  *)
(* it says, refreshes are shared, and the cache never goes back.            *)
(***************************************************************************)
EXTENDS CatalogCache, TLAPS

USE CatalogConstantsOK

Steps == {"start", "read", "lock", "done", "failed", "killed"} \cup Holding

\* The refresh lock of an installation is held by the one process that is
\* refreshing its catalog.
LockInv ==
    \A f \in Installs, p \in Processes :
        refresher[f] = p <=> pc[p] \in Holding /\ install[p] = f

NotReplaced(c, f) == c.lists >= f /\ c.version >= f

EntryOK(f) ==
    /\ cache[f] # None => NotReplaced(cache[f], f) /\ cache[f].at <= clock
    /\ versions[f] # None => versions[f] >= f

NothingFresh(f) == cache[f] = None \/ Expired(cache[f].at)
AnswerOK(p, c) ==
    c \in Catalogs => /\ NotReplaced(c, install[p])
                      /\ ~c.stale => c.at + MaxAge >= began[p]

\* What a load knows is of the installation it resolved or a later one; what it is
\* about to put into the cache is as new as what is there; and it only asks Codex
\* without being told to when nothing fresh is there.
LoadOK(p) ==
    /\ install[p] <= installed /\ began[p] <= clock
    /\ pc[p] = "start" => cached[p] = None /\ version[p] = None /\ found[p] = None /\ answer[p] = None
    /\ cached[p] # None => NotReplaced(cached[p], install[p])
    /\ version[p] # None => version[p] >= install[p]
    /\ pc[p] \in {"probe", "bundled"} => version[p] # None
    /\ pc[p] = "save" =>
          /\ found[p] # None
          /\ cache[install[p]] # None => cache[install[p]].at <= found[p].at
    /\ found[p] # None =>
          /\ NotReplaced(found[p], install[p])
          /\ began[p] <= found[p].at /\ found[p].at <= clock
    /\ (pc[p] \in {"version", "probe"} /\ ~Refresh(p) /\ ~Bundled(p)) => NothingFresh(install[p])
    /\ AnswerOK(p, answer[p])

CatalogInv ==
    /\ TypeOK
    /\ LockInv
    /\ \A f \in Installs : EntryOK(f)
    /\ \A p \in Processes : LoadOK(p)

-----------------------------------------------------------------------------
LEMMA CatalogInit == Init => CatalogInv
  <1> SUFFICES ASSUME Init PROVE CatalogInv
    OBVIOUS
  <1>1. PICK c \in {None} \cup {c \in Catalogs : WellCached(c)} :
           cache = [f \in Installs |-> IF f = installed THEN c ELSE None]
    BY DEF Init
  <1>2. cache \in [Installs -> Catalogs \cup {None}]
    BY <1>1
  <1>3. versions \in [Installs -> Installs \cup {None}] /\ \A f \in Installs : versions[f] \in {None, f}
    BY DEF Init
  <1>4. TypeOK
    BY <1>2, <1>3 DEF Init, TypeOK
  <1>5. LockInv
    BY DEF Init, LockInv, Holding
  <1>6. ASSUME NEW f \in Installs PROVE EntryOK(f)
    <2>1. CASE f = installed /\ c # None
      <3>1. cache[f] = c /\ WellCached(c)
        BY <1>1, <2>1
      <3> QED BY <1>3, <2>1, <3>1 DEF EntryOK, NotReplaced, WellCached, Installs
    <2>2. CASE f # installed \/ c = None
      BY <1>1, <1>3, <2>2 DEF EntryOK, Installs
    <2> QED BY <2>1, <2>2
  <1>7. ASSUME NEW p \in Processes PROVE LoadOK(p)
    BY DEF Init, LoadOK, AnswerOK, Installs, Times
  <1> QED BY <1>4, <1>5, <1>6, <1>7 DEF CatalogInv

\* What is read from the cache is what was put there, and stale if it is too old now.
LEMMA LoadedCatalog ==
    ASSUME TypeOK, NEW f \in Installs
    PROVE  /\ Loaded(f) \in Catalogs \cup {None}
           /\ Loaded(f) = None <=> cache[f] = None
           /\ Loaded(f) # None =>
                 /\ Loaded(f).lists = cache[f].lists /\ Loaded(f).version = cache[f].version
                 /\ Loaded(f).at = cache[f].at
                 /\ Loaded(f).stale = Expired(cache[f].at)
  <1>1. cache[f] \in Catalogs \cup {None}
    BY DEF TypeOK
  <1>2. CASE cache[f] = None
    BY <1>2 DEF Loaded
  <1>3. CASE cache[f] # None
    <2>1. cache[f] \in Catalogs
      BY <1>1, <1>3
    <2>2. Loaded(f) = [cache[f] EXCEPT !.source = "cache", !.stale = Expired(cache[f].at)]
      BY <1>3 DEF Loaded
    <2>3. Expired(cache[f].at) \in BOOLEAN
      BY DEF Expired
    <2>4. Loaded(f) \in Catalogs
      BY <2>1, <2>2, <2>3 DEF Catalogs
    <2> QED BY <1>3, <2>1, <2>2, <2>4 DEF Catalogs
  <1> QED BY <1>2, <1>3

LEMMA PriorAnswer ==
    ASSUME TypeOK, NEW p \in Processes, LoadOK(p)
    PROVE  Prior(p) \in Catalogs \cup {Fallback} /\ AnswerOK(p, Prior(p))
  <1>1. cached[p] \in Catalogs \cup {None}
    BY DEF TypeOK
  <1>2. CASE cached[p] = None
    BY <1>2 DEF Prior, AnswerOK
  <1>3. CASE cached[p] # None
    <2>1. cached[p] \in Catalogs /\ Prior(p) = [cached[p] EXCEPT !.stale = TRUE, !.warned = TRUE]
      BY <1>1, <1>3 DEF Prior
    <2>2. Prior(p) \in Catalogs /\ Prior(p).stale = TRUE
          /\ Prior(p).lists = cached[p].lists /\ Prior(p).version = cached[p].version
      BY <2>1 DEF Catalogs
    <2> QED BY <1>3, <2>2 DEF AnswerOK, LoadOK, NotReplaced
  <1> QED BY <1>2, <1>3

LEMMA LoadedAnswer ==
    ASSUME CatalogInv, NEW p \in Processes, Loaded(install[p]) # None
    PROVE  Loaded(install[p]) \in Catalogs /\ AnswerOK(p, Loaded(install[p]))
  <1> DEFINE f == install[p]
             c == Loaded(f)
  <1>1. f \in Installs /\ began[p] \in Times /\ clock \in Times /\ began[p] <= clock
    BY DEF CatalogInv, TypeOK, LoadOK
  <1>2. /\ c \in Catalogs /\ cache[f] # None
        /\ c.lists = cache[f].lists /\ c.version = cache[f].version /\ c.at = cache[f].at
        /\ c.stale = Expired(cache[f].at)
    BY <1>1, LoadedCatalog DEF CatalogInv
  <1>3. c.at \in Times
    BY <1>2 DEF Catalogs
  <1>4. NotReplaced(c, f)
    BY <1>1, <1>2 DEF CatalogInv, EntryOK, NotReplaced
  <1>5. ASSUME ~c.stale PROVE c.at + MaxAge >= clock
    <2>1. ~Expired(c.at)
      BY <1>2, <1>5
    <2> HIDE DEF c, f
    <2> QED BY <1>1, <1>3, <2>1 DEF Expired, Times
  <1>6. ~c.stale => c.at + MaxAge >= began[p]
    <2> HIDE DEF c, f
    <2> QED BY <1>1, <1>3, <1>5 DEF Times
  <1> QED BY <1>2, <1>4, <1>6 DEF AnswerOK

-----------------------------------------------------------------------------
(* The steps of a load.  Nobody else's load is disturbed: what it knows is its *)
(* own, and only the holder of a refresh lock changes the cached catalog.      *)

\* Only p's locals change, and the cached catalogs whose refresh lock p holds.
OnlyMoves(p) ==
    /\ UNCHANGED <<clock, installed, request>>
    /\ \A q \in Processes \ {p} :
          /\ pc'[q] = pc[q] /\ began'[q] = began[q] /\ install'[q] = install[q]
          /\ cached'[q] = cached[q] /\ version'[q] = version[q] /\ found'[q] = found[q]
          /\ answer'[q] = answer[q]
    /\ \A f \in Installs : cache'[f] = cache[f] \/ refresher[f] = p

LEMMA OthersStay ==
    ASSUME CatalogInv, NEW p \in Processes, OnlyMoves(p), NEW q \in Processes \ {p}
    PROVE  LoadOK(q)'
  <1>1. LoadOK(q) /\ install[q] \in Installs
    BY DEF CatalogInv, TypeOK
  <1>2. /\ clock' = clock /\ installed' = installed /\ request' = request
        /\ pc'[q] = pc[q] /\ began'[q] = began[q] /\ install'[q] = install[q]
        /\ cached'[q] = cached[q] /\ version'[q] = version[q] /\ found'[q] = found[q]
        /\ answer'[q] = answer[q]
    BY DEF OnlyMoves
  <1>3. pc[q] \in Holding => cache'[install[q]] = cache[install[q]]
    BY <1>1 DEF OnlyMoves, CatalogInv, LockInv
  <1> QED BY <1>1, <1>2, <1>3 DEF LoadOK, NothingFresh, Expired, NotReplaced, AnswerOK, Refresh,
                                  Bundled, Holding

\* It is enough to look at the process that moves and at the files.
LEMMA StepOf ==
    ASSUME CatalogInv, NEW p \in Processes, OnlyMoves(p), TypeOK', LockInv',
           \A f \in Installs : EntryOK(f)', LoadOK(p)'
    PROVE  CatalogInv'
  <1>1. \A q \in Processes : LoadOK(q)'
    BY OthersStay
  <1> QED BY <1>1 DEF CatalogInv

LEMMA EntriesStay ==
    ASSUME CatalogInv, UNCHANGED <<cache, versions, clock>>
    PROVE  \A f \in Installs : EntryOK(f)'
  BY DEF CatalogInv, EntryOK, NotReplaced

LEMMA LockStays ==
    ASSUME CatalogInv, NEW p \in Processes, UNCHANGED <<refresher, install>>,
           \A q \in Processes \ {p} : pc'[q] = pc[q], pc[p] \in Holding <=> pc'[p] \in Holding
    PROVE  LockInv'
  BY DEF CatalogInv, LockInv, Holding

LEMMA LockReleased ==
    ASSUME CatalogInv, NEW p \in Processes, Release(p), UNCHANGED install,
           \A q \in Processes \ {p} : pc'[q] = pc[q], pc'[p] \notin Holding
    PROVE  LockInv'
  BY DEF CatalogInv, LockInv, Release, Holding, TypeOK

\* A load returns, giving the lock up if it holds it.
LEMMA ReturnStep ==
    ASSUME CatalogInv, NEW p \in Processes, NEW c, Return(p, c), pc[p] # "start",
           c \in Catalogs \cup {Fallback}, AnswerOK(p, c),
           Release(p) \/ (UNCHANGED refresher /\ pc[p] \notin Holding),
           UNCHANGED <<clock, installed, request, cache, versions, own>>
    PROVE  CatalogInv'
  <1>1. TypeOK /\ LoadOK(p)
    BY DEF CatalogInv
  <1>2. /\ pc' = [pc EXCEPT ![p] = "done"] /\ answer' = [answer EXCEPT ![p] = c]
        /\ cached' = [cached EXCEPT ![p] = None] /\ version' = [version EXCEPT ![p] = None]
        /\ found' = [found EXCEPT ![p] = None] /\ UNCHANGED <<began, install>>
    BY DEF Return, Goto, own
  <1>3. refresher' \in [Installs -> Processes \cup {Nobody}]
    BY <1>1 DEF Release, TypeOK
  <1>4. TypeOK'
    BY <1>1, <1>2, <1>3 DEF TypeOK
  <1>5. OnlyMoves(p)
    BY <1>1, <1>2 DEF OnlyMoves, TypeOK
  <1>6. /\ pc'[p] = "done" /\ cached'[p] = None /\ version'[p] = None /\ found'[p] = None
        /\ answer'[p] = c
    BY <1>1, <1>2 DEF TypeOK
  <1>7. LockInv'
    BY <1>2, <1>5, <1>6, LockReleased, LockStays DEF OnlyMoves, Holding
  <1>8. LoadOK(p)'
    BY <1>1, <1>2, <1>6 DEF LoadOK, AnswerOK, NotReplaced
  <1> QED BY <1>4, <1>5, <1>7, <1>8, EntriesStay, StepOf

\* A load goes on without returning: p changes a few of its locals.
LEMMA GoesOn ==
    ASSUME CatalogInv, NEW p \in Processes, NEW step \in Steps \ {"start"}, Goto(p, step),
           pc[p] \in Holding <=> step \in Holding,
           UNCHANGED <<clock, installed, request, cache, refresher, install, began, answer>>,
           \A q \in Processes \ {p} : cached'[q] = cached[q] /\ version'[q] = version[q]
                                         /\ found'[q] = found[q],
           versions' \in [Installs -> Installs \cup {None}],
           cached' \in [Processes -> Catalogs \cup {None}],
           version' \in [Processes -> Installs \cup {None}],
           found' \in [Processes -> Catalogs \cup {None}],
           \A f \in Installs : EntryOK(f)', LoadOK(p)'
    PROVE  CatalogInv'
  <1>1. pc \in [Processes -> Steps] /\ pc' = [pc EXCEPT ![p] = step]
    BY DEF CatalogInv, TypeOK, Steps, Goto
  <1>2. pc' \in [Processes -> Steps] /\ pc'[p] = step /\ \A q \in Processes \ {p} : pc'[q] = pc[q]
    BY <1>1
  <1>3. TypeOK'
    BY <1>2 DEF CatalogInv, TypeOK, Steps
  <1>4. LockInv'
    BY <1>2, LockStays
  <1>5. OnlyMoves(p)
    BY <1>2 DEF OnlyMoves
  <1> QED BY <1>3, <1>4, <1>5, StepOf

LEMMA ReadingSteps ==
    ASSUME CatalogInv, NEW p \in Processes, Start(p) \/ ReadCache(p) \/ Reload(p)
    PROVE  CatalogInv'
  <1> DEFINE f == install[p]
             c == Loaded(f)
  <1>1. /\ TypeOK /\ LoadOK(p) /\ f \in Installs /\ pc \in [Processes -> Steps]
    BY DEF CatalogInv, TypeOK, Steps
  <1>2. CASE Start(p)
    <2>1. /\ pc' = [pc EXCEPT ![p] = "read"] /\ pc[p] = "start"
          /\ began' = [began EXCEPT ![p] = clock] /\ install' = [install EXCEPT ![p] = installed]
          /\ UNCHANGED <<clock, installed, request, cache, versions, refresher, cached, version,
                         found, answer>>
      BY <1>2 DEF Start, Goto, At
    <2>2. TypeOK'
      BY <1>1, <2>1 DEF TypeOK
    <2>3. OnlyMoves(p)
      BY <1>1, <2>1 DEF OnlyMoves, TypeOK
    <2>4. LockInv'
      BY <1>1, <2>1 DEF CatalogInv, LockInv, TypeOK, Holding
    <2>5. LoadOK(p)'
      BY <1>1, <2>1 DEF LoadOK, TypeOK, AnswerOK, Installs, Times
    <2> QED BY <2>1, <2>2, <2>3, <2>4, <2>5, StepOf, EntriesStay
  <1>3. CASE ReadCache(p) /\ ~(~Refresh(p) /\ ~Bundled(p) /\ c # None /\ ~c.stale)
    <2>1. /\ pc[p] = "read" /\ Goto(p, "lock") /\ cached' = [cached EXCEPT ![p] = c]
          /\ UNCHANGED <<clock, installed, request, cache, versions, refresher, began, install,
                         version, found, answer>>
      BY <1>3 DEF ReadCache, At, own
    <2>2. c \in Catalogs \cup {None} /\ (c # None => NotReplaced(c, f))
      BY <1>1, LoadedCatalog DEF CatalogInv, EntryOK, NotReplaced
    <2> HIDE DEF c
    <2>3. /\ pc'[p] = "lock" /\ cached'[p] = c
          /\ cached' \in [Processes -> Catalogs \cup {None}]
          /\ \A q \in Processes \ {p} : cached'[q] = cached[q]
      BY <1>1, <2>1, <2>2 DEF Goto, TypeOK
    <2>4. LoadOK(p)'
      BY <1>1, <2>1, <2>2, <2>3 DEF LoadOK, NotReplaced, AnswerOK
    <2>5. \A g \in Installs : EntryOK(g)'
      BY <2>1, EntriesStay
    <2>6. /\ versions' \in [Installs -> Installs \cup {None}]
          /\ version' \in [Processes -> Installs \cup {None}]
          /\ found' \in [Processes -> Catalogs \cup {None}]
      BY <1>1, <2>1 DEF TypeOK
    <2>7. "lock" \in Steps \ {"start"} /\ pc[p] \notin Holding /\ "lock" \notin Holding
      BY <2>1 DEF Steps, Holding
    <2> QED BY <2>1, <2>3, <2>4, <2>5, <2>6, <2>7, GoesOn
  <1>4. CASE ReadCache(p) /\ ~Refresh(p) /\ ~Bundled(p) /\ c # None /\ ~c.stale
    <2>1. Return(p, c) /\ pc[p] = "read"
          /\ UNCHANGED <<clock, installed, request, cache, versions, refresher, own>>
      BY <1>4 DEF ReadCache, At
    <2>2. c \in Catalogs /\ AnswerOK(p, c)
      BY <1>4, LoadedAnswer
    <2>3. pc[p] # "start" /\ pc[p] \notin Holding
      BY <2>1 DEF Holding
    <2> HIDE DEF c
    <2> QED BY <2>1, <2>2, <2>3, ReturnStep
  <1>5. CASE Reload(p) /\ RefreshedWhileWaiting(p, c)
    <2>1. Return(p, c) /\ pc[p] = "reload" /\ Release(p)
          /\ UNCHANGED <<clock, installed, request, cache, versions, own>>
      BY <1>5 DEF Reload, At
    <2>2. c \in Catalogs /\ AnswerOK(p, c)
      BY <1>5, LoadedAnswer DEF RefreshedWhileWaiting
    <2>3. pc[p] # "start"
      BY <2>1
    <2> HIDE DEF c
    <2> QED BY <2>1, <2>2, <2>3, ReturnStep
  <1>6. CASE Reload(p) /\ ~RefreshedWhileWaiting(p, c)
    <2>1. /\ pc[p] = "reload" /\ Goto(p, "version")
          /\ UNCHANGED <<clock, installed, request, cache, versions, refresher, began, install,
                         cached, version, found, answer>>
      BY <1>6 DEF Reload, At, own
    <2>2. pc'[p] = "version"
      BY <1>1, <2>1 DEF Goto
    <2>3. ~Refresh(p) /\ ~Bundled(p) => NothingFresh(f)
      BY <1>1, <1>6, LoadedCatalog DEF RefreshedWhileWaiting, NothingFresh
    <2>4. LoadOK(p)'
      BY <1>1, <2>1, <2>2, <2>3 DEF LoadOK, NotReplaced, AnswerOK, NothingFresh, Expired, Refresh,
                                    Bundled
    <2>5. \A g \in Installs : EntryOK(g)'
      BY <2>1, EntriesStay
    <2>6. /\ versions' \in [Installs -> Installs \cup {None}]
          /\ cached' \in [Processes -> Catalogs \cup {None}]
          /\ version' \in [Processes -> Installs \cup {None}]
          /\ found' \in [Processes -> Catalogs \cup {None}]
      BY <1>1, <2>1 DEF TypeOK
    <2>7. "version" \in Steps \ {"start"} /\ pc[p] \in Holding /\ "version" \in Holding
      BY <2>1 DEF Steps, Holding
    <2> QED BY <2>1, <2>4, <2>5, <2>6, <2>7, GoesOn
  <1> QED BY <1>2, <1>3, <1>4, <1>5, <1>6

LEMMA LockingSteps ==
    ASSUME CatalogInv, NEW p \in Processes, LockRefresh(p) \/ LockTimeout(p) \/ LockFails(p)
    PROVE  CatalogInv'
  <1>1. TypeOK /\ LoadOK(p) /\ install[p] \in Installs
    BY DEF CatalogInv, TypeOK
  <1>2. CASE LockRefresh(p)
    <2>1. /\ pc[p] = "lock" /\ refresher[install[p]] = Nobody /\ pc' = [pc EXCEPT ![p] = "reload"]
          /\ refresher' = [refresher EXCEPT ![install[p]] = p]
          /\ UNCHANGED <<clock, installed, request, cache, versions, began, install, cached,
                         version, found, answer>>
      BY <1>2 DEF LockRefresh, At, Goto, own
    <2>2. TypeOK'
      BY <1>1, <2>1 DEF TypeOK, Holding
    <2>3. OnlyMoves(p)
      BY <1>1, <2>1 DEF OnlyMoves, TypeOK
    <2>4. LockInv'
      BY <1>1, <2>1 DEF CatalogInv, LockInv, TypeOK, Holding
    <2>5. LoadOK(p)'
      BY <1>1, <2>1 DEF LoadOK, TypeOK, AnswerOK, NotReplaced
    <2> QED BY <2>1, <2>2, <2>3, <2>4, <2>5, StepOf, EntriesStay
  <1>3. CASE LockTimeout(p) \/ (LockFails(p) /\ cached[p] # None)
    <2>1. Return(p, Prior(p)) /\ pc[p] = "lock"
          /\ UNCHANGED <<clock, installed, request, cache, versions, refresher, own>>
      BY <1>3 DEF LockTimeout, LockFails, At
    <2>2. Prior(p) \in Catalogs \cup {Fallback} /\ AnswerOK(p, Prior(p))
      BY <1>1, PriorAnswer
    <2>3. pc[p] # "start" /\ pc[p] \notin Holding
      BY <2>1 DEF Holding
    <2> QED BY <2>1, <2>2, <2>3, ReturnStep
  <1>4. CASE LockFails(p) /\ cached[p] = None
    <2>1. /\ pc[p] = "lock" /\ Goto(p, "failed")
          /\ UNCHANGED <<clock, installed, request, cache, versions, refresher, began, install,
                         cached, version, found, answer>>
      BY <1>4 DEF LockFails, At, own
    <2>2. pc'[p] = "failed"
      BY <1>1, <2>1 DEF Goto, TypeOK
    <2>3. LoadOK(p)'
      BY <1>1, <2>1, <2>2 DEF LoadOK, NotReplaced, AnswerOK
    <2>4. \A g \in Installs : EntryOK(g)'
      BY <2>1, EntriesStay
    <2>5. /\ versions' \in [Installs -> Installs \cup {None}]
          /\ cached' \in [Processes -> Catalogs \cup {None}]
          /\ version' \in [Processes -> Installs \cup {None}]
          /\ found' \in [Processes -> Catalogs \cup {None}]
      BY <1>1, <2>1 DEF TypeOK
    <2>6. "failed" \in Steps \ {"start"} /\ pc[p] \notin Holding /\ "failed" \notin Holding
      BY <2>1 DEF Steps, Holding
    <2> QED BY <2>1, <2>3, <2>4, <2>5, <2>6, GoesOn
  <1> QED BY <1>2, <1>3, <1>4

LEMMA VersionSteps ==
    ASSUME CatalogInv, NEW p \in Processes, KnownVersion(p) \/ ProbeVersion(p)
    PROVE  CatalogInv'
  <1>1. /\ TypeOK /\ LoadOK(p) /\ install[p] \in Installs /\ EntryOK(install[p])
        /\ pc \in [Processes -> Steps]
    BY DEF CatalogInv, TypeOK, Steps
  <1>2. PICK v \in Installs :
          /\ v >= install[p] /\ version' = [version EXCEPT ![p] = v]
          /\ versions' = versions \/ versions' = [versions EXCEPT ![install[p]] = v]
          /\ pc[p] = "version" /\ Goto(p, "probe")
          /\ UNCHANGED <<clock, installed, request, cache, refresher, began, install, cached, found,
                         answer>>
    <2>1. CASE KnownVersion(p)
      BY <1>1, <2>1 DEF KnownVersion, At, own, EntryOK, TypeOK
    <2>2. CASE ProbeVersion(p)
      BY <1>1, <2>2 DEF ProbeVersion, At, own, LoadOK, TypeOK, Installs
    <2> QED BY <2>1, <2>2
  <1>3. /\ version' \in [Processes -> Installs \cup {None}]
        /\ versions' \in [Installs -> Installs \cup {None}]
        /\ cached' \in [Processes -> Catalogs \cup {None}]
        /\ found' \in [Processes -> Catalogs \cup {None}]
    BY <1>1, <1>2 DEF TypeOK
  <1>4. /\ pc'[p] = "probe" /\ version'[p] = v
        /\ \A q \in Processes \ {p} : version'[q] = version[q]
    BY <1>1, <1>2 DEF Goto, TypeOK
  <1>5. \A f \in Installs : EntryOK(f)'
    BY <1>1, <1>2 DEF CatalogInv, EntryOK, NotReplaced, TypeOK
  <1>6. LoadOK(p)'
    BY <1>1, <1>2, <1>4 DEF LoadOK, NotReplaced, AnswerOK, NothingFresh, Expired, Refresh, Bundled
  <1>7. "probe" \in Steps \ {"start"} /\ pc[p] \in Holding /\ "probe" \in Holding
    BY <1>2 DEF Steps, Holding
  <1> QED BY <1>2, <1>3, <1>4, <1>5, <1>6, <1>7, GoesOn

LEMMA DiscoverStep ==
    ASSUME CatalogInv, NEW p \in Processes, pc[p] \in {"probe", "bundled"},
           NEW source \in {"live", "bundled"}, NEW warned \in BOOLEAN, Discover(p, source, warned)
    PROVE  CatalogInv'
  <1> DEFINE c == [lists |-> installed, version |-> version[p], at |-> clock, source |-> source,
                   stale |-> FALSE, warned |-> warned]
  <1>1. /\ TypeOK /\ LoadOK(p) /\ install[p] \in Installs /\ EntryOK(install[p])
        /\ pc \in [Processes -> Steps]
    BY DEF CatalogInv, TypeOK, Steps
  <1>2. version[p] \in Installs /\ version[p] >= install[p]
    BY <1>1 DEF LoadOK, TypeOK
  <1>3. /\ c \in Catalogs /\ c.at = clock /\ NotReplaced(c, install[p])
    BY <1>1, <1>2 DEF Catalogs, TypeOK, NotReplaced, LoadOK
  <1>4. /\ found' = [found EXCEPT ![p] = c] /\ Goto(p, "save")
        /\ UNCHANGED <<clock, installed, request, cache, versions, refresher, began, install, cached,
                       version, answer>>
    BY DEF Discover, Now, own
  <1> HIDE DEF c
  <1>5. /\ version' \in [Processes -> Installs \cup {None}]
        /\ versions' \in [Installs -> Installs \cup {None}]
        /\ cached' \in [Processes -> Catalogs \cup {None}]
        /\ found' \in [Processes -> Catalogs \cup {None}]
    BY <1>1, <1>3, <1>4 DEF TypeOK
  <1>6. /\ pc'[p] = "save" /\ found'[p] = c
        /\ \A q \in Processes \ {p} : found'[q] = found[q]
    BY <1>1, <1>4 DEF Goto, TypeOK
  <1>7. \A f \in Installs : EntryOK(f)'
    BY <1>4, EntriesStay
  <1>8. began[p] <= clock /\ clock <= clock /\ (cache[install[p]] # None => cache[install[p]].at <= clock)
    BY <1>1 DEF LoadOK, EntryOK, TypeOK, Times
  <1>9. LoadOK(p)'
    BY <1>1, <1>3, <1>4, <1>6, <1>8 DEF LoadOK, NotReplaced, AnswerOK
  <1>10. "save" \in Steps \ {"start"} /\ pc[p] \in Holding /\ "save" \in Holding
    BY DEF Steps, Holding
  <1> QED BY <1>4, <1>5, <1>6, <1>7, <1>9, <1>10, GoesOn

LEMMA ProbingSteps ==
    ASSUME CatalogInv, NEW p \in Processes,
           VersionFails(p) \/ Probe(p) \/ ProbeFails(p) \/ ProbeBundled(p) \/ ProbeBundledFails(p)
    PROVE  CatalogInv'
  <1>1. TypeOK /\ LoadOK(p) /\ pc \in [Processes -> Steps]
    BY DEF CatalogInv, TypeOK, Steps
  <1>2. CASE Probe(p) \/ ProbeBundled(p)
    BY <1>2, DiscoverStep DEF Probe, ProbeBundled, At
  <1>3. CASE VersionFails(p) \/ (ProbeFails(p) /\ Bundled(p)) \/ ProbeBundledFails(p)
    <2>1. /\ Return(p, Prior(p)) /\ Release(p) /\ pc[p] # "start"
          /\ UNCHANGED <<clock, installed, request, cache, versions, own>>
      BY <1>3 DEF VersionFails, ProbeFails, ProbeBundledFails, At
    <2>2. Prior(p) \in Catalogs \cup {Fallback} /\ AnswerOK(p, Prior(p))
      BY <1>1, PriorAnswer
    <2> QED BY <2>1, <2>2, ReturnStep
  <1>4. CASE ProbeFails(p) /\ ~Bundled(p)
    <2>1. /\ pc[p] = "probe" /\ Goto(p, "bundled")
          /\ UNCHANGED <<clock, installed, request, cache, versions, refresher, began, install,
                         cached, version, found, answer>>
      BY <1>4 DEF ProbeFails, At, own
    <2>2. pc'[p] = "bundled"
      BY <1>1, <2>1 DEF Goto
    <2>3. LoadOK(p)'
      BY <1>1, <2>1, <2>2 DEF LoadOK, NotReplaced, AnswerOK
    <2>4. \A g \in Installs : EntryOK(g)'
      BY <2>1, EntriesStay
    <2>5. /\ versions' \in [Installs -> Installs \cup {None}]
          /\ cached' \in [Processes -> Catalogs \cup {None}]
          /\ version' \in [Processes -> Installs \cup {None}]
          /\ found' \in [Processes -> Catalogs \cup {None}]
      BY <1>1, <2>1 DEF TypeOK
    <2>6. "bundled" \in Steps \ {"start"} /\ pc[p] \in Holding /\ "bundled" \in Holding
      BY <2>1 DEF Steps, Holding
    <2> QED BY <2>1, <2>3, <2>4, <2>5, <2>6, GoesOn
  <1> QED BY <1>2, <1>3, <1>4

LEMMA FoundAnswer ==
    ASSUME CatalogInv, NEW p \in Processes, pc[p] = "save"
    PROVE  /\ found[p] \in Catalogs /\ AnswerOK(p, found[p])
           /\ [found[p] EXCEPT !.warned = TRUE] \in Catalogs
           /\ AnswerOK(p, [found[p] EXCEPT !.warned = TRUE])
  <1>1. LoadOK(p) /\ found[p] \in Catalogs
    BY DEF CatalogInv, TypeOK, LoadOK
  <1>2. found[p].at \in Times /\ began[p] \in Times /\ began[p] <= found[p].at
        /\ NotReplaced(found[p], install[p])
    BY <1>1 DEF Catalogs, LoadOK, CatalogInv, TypeOK
  <1>3. found[p].at + MaxAge >= began[p]
    BY <1>2 DEF Times
  <1>4. [found[p] EXCEPT !.warned = TRUE] \in Catalogs
    BY <1>1 DEF Catalogs
  <1>5. NotReplaced([found[p] EXCEPT !.warned = TRUE], install[p])
        /\ [found[p] EXCEPT !.warned = TRUE].at = found[p].at
    BY <1>1, <1>2 DEF Catalogs, NotReplaced
  <1> QED BY <1>1, <1>2, <1>3, <1>4, <1>5 DEF AnswerOK

LEMMA SavingSteps ==
    ASSUME CatalogInv, NEW p \in Processes, Save(p) \/ SaveFails(p)
    PROVE  CatalogInv'
  <1>1. CASE SaveFails(p)
    <2>1. /\ Return(p, [found[p] EXCEPT !.warned = TRUE]) /\ Release(p) /\ pc[p] = "save"
          /\ UNCHANGED <<clock, installed, request, cache, versions, own>>
      BY <1>1 DEF SaveFails, At
    <2>2. pc[p] # "start"
      BY <2>1
    <2> QED BY <2>1, <2>2, FoundAnswer, ReturnStep
  <1>2. CASE Save(p)
    <2> DEFINE f == install[p]
               c == found[p]
    <2>1. TypeOK /\ LoadOK(p) /\ f \in Installs
      BY DEF CatalogInv, TypeOK
    <2>2. /\ pc[p] = "save" /\ cache' = [cache EXCEPT ![f] = c] /\ Release(p)
          /\ pc' = [pc EXCEPT ![p] = "done"] /\ answer' = [answer EXCEPT ![p] = c]
          /\ cached' = [cached EXCEPT ![p] = None] /\ version' = [version EXCEPT ![p] = None]
          /\ found' = [found EXCEPT ![p] = None]
          /\ UNCHANGED <<clock, installed, request, versions, began, install>>
      BY <1>2 DEF Save, Return, Goto, At, own
    <2>3. c \in Catalogs /\ AnswerOK(p, c) /\ NotReplaced(c, f) /\ c.at <= clock
      BY <2>1, <2>2, FoundAnswer DEF LoadOK
    <2> HIDE DEF f, c
    <2>4. refresher' \in [Installs -> Processes \cup {Nobody}]
      BY <2>1, <2>2 DEF Release, TypeOK
    <2>5. TypeOK'
      BY <2>1, <2>2, <2>3, <2>4 DEF TypeOK
    <2>6. /\ pc'[p] = "done" /\ cached'[p] = None /\ version'[p] = None /\ found'[p] = None
          /\ answer'[p] = c /\ \A q \in Processes \ {p} : pc'[q] = pc[q]
      BY <2>1, <2>2 DEF TypeOK
    <2>7. LockInv'
      BY <2>2, <2>6, LockReleased DEF Holding
    <2>8. refresher[f] = p /\ \A g \in Installs \ {f} : cache'[g] = cache[g]
      BY <2>1, <2>2 DEF CatalogInv, LockInv, Holding, f, TypeOK
    <2>9. OnlyMoves(p)
      BY <2>1, <2>2, <2>8 DEF OnlyMoves, TypeOK
    <2>10. ASSUME NEW g \in Installs PROVE EntryOK(g)'
      <3>1. CASE g = f
        BY <2>1, <2>2, <2>3, <3>1 DEF CatalogInv, EntryOK, NotReplaced, TypeOK
      <3>2. CASE g # f
        BY <2>2, <2>8, <3>2 DEF CatalogInv, EntryOK, NotReplaced
      <3> QED BY <3>1, <3>2
    <2>11. LoadOK(p)'
      BY <2>1, <2>2, <2>3, <2>6 DEF LoadOK, AnswerOK, NotReplaced
    <2> QED BY <2>5, <2>7, <2>9, <2>10, <2>11, StepOf
  <1> QED BY <1>1, <1>2

LEMMA KilledStep ==
    ASSUME CatalogInv, NEW p \in Processes, Killed(p)
    PROVE  CatalogInv'
  <1>1. TypeOK /\ LoadOK(p)
    BY DEF CatalogInv
  <1>2. /\ pc[p] # "start" /\ pc' = [pc EXCEPT ![p] = "killed"] /\ Release(p)
        /\ cached' = [cached EXCEPT ![p] = None] /\ version' = [version EXCEPT ![p] = None]
        /\ found' = [found EXCEPT ![p] = None]
        /\ UNCHANGED <<clock, installed, request, cache, versions, began, install, answer>>
    BY DEF Killed, Goto, own
  <1>3. refresher' \in [Installs -> Processes \cup {Nobody}]
    BY <1>1, <1>2 DEF Release, TypeOK
  <1>4. TypeOK'
    BY <1>1, <1>2, <1>3 DEF TypeOK
  <1>5. OnlyMoves(p)
    BY <1>1, <1>2 DEF OnlyMoves, TypeOK
  <1>6. pc'[p] = "killed" /\ cached'[p] = None /\ version'[p] = None /\ found'[p] = None
    BY <1>1, <1>2 DEF TypeOK
  <1>7. LockInv'
    BY <1>2, <1>5, <1>6, LockReleased DEF OnlyMoves, Holding
  <1>8. LoadOK(p)'
    BY <1>1, <1>2, <1>6 DEF LoadOK, AnswerOK, NotReplaced
  <1> QED BY <1>2, <1>4, <1>5, <1>7, <1>8, EntriesStay, StepOf

\* Time and upgrades only make what is cached older.
LEMMA MachineSteps ==
    ASSUME CatalogInv, Upgrade \/ Tick
    PROVE  CatalogInv'
  <1>1. TypeOK'
    BY DEF CatalogInv, TypeOK, Upgrade, Tick, own, Times, Installs
  <1>2. /\ clock \in Times /\ clock' \in Times /\ clock <= clock'
        /\ installed \in Installs /\ installed' \in Installs /\ installed <= installed'
        /\ UNCHANGED <<request, cache, versions, refresher, pc, began, install, cached, version,
                       found, answer>>
    BY DEF CatalogInv, TypeOK, Upgrade, Tick, own, Times, Installs
  <1>3. LockInv'
    BY <1>2 DEF CatalogInv, LockInv
  <1>4. ASSUME NEW f \in Installs PROVE EntryOK(f)'
    <2>1. cache[f] # None => cache[f].at \in Times
      BY DEF CatalogInv, TypeOK, Catalogs
    <2> QED BY <1>2, <2>1 DEF CatalogInv, EntryOK, NotReplaced, Times
  <1>5. ASSUME NEW p \in Processes PROVE LoadOK(p)'
    <2>1. /\ LoadOK(p) /\ install[p] \in Installs /\ began[p] \in Times
          /\ found[p] # None => found[p].at \in Times
          /\ cache[install[p]] # None => cache[install[p]].at \in Times
      BY DEF CatalogInv, TypeOK, Catalogs
    <2>2. install[p] <= installed' /\ began[p] <= clock' /\ (found[p] # None => found[p].at <= clock')
      BY <1>2, <2>1 DEF LoadOK, Times, Installs
    <2>3. NothingFresh(install[p]) => NothingFresh(install[p])'
      BY <1>2, <2>1 DEF NothingFresh, Expired, Times
    <2> QED BY <1>2, <2>1, <2>2, <2>3 DEF LoadOK, NotReplaced, AnswerOK, Refresh, Bundled
  <1> QED BY <1>1, <1>3, <1>4, <1>5 DEF CatalogInv

LEMMA CatalogNext == CatalogInv /\ [Next]_vars => CatalogInv'
  <1> SUFFICES ASSUME CatalogInv, [Next]_vars PROVE CatalogInv'
    OBVIOUS
  <1>1. CASE UNCHANGED vars
    BY <1>1 DEF vars, CatalogInv, TypeOK, LockInv, EntryOK, LoadOK, NotReplaced, NothingFresh,
                Expired, AnswerOK, Refresh, Bundled
  <1>2. CASE Next
    BY <1>2, ReadingSteps, LockingSteps, VersionSteps, ProbingSteps, SavingSteps, KilledStep,
       MachineSteps DEF Next
  <1> QED BY <1>1, <1>2

LEMMA CatalogInvariant == Spec => []CatalogInv
  BY CatalogInit, CatalogNext, PTL DEF Spec

-----------------------------------------------------------------------------
\* Every variable of the catalog cache and of the loads keeps its type.
THEOREM CatalogTypeCorrect == Spec => []TypeOK
  <1>1. CatalogInv => TypeOK
    BY DEF CatalogInv
  <1> QED BY <1>1, CatalogInvariant, PTL

\* Whatever is upgraded while loads run: none returns models or a version of an
\* installation replaced before it began.
THEOREM NothingReplacedIsListedAlways == Spec => []NothingReplacedIsListed
  <1>1. CatalogInv => NothingReplacedIsListed
    BY DEF CatalogInv, LoadOK, AnswerOK, NotReplaced, NothingReplacedIsListed
  <1> QED BY <1>1, CatalogInvariant, PTL

\* A catalog not marked stale was fetched at most MaxAge before the load began.
THEOREM FreshIsRecentAlways == Spec => []FreshIsRecent
  <1>1. CatalogInv => FreshIsRecent
    BY DEF CatalogInv, LoadOK, AnswerOK, FreshIsRecent
  <1> QED BY <1>1, CatalogInvariant, PTL

\* No load asks Codex, unless told to, while the cache has a fresh catalog.
THEOREM RefreshesAreShared == Spec => RefreshIsShared
  <1>1. ASSUME CatalogInv, NEW p \in Processes, Probe(p) \/ ProbeFails(p), ~Refresh(p), ~Bundled(p)
        PROVE  cache[install[p]] = None \/ Expired(cache[install[p]].at)
    BY <1>1 DEF CatalogInv, LoadOK, NothingFresh, Probe, ProbeFails, At
  <1>2. CatalogInv /\ [Next]_vars =>
           [\A p \in Processes :
              ((Probe(p) \/ ProbeFails(p)) /\ ~Refresh(p) /\ ~Bundled(p)) =>
                 (cache[install[p]] = None \/ Expired(cache[install[p]].at))]_vars
    BY <1>1
  <1> QED BY <1>2, CatalogInvariant, PTL DEF Spec, RefreshIsShared

LEMMA CacheStep ==
    ASSUME CatalogInv, [Next]_vars, NEW f \in Installs, cache[f] # None
    PROVE  cache'[f] # None /\ cache'[f].at >= cache[f].at
  <1>1. cache[f].at \in Times /\ cache \in [Installs -> Catalogs \cup {None}]
    BY DEF CatalogInv, TypeOK, Catalogs
  <1>2. ASSUME NEW p \in Processes, Save(p) PROVE cache'[f] # None /\ cache'[f].at >= cache[f].at
    <2>1. /\ pc[p] = "save" /\ cache' = [cache EXCEPT ![install[p]] = found[p]]
          /\ found[p] \in Catalogs
      BY <1>2, FoundAnswer DEF Save, At
    <2>2. CASE f = install[p]
      <3>1. cache'[f] = found[p] /\ cache[f].at <= found[p].at
        BY <1>1, <2>1, <2>2 DEF CatalogInv, LoadOK
      <3>2. found[p].at \in Times
        BY <2>1 DEF Catalogs
      <3> QED BY <1>1, <2>1, <3>1, <3>2 DEF Times
    <2>3. CASE f # install[p]
      BY <1>1, <2>1, <2>3 DEF Times
    <2> QED BY <2>2, <2>3
  <1>3. CASE cache' = cache
    BY <1>1, <1>3 DEF Times
  <1>4. cache' = cache \/ \E p \in Processes : Save(p)
    BY DEF Next, vars, Start, ReadCache, LockRefresh, LockTimeout, LockFails, Reload, KnownVersion,
           ProbeVersion, VersionFails, Probe, ProbeFails, ProbeBundled, ProbeBundledFails, Discover,
           SaveFails, Killed, Upgrade, Tick
  <1> QED BY <1>2, <1>3, <1>4

\* The catalog in the cache is only ever replaced by one fetched later, however slow the
\* process that fetched it.
THEOREM CacheNeverGoesBackAlways == Spec => CacheNeverGoesBack
  <1>1. CatalogInv /\ [Next]_vars =>
           [\A f \in Installs : cache[f] # None =>
               cache'[f] # None /\ cache'[f].at >= cache[f].at]_vars
    BY CacheStep
  <1> QED BY <1>1, CatalogInvariant, PTL DEF Spec, CacheNeverGoesBack
=============================================================================
