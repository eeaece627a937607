----------------------------- MODULE LedgerCache -----------------------------
(***************************************************************************)
(* How ReportingETL fills the cache of a clio that starts on a populated   *)
(* database.  A loader brings in the state of one ledger in pages, from    *)
(* another clio or else from the database, while the monitor applies the   *)
(* newer ledgers as they are committed and the peer moves on as well.      *)
(***************************************************************************)
EXTENDS SimpleCache, Sequences

CONSTANTS
    NumPeers,
    PageSize,         \* cachePageFetchSize_, and the limit asked of a peer
    NumCacheDiffs,
    NumCacheMarkers,
    MaxLedgers,       \* bound: ledgers in a behaviour
    MayStop

ASSUME LoaderAssumption ==
    /\ NumPeers \in Nat /\ PageSize \in Nat \ {0} /\ MaxLedgers \in Nat \ {0}
    /\ NumCacheDiffs \in Nat /\ NumCacheMarkers \in Nat \ {0}
    /\ MayStop \in BOOLEAN

VARIABLES
    ledgers,      \* the state of each committed ledger
    emptyStart,   \* a read-only clio that was started on an empty database
    populated,    \* the database is not empty any more
    cache,
    nextSequence, \* the monitor's
    blocking,     \* the monitor waits for the cache to be full
    loadSeq,      \* the ledger that is loaded
    loader,       \* "peer", "db", "loaded", "done"
    peersLeft,
    peerMax,      \* the newest ledger the peer has
    request,      \* the marker of the next request to the peer
    reply,        \* what the peer answered
    segments,     \* the database loader's walks
    stopping

vars == <<ledgers, emptyStart, populated, cache, nextSequence, blocking, loadSeq, loader, peersLeft, peerMax,
          request, reply, segments, stopping>>

database == <<ledgers, emptyStart, populated>>

peer == <<peersLeft, peerMax, request, reply>>

NoReply == [marker |-> 0]

(* The marker of a request out of order is absent, a key, or the sequence   *)
(* of a ledger whose deletions are asked for.                               *)
Start == [type |-> "start", value |-> 0]

KeyMarker(k) == [type |-> "key", value |-> k]

DiffMarker(s) == [type |-> "diff", value |-> s]

End == [type |-> "end", value |-> 0]

MaxSequence == Len(ledgers)

(* The keys of the objects the database holds for ledger s.                 *)
Live(s) == {k \in Key : populated /\ ledgers[s][k] # Absent}

(* fetchLedgerDiff: the keys a ledger touched, with their blobs.  The first *)
(* ledger of a database is loaded as a whole and has no diff.               *)
Diff(s) ==
    LET touched == IF s \notin 2 .. MaxSequence \/ ~populated THEN {}
                   ELSE {k \in Key : ledgers[s][k] # ledgers[s - 1][k]}
    IN  [k \in touched |-> ledgers[s][k]]

(* The first n keys after cursor, of the keys in S.                         *)
PageKeys(S, cursor, n) ==
    {k \in S : k > cursor /\ Cardinality({j \in S : cursor < j /\ j < k}) < n}

(* The objects of ledger s among the keys in S.                             *)
Objects(S, s) == [k \in S \cap Live(s) |-> ledgers[s][k]]

-----------------------------------------------------------------------------
(* Ledgers are committed by some writer; the monitor publishes each one and *)
(* applies its diff.  A synchronous load from the database comes first.     *)

(* An object is left alone, deleted, or created or modified.                *)
Successors(state, s) ==
    {t \in [Key -> 0 .. s] : \A k \in Key : t[k] \in {state[k], Absent, s}}

NewLedger ==
    /\ populated /\ MaxSequence < MaxLedgers
    /\ \E state \in Successors(ledgers[MaxSequence], MaxSequence + 1) :
          ledgers' = Append(ledgers, state)
    /\ UNCHANGED <<emptyStart, populated, cache, nextSequence, blocking, loadSeq, loader,
                   peer, segments, stopping>>

(* The first ledgers reach a database that was empty.                       *)
Populate ==
    /\ ~populated
    /\ populated' = TRUE
    /\ UNCHANGED <<ledgers, emptyStart, cache, nextSequence, blocking, loadSeq, loader,
                   peer, segments, stopping>>

LiveUpdate ==
    /\ populated /\ nextSequence <= MaxSequence
    /\ blocking => cache.full
    /\ cache' = Update(cache, Diff(nextSequence), nextSequence, FALSE)
    /\ nextSequence' = nextSequence + 1
    /\ UNCHANGED <<database, blocking, loadSeq, loader, peer, segments, stopping>>

(* Only the walks of the database loader look at stopping_.                 *)
Stop ==
    /\ MayStop /\ ~stopping /\ loader = "db"
    /\ stopping' = TRUE
    /\ UNCHANGED <<database, cache, nextSequence, blocking, loadSeq, loader, peer, segments>>

-----------------------------------------------------------------------------
(* loadCacheFromClioPeer.                                                   *)

PeerAdvances ==
    /\ loader = "peer" /\ populated /\ peerMax < MaxSequence
    /\ peerMax' = peerMax + 1
    /\ UNCHANGED <<database, cache, nextSequence, blocking, loadSeq, loader, peersLeft,
                   request, reply, segments, stopping>>

(* ledger_data with out_of_order: the keys come from the newest ledger the  *)
(* peer has at that moment, the objects from the ledger asked for.  After   *)
(* the last key come the objects deleted since, ledger by ledger.           *)
PeerPage ==
    LET keys == PageKeys(Live(peerMax), request.value, PageSize)
    IN  [objects |-> Objects(keys, loadSeq),
         marker |-> IF Cardinality(keys) = PageSize THEN KeyMarker(Last(keys))
                    ELSE DiffMarker(peerMax)]

\* Mutant: the loop ends with the newest ledger.
PeerDiff_Once ==
    LET s == request.value
        deleted == {k \in DOMAIN Diff(s) : Diff(s)[k] = Absent}
    IN  [objects |-> Objects(deleted, loadSeq), marker |-> End]

PeerDiff ==
    LET s == request.value
        deleted == {k \in DOMAIN Diff(s) : Diff(s)[k] = Absent}
    IN  [objects |-> Objects(deleted, loadSeq),
         marker |-> IF s > loadSeq THEN DiffMarker(s - 1) ELSE End]

PeerAnswers ==
    /\ loader = "peer" /\ reply = NoReply /\ populated /\ peerMax >= loadSeq
    /\ reply' = IF request.type = "diff" THEN PeerDiff ELSE PeerPage
    /\ UNCHANGED <<database, cache, nextSequence, blocking, loadSeq, loader, peersLeft,
                   peerMax, request, segments, stopping>>

ApplyReply ==
    /\ loader = "peer" /\ reply # NoReply
    /\ cache' = Update(cache, reply.objects, loadSeq, TRUE)
    /\ request' = reply.marker
    /\ reply' = NoReply
    /\ loader' = IF reply.marker = End THEN "loaded" ELSE "peer"
    /\ UNCHANGED <<database, nextSequence, blocking, loadSeq, peersLeft, peerMax, segments,
                   stopping>>

\* Mutant: nothing is loaded from the database.
PeerFails_NoFallback ==
    /\ loader = "peer"
    /\ peersLeft' = peersLeft - 1
    /\ loader' = IF peersLeft' = 0 THEN "done" ELSE "peer"
    /\ request' = Start /\ reply' = NoReply
    /\ UNCHANGED <<database, cache, nextSequence, blocking, loadSeq, peerMax, segments, stopping>>

(* Any error, a ledger the peer still does not have after five attempts, or *)
(* a peer whose own cache is not full: the next peer, then the database.    *)
PeerFails ==
    /\ loader = "peer"
    /\ peersLeft' = peersLeft - 1
    /\ loader' = IF peersLeft' = 0 THEN "db" ELSE "peer"
    /\ request' = Start /\ reply' = NoReply
    /\ UNCHANGED <<database, cache, nextSequence, blocking, loadSeq, peerMax, segments, stopping>>

-----------------------------------------------------------------------------
(* loadCacheFromDb: the key space is cut at the objects that the last       *)
(* NumCacheDiffs ledgers touched and none of them deleted; each piece is    *)
(* walked on its own, at most NumCacheMarkers at a time.                    *)

Cursors ==
    LET recent == (loadSeq - NumCacheDiffs + 1) .. loadSeq
    IN  {k \in Key : /\ \E s \in recent : k \in DOMAIN Diff(s)
                     /\ \A s \in recent : k \in DOMAIN Diff(s) => Diff(s)[k] # Absent}

(* A walk starts after a cursor, or at the first key; NoKey stands for the  *)
(* missing bound at either end.                                             *)
Segment == {[start |-> c, end |-> First({d \in Cursors : d > c})] : c \in Cursors \cup {NoKey}}

SplitKeySpace ==
    /\ loader = "db" /\ segments = << >>
    /\ segments' = [g \in Segment |-> [state |-> "waiting", cursor |-> g.start]]
    /\ UNCHANGED <<database, cache, nextSequence, blocking, loadSeq, loader, peer, stopping>>

Running == {g \in DOMAIN segments : segments[g].state = "running"}

\* Mutant: the limit on concurrent walks is not waited for.
StartSegment_NoWait(g) ==
    /\ loader = "db" /\ g \in DOMAIN segments /\ segments[g].state = "waiting"
    /\ segments' = [segments EXCEPT ![g].state = "running"]
    /\ UNCHANGED <<database, cache, nextSequence, blocking, loadSeq, loader, peer, stopping>>

StartSegment(g) ==
    /\ loader = "db" /\ g \in DOMAIN segments /\ segments[g].state = "waiting"
    /\ \A h \in DOMAIN segments : h.start < g.start => segments[h].state # "waiting"
    /\ Cardinality(Running) # NumCacheMarkers
    /\ segments' = [segments EXCEPT ![g].state = "running"]
    /\ UNCHANGED <<database, cache, nextSequence, blocking, loadSeq, loader, peer, stopping>>

LoadPage(g) ==
    LET keys == PageKeys(Live(loadSeq), segments[g].cursor, PageSize)
        atEnd == Cardinality(keys) < PageSize \/ (g.end # NoKey /\ Last(keys) > g.end)
    IN  /\ loader = "db" /\ g \in Running /\ ~stopping
        /\ cache' = Update(cache, Objects(keys, loadSeq), loadSeq, TRUE)
        /\ segments' = [segments EXCEPT
                          ![g] = IF atEnd THEN [@ EXCEPT !.state = "done"]
                                 ELSE [@ EXCEPT !.cursor = Last(keys)]]
        /\ UNCHANGED <<database, nextSequence, blocking, loadSeq, loader, peer, stopping>>

AbandonSegment(g) ==
    /\ loader = "db" /\ g \in Running /\ stopping
    /\ segments' = [segments EXCEPT ![g].state = "done"]
    /\ UNCHANGED <<database, cache, nextSequence, blocking, loadSeq, loader, peer, stopping>>

FinishLoad ==
    /\ \/ loader = "loaded"
       \/ /\ loader = "db" /\ segments # << >>
          /\ \A g \in DOMAIN segments : segments[g].state = "done"
    /\ cache' = SetFull(cache)
    /\ loader' = "done"
    /\ UNCHANGED <<database, nextSequence, blocking, loadSeq, peer, segments, stopping>>

-----------------------------------------------------------------------------
(* loadCache, called by the monitor with the newest ledger of the database. *)

Init ==
    /\ \E s \in [Key -> {Absent, 1}] : ledgers \in {<<s, t>> : t \in Successors(s, 2)}
    /\ loadSeq = 2 /\ nextSequence = 3
    /\ peersLeft \in 0 .. NumPeers
    /\ emptyStart \in {FALSE, peersLeft = 0} /\ populated = ~emptyStart
    /\ \E style \in {"SYNC", "ASYNC", "NOT_AT_ALL"} :
          /\ cache = IF style = "NOT_AT_ALL" THEN SetDisabled(EmptyCache) ELSE EmptyCache
          /\ loader = IF style = "NOT_AT_ALL" THEN "done"
                      ELSE IF peersLeft > 0 THEN "peer" ELSE "db"
          /\ blocking = (style = "SYNC" /\ peersLeft = 0)
    /\ peerMax \in IF peersLeft = 0 THEN {loadSeq} ELSE {loadSeq - 1, loadSeq}
    /\ request = Start /\ reply = NoReply
    /\ segments = << >> /\ stopping = FALSE

Next ==
    \/ NewLedger \/ Populate \/ LiveUpdate \/ Stop
    \/ PeerAdvances \/ PeerAnswers \/ ApplyReply \/ PeerFails
    \/ SplitKeySpace
    \/ \E g \in DOMAIN segments : StartSegment(g) \/ LoadPage(g) \/ AbandonSegment(g)
    \/ FinishLoad

Spec == Init /\ [][Next]_vars

(* The coroutines and the downloader thread are scheduled and peers answer  *)
(* or fail; nothing is assumed of the monitor or of the peer's own ETL, so  *)
(* a request may be answered only after the attempts have run out.          *)
LoaderStep ==
    \/ ApplyReply \/ PeerFails \/ SplitKeySpace \/ FinishLoad
    \/ \E g \in DOMAIN segments : StartSegment(g) \/ LoadPage(g) \/ AbandonSegment(g)

FairSpec == Spec /\ WF_vars(LoaderStep)

-----------------------------------------------------------------------------
(* Properties.                                                              *)

(* Types of the cache, the ledgers and the loaders.                         *)
TypeOK ==
    /\ ledgers \in Seq([Key -> Nat]) /\ {emptyStart, populated} \subseteq BOOLEAN /\ cache \in Cache
    /\ nextSequence \in Nat /\ loadSeq \in Nat /\ blocking \in BOOLEAN
    /\ loader \in {"peer", "db", "loaded", "done"}
    /\ peersLeft \in 0 .. NumPeers /\ peerMax \in 0 .. MaxSequence
    /\ request.type \in {"start", "key", "diff", "end"}
    /\ reply # NoReply => DOMAIN reply.objects \subseteq Key
    /\ \A g \in DOMAIN segments :
          /\ g.start \in Key \cup {NoKey} /\ g.end \in Key \cup {NoKey}
          /\ segments[g] \in [state : {"waiting", "running", "done"}, cursor : Key \cup {NoKey}]
    /\ Cardinality(Running) <= NumCacheMarkers
    /\ stopping \in BOOLEAN

(* A hit is never wrong, for the latest ledger or for an older one, full or *)
(* not: pages of an old ledger that arrive after newer updates neither      *)
(* bring back a deleted object nor replace a newer version                  *)
(* (SimpleCache.cpp:50, 54).                                                *)
HitsAreCorrect ==
    \A k \in Key, s \in 1 .. cache.latestSeq :
        Get(cache, k, s) \in {Absent, ledgers[s][k]}

NeighboursAre(s) ==
    \A k \in Key : /\ GetSuccessor(cache, k, s) = First({j \in Live(s) : j > k})
                   /\ GetPredecessor(cache, k, s) = Last({j \in Live(s) : j < k})

(* A full cache has every object of its latest ledger and no other,         *)
(* whichever way it was loaded and whatever was committed meanwhile: the    *)
(* neighbours of every key, from which buildNextLedger writes the successor *)
(* table, are those of that ledger (ReportingETL.cpp:460).                  *)
FullIsComplete ==
    cache.full /\ ~emptyStart /\ ~stopping => NeighboursAre(cache.latestSeq)

(* The cache answers from the ledger alone: every hit and, once it is full, *)
(* every neighbour is that of the ledger asked for, and no more walks load  *)
(* at a time than the configured markers.                                   *)
CacheIsLedger == TypeOK /\ HitsAreCorrect /\ FullIsComplete

(* Why the cache is the ledger.  What it holds is still so in its latest    *)
(* ledger, as a later ledger that touched the object would have replaced or *)
(* erased it.                                                               *)
EntriesCurrent ==
    \A k \in Held(cache) :
        /\ cache.map[k].seq \in loadSeq .. cache.latestSeq /\ cache.map[k].blob # Absent
        /\ \A s \in cache.map[k].seq .. cache.latestSeq : ledgers[s][k] = cache.map[k].blob

(* What it does not hold is gone if the live updates deleted it; otherwise  *)
(* they never touched it, so a late page may still bring it.                *)
MissingKnown ==
    ~cache.disabled /\ ~cache.full =>
        \A k \in Key \ Held(cache) :
            IF k \in cache.deletes THEN ledgers[nextSequence - 1][k] = Absent
            ELSE \A s \in loadSeq .. nextSequence - 1 : ledgers[s][k] = ledgers[loadSeq][k]

Accounted == Held(cache) \cup cache.deletes

(* The objects that the requests from a marker on will still bring.         *)
Gone(k, n) ==
    \E s \in loadSeq + 1 .. n : ledgers[s - 1][k] # Absent /\ ledgers[s][k] = Absent

Due(marker) ==
    {k \in Live(loadSeq) : CASE marker.type \in {"start", "key"} -> k > marker.value \/ Gone(k, peerMax)
                             [] marker.type = "diff" -> Gone(k, marker.value)
                             [] OTHER -> FALSE}

MarkerOK(m) ==
    /\ m.type \in {"start", "key", "diff", "end"} /\ m.value \in Nat
    /\ m.type = "diff" => m.value \in loadSeq .. peerMax

PeerWalk ==
    loader = "peer" =>
        /\ ~emptyStart /\ peersLeft > 0 /\ segments = << >>
        /\ MarkerOK(request) /\ Live(loadSeq) \subseteq Accounted \cup Due(request)
        /\ reply # NoReply =>
              /\ MarkerOK(reply.marker)
              /\ DOMAIN reply.objects \subseteq Live(loadSeq)
              /\ \A k \in DOMAIN reply.objects : reply.objects[k] = ledgers[loadSeq][k]
              /\ Live(loadSeq) \subseteq Accounted \cup DOMAIN reply.objects \cup Due(reply.marker)

(* A walk has brought the objects between its start and its cursor, and in  *)
(* the end all up to the start of the next walk; together they leave        *)
(* nothing out.                                                             *)
Within(g, k) == g.start < k /\ (g.end = NoKey \/ k <= g.end)

Walked(g) ==
    {k \in Live(loadSeq) : IF segments[g].state = "done" THEN Within(g, k)
                           ELSE g.start < k /\ k <= segments[g].cursor}

DbWalk ==
    loader = "db" =>
        /\ segments # << >> => /\ DOMAIN segments # {}
                               /\ \A k \in Key : \E g \in DOMAIN segments : Within(g, k)
        /\ ~stopping /\ ~emptyStart => \A g \in DOMAIN segments : Walked(g) \subseteq Accounted
        /\ ~stopping => \A g \in DOMAIN segments : segments[g].state = "done" => cache.latestSeq # 0

Phase ==
    /\ loadSeq = 2 /\ MaxSequence >= 2 /\ nextSequence \in 3 .. MaxSequence + 1
    /\ ~emptyStart => populated
    /\ \/ cache.latestSeq = nextSequence - 1
       \/ cache.latestSeq = 0 /\ (cache.disabled \/ nextSequence = 3)
    /\ cache.disabled => ~cache.full /\ cache.latestSeq = 0 /\ loader = "done"
    /\ cache.full => loader = "done"
    /\ IsFiniteSet(DOMAIN segments)
    /\ loader = "loaded" => /\ ~emptyStart /\ cache.latestSeq # 0
                            /\ Live(loadSeq) \subseteq Accounted

(* A full cache holds the objects of its latest ledger.                     *)
FullIsLive ==
    cache.full /\ ~emptyStart /\ ~stopping =>
        cache.latestSeq # 0 /\ Held(cache) = Live(cache.latestSeq)

IInv == TypeOK /\ Phase /\ EntriesCurrent /\ MissingKnown /\ PeerWalk /\ DbWalk /\ FullIsLive

(* SimpleCache.h:84, of isFull: "whether the cache has all data for the     *)
(* most recent ledger".                                                     *)
FullMeansAllData == cache.full /\ ~stopping => NeighboursAre(cache.latestSeq)

(* Unless the cache is switched off it becomes full, although every peer    *)
(* may fail half way (ReportingETL.cpp:1071) and walks wait for each other  *)
(* (ReportingETL.cpp:1151).                                                 *)
LoadCompletes == <>(cache.disabled \/ cache.full)

=============================================================================
