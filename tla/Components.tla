----------------------------- MODULE Components -----------------------------
(***************************************************************************)
(* Nine components in one: those that share no state with one another.     *)
(* Which one runs is chosen at the start, and the others stay at the state *)
(* they start in.  The constants and variables of a part bear its letter;  *)
(* Threads and None are those of every part that has them.                 *)
(***************************************************************************)
EXTENDS ChunkBlock

CONSTANTS
    Threads, None,
    tVertices, tStrengths, tUnit, tMaxOps, tMaxDepth, tActivations,                    \* Traversal
    qNumPlaces, qMaxIds, qMaxOps, qMaxPasses, qMaxAtWork, qPayloads, qRequests, qSaved, \* Queries
    wWords, wPayloads, wPrefixed, wNumPlaces, wMaxIds, wMaxOps, wMaxRefs,              \* TokenIndex
    hValues, hMaxTime, hMaxHistory,                                                    \* TimeTravel
    lNames, lGraph0, lMetas, lNoMeta, lMaxOps, lMaxCrashes,                            \* GraphLifecycle
    sNames, sGraph0, sMetas, sNoMeta, sConfs, sStandard, sClients,                     \* GraphSync
    sMaxChanges, sMaxReads, sMaxTroubles,
    kVertices, kEdges, kEnds, kStripe, kMaxOps,                                        \* LockedOps
    dDocs, dGraphs, dPresent, dFound, dMaxRetries, dMaxOps, dMaxCrashes                \* Documents

\* What the parts take for granted: finitely many entities with locks, bounds
\* that are numbers, and distinct names; the names of graphs have an order.
ASSUME ComponentsAssumption ==
    /\ IsFiniteSet(kVertices \cup kEdges)
    /\ hMaxTime \in Nat /\ hMaxHistory \in Nat
    /\ lNames \subseteq Nat /\ lGraph0 \in lNames /\ \E n \in lNames : \A k \in lNames : n >= k
    /\ None \notin dDocs /\ None \notin dGraphs /\ dPresent \in dDocs

VARIABLES
    part,
    tStatus, tEdge, tOrder, tOps,                                        \* Traversal
    qG, qThread, qNow, qPasses, qUpdated, qClashed, qMisled,             \* Queries
    wPlace, wUsed, wTokens, wEntity, wThread, wOps, wAdded, wRaced,      \* TokenIndex
    hRec, hNow, hTruth, hTurns, hBlurred,                                \* TimeTravel
    lOpened, lHandles, lReg, lDirs, lFile, lThread, lUp, lOps, lCrashes, \* GraphLifecycle
    lAnswered, lSettled, lSpoiled,
    sMaster, sWorker, sPending, sQueue, sCalls, sBeat,                   \* GraphSync
    sChanges, sReads, sTroubles,
    kIndex, kFreed, kFresh, kThread, kOps, kUnguarded,                   \* LockedOps
    dUsed, dContent, dIndex, dSaved, dSource, dThread, dTask,            \* Documents
    dOps, dCrashes, dCleaned, dBlurred

tVars == <<tStatus, tEdge, tOrder, tOps>>
qVars == <<qG, qThread, qNow, qPasses, qUpdated, qClashed, qMisled>>
wVars == <<wPlace, wUsed, wTokens, wEntity, wThread, wOps, wAdded, wRaced>>
hVars == <<hRec, hNow, hTruth, hTurns, hBlurred>>
lVars == <<lOpened, lHandles, lReg, lDirs, lFile, lThread, lUp, lOps, lCrashes, lAnswered, lSettled,
           lSpoiled>>
sVars == <<sMaster, sWorker, sPending, sQueue, sCalls, sBeat, sChanges, sReads, sTroubles>>
kVars == <<kIndex, kFreed, kFresh, kThread, kOps, kUnguarded>>
dVars == <<dUsed, dContent, dIndex, dSaved, dSource, dThread, dTask, dOps, dCrashes, dCleaned,
           dBlurred>>

T == INSTANCE Traversal WITH
        Vertices <- tVertices, Strengths <- tStrengths, Unit <- tUnit, MaxOps <- tMaxOps,
        MaxDepth <- tMaxDepth, Activations <- tActivations,
        status <- tStatus, edge <- tEdge, order <- tOrder, ops <- tOps
Q == INSTANCE Queries WITH
        NumPlaces <- qNumPlaces, MaxIds <- qMaxIds, MaxOps <- qMaxOps, MaxPasses <- qMaxPasses,
        MaxAtWork <- qMaxAtWork, Payloads <- qPayloads, Requests <- qRequests, Saved <- qSaved,
        g <- qG, thread <- qThread, now <- qNow, passes <- qPasses, updated <- qUpdated,
        clashed <- qClashed, misled <- qMisled
W == INSTANCE TokenIndex WITH
        Words <- wWords, Payloads <- wPayloads, Prefixed <- wPrefixed, NumPlaces <- wNumPlaces,
        MaxIds <- wMaxIds, MaxOps <- wMaxOps, MaxRefs <- wMaxRefs,
        place <- wPlace, used <- wUsed, tokens <- wTokens, entity <- wEntity, thread <- wThread,
        ops <- wOps, added <- wAdded, raced <- wRaced
H == INSTANCE TimeTravel WITH
        Values <- hValues, MaxTime <- hMaxTime, MaxHistory <- hMaxHistory,
        rec <- hRec, now <- hNow, truth <- hTruth, turns <- hTurns, blurred <- hBlurred
L == INSTANCE GraphLifecycle WITH
        Names <- lNames, Graph0 <- lGraph0, Metas <- lMetas, NoMeta <- lNoMeta,
        MaxOps <- lMaxOps, MaxCrashes <- lMaxCrashes,
        opened <- lOpened, handles <- lHandles, reg <- lReg, dirs <- lDirs, file <- lFile,
        thread <- lThread, up <- lUp, ops <- lOps, crashes <- lCrashes, answered <- lAnswered,
        settled <- lSettled, spoiled <- lSpoiled
S == INSTANCE GraphSync WITH
        Names <- sNames, Graph0 <- sGraph0, Metas <- sMetas, NoMeta <- sNoMeta, Confs <- sConfs,
        Standard <- sStandard, Clients <- sClients, MaxChanges <- sMaxChanges, MaxReads <- sMaxReads,
        MaxTroubles <- sMaxTroubles,
        master <- sMaster, worker <- sWorker, pending <- sPending, queue <- sQueue, calls <- sCalls,
        beat <- sBeat, changes <- sChanges, reads <- sReads, troubles <- sTroubles
K == INSTANCE LockedOps WITH
        Vertices <- kVertices, Edges <- kEdges, Ends <- kEnds, Stripe <- kStripe, MaxOps <- kMaxOps,
        index <- kIndex, freed <- kFreed, fresh <- kFresh, thread <- kThread, ops <- kOps,
        unguarded <- kUnguarded
D == INSTANCE Documents WITH
        Docs <- dDocs, Graphs <- dGraphs, NoGraph <- None, NoDoc <- None, Present <- dPresent,
        Found <- dFound, MaxRetries <- dMaxRetries, MaxOps <- dMaxOps, MaxCrashes <- dMaxCrashes,
        used <- dUsed, content <- dContent, index <- dIndex, saved <- dSaved, source <- dSource,
        thread <- dThread, task <- dTask, ops <- dOps, crashes <- dCrashes, cleaned <- dCleaned,
        blurred <- dBlurred

-----------------------------------------------------------------------------
Parts == {"chunks", "traversal", "queries", "tokens", "versions", "lifecycle", "sync", "locks", "documents"}

ComponentsInit ==
    /\ part \in Parts
    /\ BlockInit /\ T!Init /\ Q!Init /\ W!Init /\ H!Init /\ L!Init /\ S!Init /\ K!Init /\ D!Init

\* Only the part that runs takes steps.
ComponentsNext ==
    /\ UNCHANGED part
    /\ IF part = "chunks" THEN BlockNext ELSE UNCHANGED blockVars
    /\ IF part = "traversal" THEN T!Next ELSE UNCHANGED tVars
    /\ IF part = "queries" THEN Q!Next ELSE UNCHANGED qVars
    /\ IF part = "tokens" THEN W!Next ELSE UNCHANGED wVars
    /\ IF part = "versions" THEN H!Next ELSE UNCHANGED hVars
    /\ IF part = "lifecycle" THEN L!Next ELSE UNCHANGED lVars
    /\ IF part = "sync" THEN S!Next ELSE UNCHANGED sVars
    /\ IF part = "locks" THEN K!Next ELSE UNCHANGED kVars
    /\ IF part = "documents" THEN D!Next ELSE UNCHANGED dVars

componentsVars == <<part, blockVars, tVars, qVars, wVars, hVars, lVars, sVars, kVars, dVars>>

\* The fairness of GraphSync and of Documents; the other parts need none.
ComponentsSpec ==
    /\ ComponentsInit /\ [][ComponentsNext]_componentsVars
    /\ WF_sVars(part = "sync" /\ \E c \in sClients : S!Broadcast(c))
    /\ WF_sVars(part = "sync" /\ S!Deliver)
    /\ \A t \in S!Tasks : WF_sVars(part = "sync" /\ S!Step(t))
    /\ WF_sVars(part = "sync" /\ S!Report)
    /\ WF_sVars(part = "sync" /\ S!Acknowledge)
    /\ \A t \in Threads : WF_dVars(part = "documents" /\ D!Going(t))

-----------------------------------------------------------------------------
\* Every component stays in its types.
PartsTypeOK ==
    /\ part = "chunks" => BlockTypeOK
    /\ part = "traversal" => T!TypeOK
    /\ part = "queries" => Q!TypeOK
    /\ part = "tokens" => W!TypeOK
    /\ part = "versions" => H!TypeOK
    /\ part = "lifecycle" => L!TypeOK
    /\ part = "sync" => S!TypeOK
    /\ part = "locks" => K!TypeOK
    /\ part = "documents" => D!TypeOK

\* out, in, both and repeat answer the vertices within the depth (Traversal).
NeighboursWithinDepth == part = "traversal" => T!NeighboursWithinDepth

\* traverse scores a vertex with the best walk to it (Traversal).
ScoresAreBestWalks == part = "traversal" => T!ScoresAreBestWalks


\* A query answered from an index answers what the plain steps do (Queries).
PeekAgrees == part = "queries" => Q!PeekAgrees

\* limit and rank answer the readable entities of highest rank (Queries).
TopIsTop == part = "queries" => Q!TopIsTop

\* A search finds what was written and not deleted, and scores it (TokenIndex).
SearchFinds == part = "tokens" => W!SearchFinds

\* A read at an earlier time answers what the record said then (TimeTravel).
HistoryFaithful == part = "versions" => H!HistoryFaithful

\* All requests for a graph work on one open graph (GraphLifecycle).
OneHandle == part = "lifecycle" => L!OneHandle

\* A graph answered to a client stays listed, also after a crash (GraphLifecycle).
SettledListed == part = "lifecycle" => L!SettledListed

\* The worker comes to list and configure the graphs of the master (GraphSync).
SyncConverges == S!SyncConverges

\* A record that an operation looked up stays the record while it works (LockedOps).
LookedUpStays == part = "locks" => K!LookedUpStays

\* index.json holds the documents of the memory at rest (Documents).
SavedWhenQuiet == part = "documents" => D!SavedWhenQuiet

\* Nothing of a document is left after its clean deletion (Documents).
CleanedStays == part = "documents" => D!CleanedStays

\* An extraction ends, and its task shows it (Documents).
TasksEnd == \A t \in Threads : D!TaskEnds(t)
=============================================================================
