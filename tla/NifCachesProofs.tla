-------------------------- MODULE NifCachesProofs --------------------------
(***************************************************************************)
(* What the NIF's parse caches guarantee for any number of threads,        *)
(* documents and calls, clears at any time included.  Object numbers only  *)
(* grow, so a new one is never in use; that is what keeps states private,  *)
(* and a reference to a destroyed node apart from those made later.        *)
(***************************************************************************)
EXTENDS NifCaches, TLAPS

\* Types, as wide as the argument needs: objects and None are integers.
CacheTypes ==
    /\ next \in Int /\ next > 0
    /\ domainCache \in [Json -> Int] /\ graphCache \in [Json -> Int]
    /\ DOMAIN pc = Thread
    /\ held \in [Thread -> Int]
    /\ arg \in [Thread -> Json] /\ DOMAIN answer = Thread

\* Everything in use was allocated before `next'.
Allocated ==
    /\ \A j \in Json : domainCache[j] < next /\ graphCache[j] < next
    /\ \A t \in Thread : held[t] < next

\* An entry of the domain cache is null exactly when its document is invalid;
\* the node of an entry of the graph cache is live.
EntriesRight ==
    \A j \in Json :
        /\ domainCache[j] # None => (domainCache[j] = Null <=> j \notin Valid)
        /\ graphCache[j] # None => graphCache[j] \in nodes /\ graphCache[j] > 0

\* A planner holds an object for a valid document, a reader one whose node, as
\* long as it is there, is the entry of its document.
ThreadsRight ==
    \A t \in Thread :
        /\ pc[t] = "planning" => held[t] > 0 /\ arg[t] \in Valid
        /\ Live(t) => held[t] > 0 /\ graphCache[arg[t]] = held[t]

CacheInv ==
    CacheTypes /\ Allocated /\ EntriesRight /\ ThreadsRight /\ AnswersPure /\ StatesPrivate

-----------------------------------------------------------------------------
LEMMA InitInv == Init => CacheInv
<1> SUFFICES ASSUME Init PROVE CacheInv
  OBVIOUS
<1> USE CachesAssumption DEF None, Live
<1>1. CacheTypes
  BY DEF Init, CacheTypes
<1>2. Allocated /\ EntriesRight
  BY DEF Init, Allocated, EntriesRight
<1>3. ThreadsRight /\ AnswersPure /\ StatesPrivate
  BY DEF Init, ThreadsRight, AnswersPure, StatesPrivate
<1> QED BY <1>1, <1>2, <1>3 DEF CacheInv

\* Every step preserves the invariant, a clear during a read included.
LEMMA StepInv ==
    ASSUME CacheInv, [Next]_vars
    PROVE  CacheInv'
<1> USE CachesAssumption DEF CacheInv, None, Null, Live
<1>1. ASSUME NEW t \in Thread, NEW j \in Json, LoadMiss(t, j) PROVE CacheInv'
  <2> USE <1>1 DEF LoadMiss, Call, Begin, Goto
  <2>1. CacheTypes'
    BY DEF CacheTypes
  <2>2. Allocated'
    BY DEF CacheTypes, Allocated
  <2>3. EntriesRight'
    BY DEF CacheTypes, EntriesRight
  <2>4. ThreadsRight'
    BY DEF CacheTypes, ThreadsRight, EntriesRight
  <2>5. AnswersPure'
    BY DEF CacheTypes, AnswersPure, EntriesRight, ThreadsRight
  <2>6. StatesPrivate'
    BY DEF CacheTypes, StatesPrivate, ThreadsRight
  <2> QED BY <2>1, <2>2, <2>3, <2>4, <2>5, <2>6
<1>2. ASSUME NEW t \in Thread, NEW j \in Json, LoadHit(t, j) PROVE CacheInv'
  <2>1. CASE domainCache[j] = Null
    <3>0. /\ pc[t] = "idle" /\ arg' = [arg EXCEPT ![t] = j]
          /\ pc' = [pc EXCEPT ![t] = "idle"] /\ held' = [held EXCEPT ![t] = None]
          /\ answer' = [answer EXCEPT ![t] = "failed_to_load_domain"]
          /\ next' = next /\ UNCHANGED <<domainCache, graphCache, nodes>>
      BY <1>2, <2>1 DEF LoadHit, Call, Begin, Goto, CacheTypes, Allocated
    <3>1. CacheTypes'
      BY <2>1, <3>0 DEF CacheTypes
    <3>2. Allocated'
      BY <2>1, <3>0 DEF CacheTypes, Allocated
    <3>3. EntriesRight'
      BY <2>1, <3>0 DEF CacheTypes, EntriesRight
    <3>4. ThreadsRight'
      BY <2>1, <3>0 DEF CacheTypes, ThreadsRight, EntriesRight
    <3>5. AnswersPure'
      BY <2>1, <3>0 DEF CacheTypes, AnswersPure, EntriesRight, ThreadsRight
    <3>6. StatesPrivate'
      BY <2>1, <3>0 DEF CacheTypes, StatesPrivate, ThreadsRight
    <3> QED BY <3>1, <3>2, <3>3, <3>4, <3>5, <3>6
  <2>2. CASE domainCache[j] # Null
    <3>0. /\ pc[t] = "idle" /\ arg' = [arg EXCEPT ![t] = j]
          /\ pc' = [pc EXCEPT ![t] = "planning"] /\ held' = [held EXCEPT ![t] = next]
          /\ answer' = [answer EXCEPT ![t] = "none"] /\ domainCache[j] # None
          /\ next' = next + 1 /\ UNCHANGED <<domainCache, graphCache, nodes>>
      BY <1>2, <2>2 DEF LoadHit, Call, Begin, Goto, CacheTypes, Allocated
    <3>1. CacheTypes'
      BY <2>2, <3>0 DEF CacheTypes
    <3>2. Allocated'
      BY <2>2, <3>0 DEF CacheTypes, Allocated
    <3>3. EntriesRight'
      BY <2>2, <3>0 DEF CacheTypes, EntriesRight
    <3>4. ThreadsRight'
      BY <2>2, <3>0 DEF CacheTypes, ThreadsRight, EntriesRight
    <3>5. AnswersPure'
      BY <2>2, <3>0 DEF CacheTypes, AnswersPure, EntriesRight, ThreadsRight
    <3>6. StatesPrivate'
      BY <2>2, <3>0 DEF CacheTypes, StatesPrivate, ThreadsRight, Allocated
    <3> QED BY <3>1, <3>2, <3>3, <3>4, <3>5, <3>6
  <2> QED BY <2>1, <2>2
<1>3. ASSUME NEW t \in Thread, LoadStore(t) PROVE CacheInv'
  <2>0. arg[t] \in Json
    BY <1>3 DEF CacheTypes, LoadStore
  <2>1. CASE arg[t] \in Valid
    <3>0. /\ pc[t] = "parsing_domain" /\ UNCHANGED <<graphCache, nodes, arg>>
          /\ pc' = [pc EXCEPT ![t] = "planning"] /\ held' = [held EXCEPT ![t] = next + 1]
          /\ answer' = [answer EXCEPT ![t] = "none"] /\ next' = next + 2
          /\ domainCache' \in [Json -> Int]
          /\ \A k \in Json : \/ domainCache'[k] = domainCache[k] /\ (k = arg[t] => domainCache[k] # None)
                             \/ k = arg[t] /\ domainCache[k] = None /\ domainCache'[k] = next
      BY <1>3, <2>0, <2>1 DEF LoadStore, Goto, CacheTypes, Allocated
    <3>1. CacheTypes'
      BY <2>0, <2>1, <3>0 DEF CacheTypes
    <3>2. Allocated'
      BY <2>0, <2>1, <3>0 DEF CacheTypes, Allocated
    <3>3. EntriesRight'
      BY <2>0, <2>1, <3>0 DEF CacheTypes, EntriesRight
    <3>4. ThreadsRight'
      BY <2>0, <2>1, <3>0 DEF CacheTypes, ThreadsRight, EntriesRight
    <3>5. AnswersPure'
      BY <2>0, <2>1, <3>0 DEF CacheTypes, AnswersPure, EntriesRight, ThreadsRight
    <3>6. StatesPrivate'
      BY <2>0, <2>1, <3>0 DEF CacheTypes, StatesPrivate, ThreadsRight, Allocated
    <3> QED BY <3>1, <3>2, <3>3, <3>4, <3>5, <3>6
  <2>2. CASE arg[t] \notin Valid
    <3>0. /\ pc[t] = "parsing_domain" /\ UNCHANGED <<graphCache, nodes, arg>>
          /\ pc' = [pc EXCEPT ![t] = "idle"] /\ held' = [held EXCEPT ![t] = None]
          /\ answer' = [answer EXCEPT ![t] = "failed_to_load_domain"] /\ next' = next
          /\ domainCache' \in [Json -> Int]
          /\ \A k \in Json : \/ domainCache'[k] = domainCache[k] /\ (k = arg[t] => domainCache[k] # None)
                             \/ k = arg[t] /\ domainCache[k] = None /\ domainCache'[k] = Null
      BY <1>3, <2>0, <2>2 DEF LoadStore, Goto, CacheTypes, Allocated
    <3>1. CacheTypes'
      BY <2>0, <2>2, <3>0 DEF CacheTypes
    <3>2. Allocated'
      BY <2>0, <2>2, <3>0 DEF CacheTypes, Allocated
    <3>3. EntriesRight'
      BY <2>0, <2>2, <3>0 DEF CacheTypes, EntriesRight
    <3>4. ThreadsRight'
      BY <2>0, <2>2, <3>0 DEF CacheTypes, ThreadsRight, EntriesRight
    <3>5. AnswersPure'
      BY <2>0, <2>2, <3>0 DEF CacheTypes, AnswersPure, EntriesRight, ThreadsRight
    <3>6. StatesPrivate'
      BY <2>0, <2>2, <3>0 DEF CacheTypes, StatesPrivate, ThreadsRight
    <3> QED BY <3>1, <3>2, <3>3, <3>4, <3>5, <3>6
  <2> QED BY <2>1, <2>2
<1>4. ASSUME NEW t \in Thread, Plan(t) PROVE CacheInv'
  <2> USE <1>4 DEF Plan, Goto
  <2>1. CacheTypes'
    BY DEF CacheTypes
  <2>2. Allocated'
    BY DEF CacheTypes, Allocated
  <2>3. EntriesRight'
    BY DEF CacheTypes, EntriesRight
  <2>4. ThreadsRight'
    BY DEF CacheTypes, ThreadsRight, EntriesRight
  <2>5. AnswersPure'
    BY DEF CacheTypes, AnswersPure, EntriesRight, ThreadsRight
  <2>6. StatesPrivate'
    BY DEF CacheTypes, StatesPrivate, ThreadsRight
  <2> QED BY <2>1, <2>2, <2>3, <2>4, <2>5, <2>6
<1>5. ASSUME NEW t \in Thread, DomainCacheClear(t) PROVE CacheInv'
  <2> USE <1>5 DEF DomainCacheClear, Begin, Goto
  <2>1. CacheTypes'
    BY DEF CacheTypes
  <2>2. Allocated'
    BY DEF CacheTypes, Allocated
  <2>3. EntriesRight'
    BY DEF CacheTypes, EntriesRight
  <2>4. ThreadsRight'
    BY DEF CacheTypes, ThreadsRight, EntriesRight
  <2>5. AnswersPure'
    BY DEF CacheTypes, AnswersPure, EntriesRight, ThreadsRight
  <2>6. StatesPrivate'
    BY DEF CacheTypes, StatesPrivate, ThreadsRight
  <2> QED BY <2>1, <2>2, <2>3, <2>4, <2>5, <2>6
<1>6. ASSUME NEW t \in Thread, NEW j \in Json, GraphHit(t, j) PROVE CacheInv'
  <2> USE <1>6 DEF GraphHit, Call, Begin, Goto
  <2>1. CacheTypes'
    BY DEF CacheTypes
  <2>2. Allocated'
    BY DEF CacheTypes, Allocated
  <2>3. EntriesRight'
    BY DEF CacheTypes, EntriesRight
  <2>4. ThreadsRight'
    BY DEF CacheTypes, ThreadsRight, EntriesRight
  <2>5. AnswersPure'
    BY DEF CacheTypes, AnswersPure, EntriesRight, ThreadsRight
  <2>6. StatesPrivate'
    BY DEF CacheTypes, StatesPrivate, ThreadsRight
  <2> QED BY <2>1, <2>2, <2>3, <2>4, <2>5, <2>6
<1>7. ASSUME NEW t \in Thread, NEW j \in Json, GraphMiss(t, j) PROVE CacheInv'
  <2> USE <1>7 DEF GraphMiss, Call, Begin, Goto
  <2>1. CacheTypes'
    BY DEF CacheTypes
  <2>2. Allocated'
    BY DEF CacheTypes, Allocated
  <2>3. EntriesRight'
    BY DEF CacheTypes, EntriesRight
  <2>4. ThreadsRight'
    BY DEF CacheTypes, ThreadsRight, EntriesRight
  <2>5. AnswersPure'
    BY DEF CacheTypes, AnswersPure, EntriesRight, ThreadsRight
  <2>6. StatesPrivate'
    BY DEF CacheTypes, StatesPrivate, ThreadsRight
  <2> QED BY <2>1, <2>2, <2>3, <2>4, <2>5, <2>6
<1>8. ASSUME NEW t \in Thread, GraphStore(t) PROVE CacheInv'
  <2>0. arg[t] \in Json
    BY <1>8 DEF CacheTypes, GraphStore
  <2>1. CASE graphCache[arg[t]] # None
    <3>0. /\ pc[t] = "parsing_graph" /\ UNCHANGED <<domainCache, arg>>
          /\ pc' = [pc EXCEPT ![t] = "reading"] /\ held' = [held EXCEPT ![t] = graphCache[arg[t]]]
          /\ answer' = [answer EXCEPT ![t] = "none"] /\ next' = next
          /\ graphCache' = graphCache /\ nodes' = nodes
      BY <1>8, <2>0, <2>1 DEF GraphStore, Goto, CacheTypes, Allocated, EntriesRight
    <3>1. CacheTypes'
      BY <2>0, <2>1, <3>0 DEF CacheTypes
    <3>2. Allocated'
      BY <2>0, <2>1, <3>0 DEF CacheTypes, Allocated
    <3>3. EntriesRight'
      BY <2>0, <2>1, <3>0 DEF CacheTypes, EntriesRight
    <3>4. ThreadsRight'
      BY <2>0, <2>1, <3>0 DEF CacheTypes, ThreadsRight, EntriesRight
    <3>5. AnswersPure'
      BY <2>0, <2>1, <3>0 DEF CacheTypes, AnswersPure, EntriesRight, ThreadsRight
    <3>6. StatesPrivate'
      BY <2>0, <2>1, <3>0 DEF CacheTypes, StatesPrivate, ThreadsRight
    <3> QED BY <3>1, <3>2, <3>3, <3>4, <3>5, <3>6
  <2>2. CASE graphCache[arg[t]] = None
    <3>0. /\ pc[t] = "parsing_graph" /\ UNCHANGED <<domainCache, arg>>
          /\ pc' = [pc EXCEPT ![t] = "reading"] /\ held' = [held EXCEPT ![t] = next]
          /\ answer' = [answer EXCEPT ![t] = "none"] /\ next' = next + 1
          /\ graphCache' = [graphCache EXCEPT ![arg[t]] = next] /\ nodes' = nodes \cup {next}
      BY <1>8, <2>0, <2>2 DEF GraphStore, Goto, CacheTypes, Allocated
    <3>1. CacheTypes'
      BY <2>0, <2>2, <3>0 DEF CacheTypes
    <3>2. Allocated'
      BY <2>0, <2>2, <3>0 DEF CacheTypes, Allocated
    <3>3. EntriesRight'
      BY <2>0, <2>2, <3>0 DEF CacheTypes, EntriesRight
    <3>4. ThreadsRight'
      BY <2>0, <2>2, <3>0 DEF CacheTypes, ThreadsRight, EntriesRight, Allocated
    <3>5. AnswersPure'
      BY <2>0, <2>2, <3>0 DEF CacheTypes, AnswersPure, EntriesRight, ThreadsRight
    <3>6. StatesPrivate'
      BY <2>0, <2>2, <3>0 DEF CacheTypes, StatesPrivate, ThreadsRight, Allocated
    <3> QED BY <3>1, <3>2, <3>3, <3>4, <3>5, <3>6
  <2> QED BY <2>1, <2>2
<1>9. ASSUME NEW t \in Thread, Read(t) PROVE CacheInv'
  <2> USE <1>9 DEF Read, Goto
  <2>1. CacheTypes'
    BY DEF CacheTypes
  <2>2. Allocated'
    BY DEF CacheTypes, Allocated
  <2>3. EntriesRight'
    BY DEF CacheTypes, EntriesRight
  <2>4. ThreadsRight'
    BY DEF CacheTypes, ThreadsRight, EntriesRight
  <2>5. AnswersPure'
    BY DEF CacheTypes, AnswersPure, EntriesRight, ThreadsRight
  <2>6. StatesPrivate'
    BY DEF CacheTypes, StatesPrivate, ThreadsRight
  <2> QED BY <2>1, <2>2, <2>3, <2>4, <2>5, <2>6
<1>10. ASSUME NEW t \in Thread, RebacCacheClear(t) PROVE CacheInv'
  <2> USE <1>10 DEF RebacCacheClear, Begin, Goto
  <2>1. CacheTypes'
    BY DEF CacheTypes
  <2>2. Allocated'
    BY DEF CacheTypes, Allocated
  <2>3. EntriesRight'
    BY DEF CacheTypes, EntriesRight
  <2>4. ThreadsRight'
    BY DEF CacheTypes, ThreadsRight, EntriesRight
  <2>5. AnswersPure'
    BY DEF CacheTypes, AnswersPure, EntriesRight, ThreadsRight
  <2>6. StatesPrivate'
    BY DEF CacheTypes, StatesPrivate, ThreadsRight
  <2> QED BY <2>1, <2>2, <2>3, <2>4, <2>5, <2>6
<1>11. CASE UNCHANGED vars
  <2> USE <1>11 DEF vars
  <2>1. CacheTypes'
    BY DEF CacheTypes
  <2>2. Allocated'
    BY DEF CacheTypes, Allocated
  <2>3. EntriesRight'
    BY DEF CacheTypes, EntriesRight
  <2>4. ThreadsRight'
    BY DEF CacheTypes, ThreadsRight, EntriesRight
  <2>5. AnswersPure'
    BY DEF CacheTypes, AnswersPure, EntriesRight, ThreadsRight
  <2>6. StatesPrivate'
    BY DEF CacheTypes, StatesPrivate, ThreadsRight
  <2> QED BY <2>1, <2>2, <2>3, <2>4, <2>5, <2>6
<1> QED BY <1>1, <1>2, <1>3, <1>4, <1>5, <1>6, <1>7, <1>8, <1>9, <1>10, <1>11 DEF Next

\* A step that is no clear of the graphs leaves every reader its node.
LEMMA StepKeeps ==
    ASSUME CacheInv, Next, ~\E u \in Thread : RebacCacheClear(u)
    PROVE  KeptWhileRead
<1> SUFFICES ASSUME NEW t \in Thread, Live(t)
             PROVE  (Live(t)' /\ held'[t] = held[t]) \/ answer'[t] = "read"
  BY DEF KeptWhileRead
<1> USE DEF CacheInv, CacheTypes, Live, Goto, Begin, Call
<1>1. ASSUME NEW u \in Thread, NEW j \in Json,
             LoadMiss(u, j) \/ LoadHit(u, j) \/ GraphHit(u, j) \/ GraphMiss(u, j)
      PROVE  Live(t)' /\ held'[t] = held[t]
  BY <1>1 DEF LoadMiss, LoadHit, GraphHit, GraphMiss
<1>2. ASSUME NEW u \in Thread, LoadStore(u) \/ Plan(u) \/ DomainCacheClear(u)
      PROVE  Live(t)' /\ held'[t] = held[t]
  BY <1>2 DEF LoadStore, Plan, DomainCacheClear
<1>3. ASSUME NEW u \in Thread, GraphStore(u) PROVE Live(t)' /\ held'[t] = held[t]
  BY <1>3 DEF GraphStore
<1>4. ASSUME NEW u \in Thread, Read(u)
      PROVE  (Live(t)' /\ held'[t] = held[t]) \/ answer'[t] = "read"
  BY <1>4 DEF Read
<1> QED BY <1>1, <1>2, <1>3, <1>4 DEF Next

\* For any threads, documents and number of calls, with clears at any time:
\* planning calls answer as if load_cached parsed every time, and work on a
\* state of their own.
THEOREM CachesInvisible == Spec => [](AnswersPure /\ StatesPrivate)
<1>1. CacheInv => AnswersPure /\ StatesPrivate
  BY DEF CacheInv
<1>2. CacheInv /\ [Next]_vars => CacheInv'
  BY StepInv
<1> QED BY <1>1, <1>2, InitInv, PTL DEF Spec

\* The readers of one document share one node, and only rebac_cache_clear takes
\* it from under them: the race in nif_cache_clear is the only one there is.
THEOREM GraphsKept == Spec => OneCopyUntilCleared
<1>1. CacheInv => SharedWhileLive
  BY DEF CacheInv, ThreadsRight, SharedWhileLive
<1>2. CacheInv /\ [Next]_vars => CacheInv'
  BY StepInv
<1>3. CacheInv /\ [Next]_vars =>
          [KeptWhileRead \/ \E u \in Thread : RebacCacheClear(u)]_vars
  BY StepKeeps
<1> QED BY <1>1, <1>2, <1>3, InitInv, PTL DEF Spec, OneCopyUntilCleared
=============================================================================
