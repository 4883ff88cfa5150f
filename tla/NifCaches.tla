----------------------------- MODULE NifCaches -----------------------------
(***************************************************************************)
(* The two parse caches of the taskweft NIF                                *)
(* (taskweft_nif/c_src/taskweft_nif.cpp), shared by all scheduler threads. *)
(* A domain is looked up under a mutex and copied out; a graph is looked   *)
(* up under a mutex and used by reference after it is released.  Each      *)
(* locked section is one step; parsing happens between two of them.        *)
(***************************************************************************)
EXTENDS Integers, FiniteSets

CONSTANTS Thread,          \* scheduler threads
          Json,            \* argument documents
          Valid,           \* the ones load_json accepts
          MaxCalls         \* bound: NIF calls per thread

ASSUME CachesAssumption == Valid \subseteq Json /\ MaxCalls \in Nat

VARIABLES
    domainCache,   \* s_domain_cache: the cached initial state, Null or None
    graphCache,    \* s_graph_cache: the node that holds the graph, or None
    nodes,         \* the live map nodes
    next,          \* next object to be allocated
    pc, arg,       \* what each thread is doing, and with which document
    held,          \* its copy of the state, or its reference to a node
    answer,        \* what its last call returned
    calls

vars == <<domainCache, graphCache, nodes, next, pc, arg, held, answer, calls>>

\* Objects are numbered from 1; Null is the state of a domain that failed to
\* parse, None no entry or no object.
Null == 0
None == -1

Init ==
    /\ domainCache = [j \in Json |-> None] /\ graphCache = [j \in Json |-> None]
    /\ nodes = {} /\ next = 1
    /\ pc = [t \in Thread |-> "idle"] /\ arg \in [Thread -> Json]
    /\ held = [t \in Thread |-> None] /\ answer = [t \in Thread |-> "none"]
    /\ calls = [t \in Thread |-> 0]

\* A NIF is called, with document j.
Begin(t) ==
    /\ pc[t] = "idle" /\ calls[t] < MaxCalls
    /\ calls' = [calls EXCEPT ![t] = @ + 1]

Call(t, j) == Begin(t) /\ arg' = [arg EXCEPT ![t] = j]

\* Thread t goes on to p with object o; v is what its call has answered so far.
Goto(t, p, o, v) ==
    /\ pc' = [pc EXCEPT ![t] = p]
    /\ held' = [held EXCEPT ![t] = o]
    /\ answer' = [answer EXCEPT ![t] = v]

-----------------------------------------------------------------------------
(* load_cached and its callers: plan, replan, check_temporal, ...          *)

LoadMiss(t, j) ==
    /\ Call(t, j) /\ domainCache[j] = None
    /\ Goto(t, "parsing_domain", None, "none")
    /\ UNCHANGED <<domainCache, graphCache, nodes, next>>

\* Faulty hit: the null state is not looked at.
LoadHitUnchecked(t, j) ==
    /\ Call(t, j) /\ domainCache[j] # None
    /\ Goto(t, "planning", IF domainCache[j] = Null THEN Null ELSE next, "none")
    /\ next' = next + 1
    /\ UNCHANGED <<domainCache, graphCache, nodes>>

LoadHit(t, j) ==
    /\ Call(t, j) /\ domainCache[j] # None
    /\ \/ /\ domainCache[j] = Null
          /\ Goto(t, "idle", None, "failed_to_load_domain") /\ UNCHANGED next
       \/ /\ domainCache[j] # Null
          /\ Goto(t, "planning", next, "none") /\ next' = next + 1
    /\ UNCHANGED <<domainCache, graphCache, nodes>>

\* emplace keeps an entry another thread has stored meanwhile; the caller gets
\* a copy of its own parse either way.
LoadStore(t) ==
    LET j == arg[t]
    IN  /\ pc[t] = "parsing_domain"
        /\ domainCache' = [domainCache EXCEPT
              ![j] = IF @ # None THEN @ ELSE IF j \in Valid THEN next ELSE Null]
        /\ \/ /\ j \in Valid
              /\ Goto(t, "planning", next + 1, "none") /\ next' = next + 2
           \/ /\ j \notin Valid
              /\ Goto(t, "idle", None, "failed_to_load_domain") /\ UNCHANGED next
        /\ UNCHANGED <<graphCache, nodes, arg, calls>>

\* The planner works on the state the thread holds.
Plan(t) ==
    /\ pc[t] = "planning"
    /\ Goto(t, "idle", None, "planned")
    /\ UNCHANGED <<domainCache, graphCache, nodes, next, arg, calls>>

DomainCacheClear(t) ==
    /\ Begin(t)
    /\ domainCache' = [k \in Json |-> None]
    /\ Goto(t, "idle", None, "ok")
    /\ UNCHANGED <<graphCache, nodes, next, arg>>

-----------------------------------------------------------------------------
(* graph_cached and its callers: rebac_check, rebac_expand, rebac_can, ... *)

GraphHit(t, j) ==
    /\ Call(t, j) /\ graphCache[j] # None
    /\ Goto(t, "reading", graphCache[j], "none")
    /\ UNCHANGED <<domainCache, graphCache, nodes, next>>

GraphMiss(t, j) ==
    /\ Call(t, j) /\ graphCache[j] = None
    /\ Goto(t, "parsing_graph", None, "none")
    /\ UNCHANGED <<domainCache, graphCache, nodes, next>>

\* Faulty store: the entry of the thread that was faster is replaced.
GraphStoreReplaces(t) ==
    /\ pc[t] = "parsing_graph"
    /\ graphCache' = [graphCache EXCEPT ![arg[t]] = next]
    /\ nodes' = (nodes \ {graphCache[arg[t]]}) \cup {next}
    /\ next' = next + 1
    /\ Goto(t, "reading", next, "none")
    /\ UNCHANGED <<domainCache, arg, calls>>

\* try_emplace: "if another thread already inserted, keep theirs".
GraphStore(t) ==
    LET j == arg[t]
        node == IF graphCache[j] # None THEN graphCache[j] ELSE next
    IN  /\ pc[t] = "parsing_graph"
        /\ graphCache' = [graphCache EXCEPT ![j] = node]
        /\ nodes' = nodes \cup {node}
        /\ next' = IF node = next THEN next + 1 ELSE next
        /\ Goto(t, "reading", node, "none")
        /\ UNCHANGED <<domainCache, arg, calls>>

\* The traversal reads the graph by reference: what it reads of a node that
\* is gone is undefined.
Read(t) ==
    /\ pc[t] = "reading"
    /\ Goto(t, "idle", None, IF held[t] \in nodes THEN "read" ELSE "undefined")
    /\ UNCHANGED <<domainCache, graphCache, nodes, next, arg, calls>>

\* The nodes go, whoever refers to them.
RebacCacheClear(t) ==
    /\ Begin(t)
    /\ graphCache' = [k \in Json |-> None] /\ nodes' = {}
    /\ Goto(t, "idle", None, "ok")
    /\ UNCHANGED <<domainCache, next, arg>>

Next ==
    \E t \in Thread :
        \/ \E j \in Json : \/ LoadMiss(t, j) \/ LoadHit(t, j)
                           \/ GraphHit(t, j) \/ GraphMiss(t, j)
        \/ LoadStore(t) \/ Plan(t) \/ DomainCacheClear(t)
        \/ GraphStore(t) \/ Read(t) \/ RebacCacheClear(t)

Spec == Init /\ [][Next]_vars

-----------------------------------------------------------------------------
(* Properties                                                              *)

\* Every variable keeps its type; a thread holds an object exactly while it
\* plans or reads.
TypeOK ==
    /\ domainCache \in [Json -> Nat \cup {None}]
    /\ graphCache \in [Json -> (Nat \ {0}) \cup {None}]
    /\ nodes = {graphCache[j] : j \in Json} \ {None} /\ next \in Nat \ {0}
    /\ pc \in [Thread -> {"idle", "parsing_domain", "planning", "parsing_graph", "reading"}]
    /\ \A t \in Thread : IF pc[t] \in {"planning", "reading"} THEN held[t] \in Nat \ {0}
                         ELSE held[t] = None

\* A planning call answers what it would without a cache: it fails exactly for
\* a document that does not parse, whether load_cached hit or missed, and
\* whatever other threads parse, store and clear meanwhile.
AnswersPure ==
    \A t \in Thread :
        /\ answer[t] = "planned" => arg[t] \in Valid
        /\ answer[t] = "failed_to_load_domain" => arg[t] \notin Valid

\* "Each retrieval deep-copies the initial state so every planner invocation
\* starts from a clean slate": no state is shared by two planning calls or by
\* a planning call and the cache.
StatesPrivate ==
    \A t \in Thread : pc[t] = "planning" =>
        /\ \A j \in Json : domainCache[j] # held[t]
        /\ \A u \in Thread \ {t} : pc[u] = "planning" => held[u] # held[t]

\* "a single cached copy is shared across all concurrent readers": two threads
\* that read the same document's graph read the same live node, even when both
\* missed and parsed it.  A rebac_cache_clear during a read breaks it.
OneGraphCopy ==
    \A t, u \in Thread :
        pc[t] = "reading" /\ pc[u] = "reading" /\ arg[t] = arg[u] =>
            held[t] = held[u] /\ held[t] \in nodes

Live(t) == pc[t] = "reading" /\ held[t] \in nodes

\* The node of a reader that is still there is its document's cached one.
SharedWhileLive == \A t \in Thread : Live(t) => graphCache[arg[t]] = held[t]

\* A reader keeps its node until it has read it.
KeptWhileRead ==
    \A t \in Thread : Live(t) => (Live(t)' /\ held'[t] = held[t]) \/ answer'[t] = "read"

\* What holds of the shared copy all the same: readers of one document that
\* missed, parsed and stored at the same time, before or after a clear, end up
\* with one node, and nothing but a rebac_cache_clear takes it from under them
\* before they have read it: no store, no clear of the domains, no other read.
OneCopyUntilCleared ==
    []SharedWhileLive /\ [][KeptWhileRead \/ \E u \in Thread : RebacCacheClear(u)]_vars
=============================================================================
