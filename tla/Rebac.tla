------------------------------- MODULE Rebac -------------------------------
(***************************************************************************)
(* Relation queries over a graph of entities                               *)
(* (taskweft_nif/standalone/tw_rebac.hpp).  A graph grows by one edge at a *)
(* time; every query is a function of the graph, so the invariants below   *)
(* ask all of them in every graph.  An answer depends on which edges there *)
(* are, never on their order: the edge list and its three indices are one  *)
(* set here.  Left out: the wire format, the names on the path that can    *)
(* returns, and `definitions', which no query reads.                       *)
(***************************************************************************)
EXTENDS Integers, FiniteSets

CONSTANTS Entity,
          Relations,    \* relation names that occur in the graph
          Exprs,        \* relation expressions asked for
          MaxFuel,      \* bound: fuel given to a check or an expand
          MaxEdges      \* bound: edges of a graph

ASSUME RebacAssumption == MaxFuel \in Nat /\ MaxEdges \in Nat

VARIABLE edges

Builtin == {"HAS_CAPABILITY", "CONTROLS", "OWNS", "IS_MEMBER_OF", "DELEGATED_TO",
            "SUPERVISOR_OF", "PARTNER_OF"}

parse_rel(r) == IF r \in Builtin THEN r ELSE "UNKNOWN"

Edge(s, r, o) == [subject |-> s, rel |-> r, object |-> o]

\* Built-in relations match by type, others by name.
RelMatch(e, r) ==
    IF parse_rel(r) # "UNKNOWN" THEN parse_rel(e.rel) = parse_rel(r) ELSE e.rel = r

Out(s) == {e \in edges : e.subject = s}

\* Faulty check: the last unit of fuel is spent on nothing.
RECURSIVE CheckBaseEarly(_, _, _, _)
CheckBaseEarly(s, r, o, fuel) ==
    /\ fuel > 1
    /\ \/ \E e \in Out(s) : RelMatch(e, r) /\ e.object = o
       \/ \E e \in Out(s) : parse_rel(e.rel) = "IS_MEMBER_OF" /\ CheckBaseEarly(e.object, r, o, fuel - 1)
       \/ r = "CONTROLS" /\ \E e \in edges : e.object = s /\ e.rel = "DELEGATED_TO" /\ e.subject = o

\* A direct edge, one of a group the subject is in, or a delegation.
RECURSIVE check_base(_, _, _, _)
check_base(s, r, o, fuel) ==
    /\ fuel > 0
    /\ \/ \E e \in Out(s) : RelMatch(e, r) /\ e.object = o
       \/ \E e \in Out(s) : parse_rel(e.rel) = "IS_MEMBER_OF" /\ check_base(e.object, r, o, fuel - 1)
       \/ r = "CONTROLS" /\ \E e \in edges : e.object = s /\ e.rel = "DELEGATED_TO" /\ e.subject = o

RECURSIVE check_expr(_, _, _, _)
check_expr(s, x, o, fuel) ==
    /\ fuel > 0
    /\ CASE x.type = "base" -> check_base(s, x.rel, o, fuel)
         [] x.type = "union" -> check_expr(s, x.a, o, fuel - 1) \/ check_expr(s, x.b, o, fuel - 1)
         [] x.type = "intersection" -> check_expr(s, x.a, o, fuel - 1) /\ check_expr(s, x.b, o, fuel - 1)
         [] x.type = "difference" -> check_expr(s, x.a, o, fuel - 1) /\ ~check_expr(s, x.b, o, fuel - 1)
         [] x.type = "tuple_to_userset" ->
               \E e \in Out(s) : parse_rel(e.rel) = parse_rel(x.pivot)
                                    /\ check_expr(e.object, x.inner, o, fuel - 1)
         [] OTHER -> FALSE

\* Who has relation r to o: direct holders, then the members of groups that
\* have it.
tw_expand(r, o, fuel) ==
    {e.subject : e \in {f \in edges : f.object = o /\ RelMatch(f, r)}}
    \union {e.subject : e \in {f \in edges : /\ fuel > 0 /\ f.rel = "IS_MEMBER_OF"
                                             /\ check_base(f.object, r, o, fuel)}}

Terminal == {"HAS_CAPABILITY", "CONTROLS", "OWNS"}

\* _rebac_dfs, which copies `visited' for each hop.
RECURSIVE rebac_dfs(_, _, _, _)
rebac_dfs(current, target, visited, depth) ==
    /\ depth > 0
    /\ \/ current = target
       \/ /\ current \notin visited
          /\ \/ \E e \in Out(current) : e.object = target /\ parse_rel(e.rel) \in Terminal
             \/ \E e \in Out(current) :
                   rebac_dfs(e.object, target, visited \union {current}, depth - 1)

\* Faulty can: the depth counts the edges only.
CanLonger(s, capability, maxDepth) == rebac_dfs(s, capability, {}, maxDepth + 1)

rebac_can(s, capability, maxDepth) == rebac_dfs(s, capability, {}, maxDepth)

-----------------------------------------------------------------------------
RebacInit == edges = {}

\* add_edge
AddEdge ==
    /\ Cardinality(edges) < MaxEdges
    /\ \E s \in Entity, r \in Relations, o \in Entity : edges' = edges \union {Edge(s, r, o)}

-----------------------------------------------------------------------------
(* What the queries mean                                                   *)

\* Entities at most n edges away, over edges of the relations rels.
RECURSIVE Within(_, _, _)
Within(s, rels, n) ==
    IF n = 0 THEN {s}
    ELSE LET near == Within(s, rels, n - 1)
         IN  near \union {e.object : e \in {f \in edges : f.subject \in near /\ f.rel \in rels}}

\* The subject and the groups it is in, directly or not.
Groups(s) == Within(s, {"IS_MEMBER_OF"}, Cardinality(Entity))

Has(s, r, o) ==
    \E g \in Groups(s) :
        Edge(g, r, o) \in edges \/ (r = "CONTROLS" /\ Edge(o, "DELEGATED_TO", g) \in edges)

RECURSIVE Means(_, _, _)
Means(s, x, o) ==
    CASE x.type = "base" -> Has(s, x.rel, o)
      [] x.type = "union" -> Means(s, x.a, o) \/ Means(s, x.b, o)
      [] x.type = "intersection" -> Means(s, x.a, o) /\ Means(s, x.b, o)
      [] x.type = "difference" -> Means(s, x.a, o) /\ ~Means(s, x.b, o)
      [] x.type = "tuple_to_userset" -> \E m \in Entity : Edge(s, x.pivot, m) \in edges /\ Means(m, x.inner, o)
      [] OTHER -> FALSE

RECURSIVE Depth(_), Monotone(_), Pivots(_)
Depth(x) ==
    CASE x.type \in {"union", "intersection", "difference"} ->
            1 + (IF Depth(x.a) > Depth(x.b) THEN Depth(x.a) ELSE Depth(x.b))
      [] x.type = "tuple_to_userset" -> 1 + Depth(x.inner)
      [] OTHER -> 0
Monotone(x) ==
    CASE x.type \in {"union", "intersection"} -> Monotone(x.a) /\ Monotone(x.b)
      [] x.type = "tuple_to_userset" -> Monotone(x.inner)
      [] OTHER -> x.type = "base"
Pivots(x) ==
    CASE x.type \in {"union", "intersection", "difference"} -> Pivots(x.a) \union Pivots(x.b)
      [] x.type = "tuple_to_userset" -> {x.pivot} \union Pivots(x.inner)
      [] OTHER -> {}

\* The graph has no domain-specific relation a pivot of x could be taken for.
PivotsClear(x) ==
    \A r \in Pivots(x) \ Builtin, e \in edges : e.rel \notin Builtin => e.rel = r

\* A path of fewer than d edges to an entity with a terminal edge to t.
CapabilityPath(s, t, d) ==
    d > 0 /\ \E m \in Within(s, Relations, d - 1), r \in Terminal : Edge(m, r, t) \in edges

-----------------------------------------------------------------------------
(* Properties, about the entities that occur in the graph                  *)

InGraph == {e.subject : e \in edges} \union {e.object : e \in edges}

\* With a unit of fuel for each level of the expression and each entity a chain
\* of groups can lead through, check_expr decides exactly what the expression
\* means, differences included and cycles of groups notwithstanding.  With less
\* it may only say no, unless the expression holds a difference.  Pivots are
\* matched by type: where the graph has a domain-specific relation a pivot can
\* be taken for, check_expr only never denies what a monotone expression means.
ChecksExact ==
    \A x \in Exprs, s, o \in InGraph :
        LET decided == check_expr(s, x, o, Depth(x) + Cardinality(Entity))
        IN  /\ PivotsClear(x) =>
                  /\ decided = Means(s, x, o)
                  /\ Monotone(x) =>
                        \A fuel \in 0 .. MaxFuel : check_expr(s, x, o, fuel) => Means(s, x, o)
            /\ Monotone(x) => (Means(s, x, o) => decided)

\* tw_expand lists those whom check_base grants the relation with one more unit
\* of fuel, but for those who have it by a delegation to themselves.  can finds
\* every path that ends in a terminal edge and is short enough, past cycles and
\* whatever it marks as visited; and it finds nothing else, unless it was asked
\* about the subject itself or some other edge leads to the target, too.
SearchesComplete ==
    /\ \A r \in Relations, o \in InGraph, fuel \in 0 .. MaxFuel :
          LET listed == tw_expand(r, o, fuel)
              granted == {s \in Entity : check_base(s, r, o, fuel + 1)}
          IN  /\ listed \subseteq granted
              /\ \A s \in granted \ listed : r = "CONTROLS" /\ Edge(o, "DELEGATED_TO", s) \in edges
    /\ \A s, t \in InGraph, d \in 0 .. MaxFuel :
          /\ CapabilityPath(s, t, d) => rebac_can(s, t, d)
          /\ s # t /\ (\A e \in edges : e.object = t => e.rel \in Terminal) =>
                (rebac_can(s, t, d) => CapabilityPath(s, t, d))
=============================================================================
