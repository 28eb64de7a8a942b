----------------------------- MODULE StarRoutes -----------------------------
(***************************************************************************)
(* The searches of the star map (eve/map-graph.ts): a route that costs the *)
(* least under a mode, a risk and systems to avoid; the systems around one *)
(* ring by ring, up to a number of them; the jumps between two systems.    *)
(* The loops are run step by step, and compared with what the paths of the *)
(* graph say.                                                              *)
(*                                                                         *)
(* A gate leads both ways.  Systems are numbers; Origin and Target are two *)
(* of them, and one more is known to nobody.                               *)
(***************************************************************************)
EXTENDS Integers, Sequences, FiniteSetsExt, SequencesExt

CONSTANTS
  Systems, Origin, Target,
  Dangerous,   \* what dangerOf may be: sets of systems of danger 1
  Avoids,      \* what may be avoided
  Wormholes,   \* what extraEdges may be
  RiskWeight,  \* riskWeight, when it is asked for
  ModePenalty, \* MODE_PENALTY
  Caps,        \* maxNodes
  MaxJumps,    \* bound: the largest radius, and limit
  Nothing

Modes == {"shortest", "secure", "insecure"}
Links == {p \in Systems \X Systems : p[1] < p[2]}

VARIABLES
  gates, high,        \* adjacency, and the systems of security 0.45 and more
  query,              \* what is searched: its kind and its options
  best, previous, queue, settled,   \* routeWithRisk
  distance, frontier, depth,        \* bubbleFrom, jumpDistance
  result              \* Nothing while it runs

graph == <<gates, high, query>>
costs == <<best, previous, queue, settled>>
rings == <<distance, frontier, depth>>
vars == <<graph, costs, rings, result>>

Maps(f, T) == DOMAIN f \subseteq Systems /\ \A s \in DOMAIN f : f[s] \in T

TypeOK ==
  /\ gates \subseteq Links /\ high \subseteq Systems
  /\ Maps(best, Nat) /\ Maps(previous, Systems) /\ Maps(queue, Nat) /\ settled \subseteq Systems
  /\ Maps(distance, 0..MaxJumps) /\ frontier \subseteq Systems
  /\ depth \in 1..MaxJumps + 1

RouteQuery == [kind : {"route"}, mode : Modes, risk : {0, RiskWeight}, danger : Dangerous,
               avoid : Avoids, extra : Wormholes]
RingQuery == [kind : {"bubble"}, radius : 0..MaxJumps, cap : Caps]
             \cup [kind : {"jumps"}, limit : 1..MaxJumps]

Only(s, x) == [t \in {s} |-> x]

\* A mode that no system is against, or a risk without danger, is left out.
Init ==
  /\ gates \in SUBSET Links /\ high \in SUBSET (Systems \ {Origin})
  /\ query \in RouteQuery \cup RingQuery
  /\ query.kind # "route" => high = {}
  /\ query.kind = "route" => (query.mode = "shortest" => high = {}) /\ (query.risk = 0 => query.danger = {})
  /\ best = Only(Origin, 0) /\ previous = [t \in {} |-> Origin] /\ queue = Only(Origin, 0) /\ settled = {}
  /\ distance = Only(Origin, 0) /\ frontier = {Origin} /\ depth = 1
  /\ result = Nothing

Linked(links, s, t) == <<s, t>> \in links \/ <<t, s>> \in links
With(f, s, x) == [t \in DOMAIN f \cup {s} |-> IF t = s THEN x ELSE f[t]]

-----------------------------------------------------------------------------
(* routeWithRisk.                                                          *)

Routing == query.kind = "route" /\ result = Nothing

\* hopCost: what entering a system costs.
hopCost(s) ==
  1 + (IF s \in query.danger THEN query.risk ELSE 0)
    + (IF \/ query.mode = "secure" /\ s \notin high
          \/ query.mode = "insecure" /\ s \in high
       THEN ModePenalty ELSE 0)

NoRoute == [ok |-> FALSE, systems |-> <<>>, cost |-> 0]

Refused ==
  /\ Routing /\ settled = {} /\ Target \in query.avoid
  /\ result' = NoRoute /\ UNCHANGED <<graph, costs, rings>>

AnyOfThem == DOMAIN queue                                           \* a bug
\* The cheapest of the queue; of equals, any.
Cheapest == {s \in DOMAIN queue : \A t \in DOMAIN queue : queue[s] <= queue[t]}

EvenAvoided(s) == {t \in Systems : Linked(gates \cup query.extra, s, t) /\ t \notin settled}   \* a bug
Open(s) == {t \in Systems : Linked(gates \cup query.extra, s, t) /\ t \notin settled \cup query.avoid}

Cheaper(s, t, cost) == t \in DOMAIN best => cost < best[t]

Settle(s) ==
  /\ Routing /\ Target \notin query.avoid
  /\ s \in Cheapest /\ s # Target
  /\ settled' = settled \cup {s}
  /\ LET cost(t) == queue[s] + hopCost(t)
         better == {t \in Open(s) : Cheaper(s, t, cost(t))}
         over(f, x(_)) == [t \in DOMAIN f \cup better |-> IF t \in better THEN x(t) ELSE f[t]]
     IN /\ best' = over(best, cost)
        /\ previous' = over(previous, LAMBDA t : s)
        /\ queue' = over([t \in DOMAIN queue \ {s} |-> queue[t]], cost)
  /\ UNCHANGED <<graph, rings, result>>

\* The route is read backwards.
Trace ==
  LET step[n \in Nat] == IF n = 0 THEN <<Target>>
                         ELSE LET r == step[n - 1]
                              IN IF r[1] = Origin THEN r ELSE <<previous[r[1]]>> \o r
  IN step[Cardinality(Systems)]

RouteEnds ==
  /\ Routing /\ Target \notin query.avoid /\ (DOMAIN queue = {} \/ Target \in Cheapest)
  /\ result' = (IF Target \in DOMAIN best THEN [ok |-> TRUE, systems |-> Trace, cost |-> best[Target]]
                ELSE NoRoute)
  /\ UNCHANGED <<graph, costs, rings>>

-----------------------------------------------------------------------------
(* bubbleFrom and jumpDistance.                                            *)

Ring == {t \in Systems \ DOMAIN distance : \E s \in frontier : Linked(gates, s, t)}
Grown == [t \in DOMAIN distance \cup Ring |-> IF t \in Ring THEN depth ELSE distance[t]]

Bubble(radius, truncated) ==
  [radius |-> radius, nodes |-> distance, truncated |-> truncated,
   edges |-> {l \in gates : {l[1], l[2]} \subseteq DOMAIN distance}]

\* The ring is admitted whole, or not at all.
UpToTheCap(cap) == Cardinality(DOMAIN distance) >= cap             \* a bug
TooMany(cap) == Cardinality(DOMAIN Grown) > cap

Expand ==
  /\ query.kind = "bubble" /\ result = Nothing
  /\ \/ /\ (depth > query.radius \/ Ring = {})
        /\ result' = Bubble(depth - 1, FALSE) /\ UNCHANGED rings
     \/ /\ depth <= query.radius /\ Ring # {} /\ TooMany(query.cap)
        /\ result' = Bubble(depth - 1, TRUE) /\ UNCHANGED rings
     \/ /\ depth <= query.radius /\ Ring # {} /\ ~TooMany(query.cap)
        /\ distance' = Grown /\ frontier' = Ring /\ depth' = depth + 1 /\ UNCHANGED result
  /\ UNCHANGED <<graph, costs>>

NotFound == [jumps |-> Nothing]

Jump ==
  /\ query.kind = "jumps" /\ result = Nothing
  /\ \/ depth > query.limit /\ result' = NotFound /\ UNCHANGED rings
     \/ /\ depth <= query.limit /\ Target \in Ring
        /\ result' = [jumps |-> depth] /\ UNCHANGED rings
     \/ /\ depth <= query.limit /\ Ring = {}
        /\ result' = NotFound /\ UNCHANGED rings
     \/ /\ depth <= query.limit /\ Target \notin Ring /\ Ring # {}
        /\ distance' = Grown /\ frontier' = Ring /\ depth' = depth + 1 /\ UNCHANGED result
  /\ UNCHANGED <<graph, costs>>

Next == Refused \/ RouteEnds \/ Expand \/ Jump \/ \E s \in Systems : Settle(s)

Spec == Init /\ [][Next]_vars

-----------------------------------------------------------------------------
\* The paths from Origin that enter no system twice.
Paths(links, t) ==
  {p \in UNION {[1..n -> Systems] : n \in 1..Cardinality(Systems)} :
     /\ p[1] = Origin /\ p[Len(p)] = t /\ Cardinality(ToSet(p)) = Len(p)
     /\ \A i \in 1..Len(p) - 1 : Linked(links, p[i], p[i + 1])}

CostOf(p) == MapThenSumSet(LAMBDA i : hopCost(p[i]), 2..Len(p))
Allowed == {p \in Paths(gates \cup query.extra, Target) :
              \A i \in 2..Len(p) : p[i] \notin query.avoid}

\* A route is one that may be flown, costs what it says, and no other that may
\* be flown costs less; there is none only where none may be flown.
RoutesAreCheapest ==
  query.kind = "route" /\ result # Nothing =>
    IF result.ok
    THEN /\ result.systems \in Allowed /\ result.cost = CostOf(result.systems)
         /\ \A p \in Allowed : result.cost <= CostOf(p)
    ELSE Allowed = {}

Jumps(t) == IF Paths(gates, t) = {} THEN Nothing ELSE Min({Len(p) - 1 : p \in Paths(gates, t)})

\* A bubble has every system of each of its rings and none beyond, each with
\* its true distance and each link between them once, and says so when there
\* is more within the radius than it may hold.
BubblesAreWhole ==
  query.kind = "bubble" /\ result # Nothing =>
    LET near(r) == {t \in Systems : Jumps(t) # Nothing /\ Jumps(t) <= r}
    IN /\ DOMAIN result.nodes = near(result.radius)
       /\ \A t \in DOMAIN result.nodes : result.nodes[t] = Jumps(t)
       /\ result.truncated => Cardinality(near(result.radius + 1)) > query.cap /\ result.radius < query.radius
       /\ ~result.truncated => near(query.radius) = DOMAIN result.nodes
       /\ Cardinality(DOMAIN result.nodes) <= query.cap
       /\ result.edges = {l \in gates : l[1] \in DOMAIN result.nodes}
                           \ {l \in gates : l[2] \notin DOMAIN result.nodes}

JumpsAreTrue ==
  query.kind = "jumps" /\ result # Nothing =>
    result.jumps = IF Jumps(Target) # Nothing /\ Jumps(Target) <= query.limit THEN Jumps(Target) ELSE Nothing

RoutesSound == RoutesAreCheapest /\ BubblesAreWhole /\ JumpsAreTrue
=============================================================================
