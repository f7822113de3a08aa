---------------------------- MODULE PathDiscovery ----------------------------
(***************************************************************************)
(* The shortest path between two networks: `PathDiscovery` of              *)
(* `src/network/mod.rs`, a topology of links with costs, Dijkstra's        *)
(* algorithm on it and a cache of the paths it has found.  The cache is    *)
(* kept by destination alone, so that a path asked for from one network is *)
(* handed out to whoever asks for its destination from another.            *)
(***************************************************************************)
EXTENDS Naturals, Sequences, FiniteSets, SequencesExt

CONSTANTS
  Networks,  \* network numbers
  Links,     \* the links that may be added: source, destination, cost
  U16Max     \* the largest cost, which stands for "not reached"

PathAssumption ==
  /\ Networks \subseteq Nat /\ IsFiniteSet(Networks) /\ U16Max \in Nat
  /\ \A l \in Links :
       l.source \in Networks /\ l.destination \in Networks /\ l.cost \in 0..U16Max

VARIABLES
  links,  \* network_topology
  cache,  \* path_cache, a function of the destinations in it
  found   \* the last search and its outcome (history)

vars == <<links, cache, found>>

NoPath == <<>>
EmptyCache == [d \in {} |-> NoPath]

Init == links = {} /\ cache = EmptyCache /\ found = <<>>

\* The links between other networks, which stay.
Elsewhere(link) ==
  {l \in links : l.source # link.source \/ l.destination # link.destination}

\* A mutant of the next: the paths found are kept when the topology changes.
AddLinkKeeping(link) ==
  /\ links' = Elsewhere(link) \cup {link}
  /\ UNCHANGED cache
  /\ found' = <<>>
AddLink(link) ==
  /\ links' = Elsewhere(link) \cup {link}
  /\ cache' = EmptyCache
  /\ found' = <<>>

ClearCache ==
  /\ cache # EmptyCache /\ cache' = EmptyCache
  /\ UNCHANGED <<links, found>>

-----------------------------------------------------------------------------
\* dijkstra_shortest_path. The state of the search: the distances, the network each was
\* reached from, and the networks that were not visited yet.
Known == UNION {{l.source, l.destination} : l \in links}
SaturatingAdd(a, b) == IF a + b > U16Max THEN U16Max ELSE a + b

Start(source) ==
  [distance |-> [n \in Known \cup {source} |-> IF n = source THEN 0 ELSE U16Max],
   previous |-> [n \in {} |-> source], unvisited |-> Known]

\* min_by_key: among the nearest, the one of the lowest number.
Nearest(search) ==
  CHOOSE n \in search.unvisited : \A m \in search.unvisited :
    \/ search.distance[n] < search.distance[m]
    \/ search.distance[n] = search.distance[m] /\ n <= m

Over(search, destination) ==
  \/ search.unvisited = {}
  \/ search.distance[Nearest(search)] = U16Max
  \/ Nearest(search) = destination

Visit(search) ==
  LET current == Nearest(search)
      left == search.unvisited \ {current}
      Via(l) == SaturatingAdd(search.distance[current], l.cost)
      nearer == {l \in links : l.source = current /\ l.destination \in left
                                        /\ Via(l) < search.distance[l.destination]}
      To(n) == CHOOSE l \in nearer : l.destination = n
      reached == {l.destination : l \in nearer} IN
  [distance |-> [n \in DOMAIN search.distance |->
                   IF n \in reached THEN Via(To(n)) ELSE search.distance[n]],
   previous |-> [n \in DOMAIN search.previous \cup reached |->
                   IF n \in reached THEN current ELSE search.previous[n]],
   unvisited |-> left]

\* The search after at most n networks.
Searched(source, destination) ==
  LET step[n \in 0..Cardinality(Known)] ==
        IF n = 0 THEN Start(source)
        ELSE IF Over(step[n - 1], destination) THEN step[n - 1] ELSE Visit(step[n - 1])
  IN step[Cardinality(Known)]

\* The path back from the destination to where nothing came before.
Traced(search, source, destination) ==
  LET back[n \in 0..Cardinality(Known)] ==
        IF n = 0 THEN <<destination>>
        ELSE IF back[n - 1][1] \in DOMAIN search.previous
             THEN <<search.previous[back[n - 1][1]]>> \o back[n - 1]
             ELSE back[n - 1]
  IN back[Cardinality(Known)]

Dijkstra(source, destination) ==
  LET search == Searched(source, destination) IN
  IF source = destination THEN <<source>>
  ELSE IF search.unvisited # {} /\ Nearest(search) = destination
            /\ search.distance[destination] # U16Max
       THEN Traced(search, source, destination)
       ELSE NoPath

\* A path from the cache is for the destination, whatever the source it was found for.
FindPath(source, destination) ==
  /\ IF destination \in DOMAIN cache THEN UNCHANGED cache
     ELSE LET path == Dijkstra(source, destination) IN
          cache' = IF path = NoPath THEN cache
                   ELSE [d \in DOMAIN cache \cup {destination} |->
                           IF d = destination THEN path ELSE cache[d]]
  /\ found' = [source |-> source, destination |-> destination,
               path |-> IF destination \in DOMAIN cache THEN cache[destination]
                        ELSE Dijkstra(source, destination)]
  /\ UNCHANGED links

Next ==
  \/ \E link \in Links : AddLink(link)
  \/ \E source, destination \in Networks : FindPath(source, destination)
  \/ ClearCache

Spec == Init /\ [][Next]_vars

-----------------------------------------------------------------------------
\* A path there is: networks without repetition, each linked to the next.
LinkOf(a, b) == {l \in links : l.source = a /\ l.destination = b}
IsPath(path) ==
  /\ Len(path) > 0 /\ IsInjective(path)
  /\ \A i \in 1..(Len(path) - 1) : LinkOf(path[i], path[i + 1]) # {}

\* What it costs.
Between(a, b) == (CHOOSE l \in LinkOf(a, b) : TRUE).cost
CostOf(path) ==
  LET cost[i \in 0..(Len(path) - 1)] ==
        IF i = 0 THEN 0 ELSE cost[i - 1] + Between(path[i], path[i + 1])
  IN  cost[Len(path) - 1]

Paths(source, destination) ==
  {path \in SeqOf(Networks, Cardinality(Networks)) :
     IsPath(path) /\ path[1] = source /\ path[Len(path)] = destination}

\* Whatever is handed out, from the cache or not, is a path of the topology as it is now
\* to the network that was asked for, and no other from where it starts costs less; and
\* when there is none to hand out, every path costs more than a cost can be.
PathsAreShortest ==
  /\ \A destination \in DOMAIN cache :
       LET path == cache[destination] IN
       /\ IsPath(path) /\ path[Len(path)] = destination
       /\ \A other \in Paths(path[1], destination) : CostOf(path) <= CostOf(other)
  /\ found # <<>> /\ found.path = NoPath =>
       \A path \in Paths(found.source, found.destination) : CostOf(path) >= U16Max

=============================================================================
