---------------------------- MODULE GraphMirror ----------------------------
(***************************************************************************)
(* The optional graph (Apache AGE) of one tenant: a trigger copies every   *)
(* change of memory_links to edges between Memory vertices, best effort,   *)
(* and GraphClient answers traversals from the edges.  FindRelated and     *)
(* FindChain are modelled as they compute their answers: from the set of   *)
(* all trails (paths that use no edge twice) Cypher returns.               *)
(*                                                                         *)
(* A vertex is the path of a link.  Paths memory.<n> are the vertices n;   *)
(* all other paths parse to 0 and are represented by one vertex, Other.    *)
(* A type is represented by its place in the alphabet.                     *)
(***************************************************************************)
EXTENDS Integers, Sequences, FiniteSets, FiniteSetsExt, SequencesExt

CONSTANTS
    Memories,    \* ids of memories, positive
    Types,       \* link types, ordered
    Weights,
    Queries,     \* what clients ask: [from, depth, types, dir, limit]
    MaxLinks,    \* bound on the rows of memory_links
    MaxDepth,    \* bound on the depth of a query
    MaxChanges, MaxFaults

\* What the constants must satisfy.
MirrorAssumption ==
    /\ Memories \subseteq Nat \ {0}
    /\ Types \subseteq Nat /\ Types # {}
    /\ \A q \in Queries : /\ q.from \in Memories /\ q.depth \in 1..MaxDepth
                          /\ q.types \subseteq Types
                          /\ q.dir \in {"out", "in", "both"} /\ q.limit \in Nat \ {0}
    /\ {MaxLinks, MaxDepth, MaxChanges, MaxFaults} \subseteq Nat

Other == 0
Vertices == Memories \cup {Other}
Links == [from : Vertices, to : Vertices, type : Types]

VARIABLES
    links,    \* memory_links: link -> its weight; the domain is the set of rows
    edges,    \* the edges of the graph: [link, weight]
    stale,    \* history: the links whose last copy failed
    walk,     \* a client that follows next_cursor
    changes, faults

vars == <<links, edges, stale, walk, changes, faults>>

NoWalk == [on |-> FALSE, q |-> CHOOSE q \in Queries : TRUE, cursor |-> 0, got |-> <<>>,
           always |-> {}, ever |-> {}]

Init ==
    /\ links = <<>>
    /\ edges = {}
    /\ stale = {}
    /\ walk = NoWalk
    /\ changes = 0 /\ faults = 0

(***************************************************************************)
(* The trigger on memory_links.                                            *)
(***************************************************************************)
\* sync_memory_link_to_graph merges the edge WITH its weight: another weight
\* adds another edge.
sync_memory_link_to_graph(l, w) == edges' = edges \cup {[link |-> l, weight |-> w]}

delete_memory_link_from_graph(l) == edges' = {e \in edges : e.link # l}

Changed == changes < MaxChanges /\ changes' = changes + 1

\* An insert, or the update of an existing link.
CreateLink(l, w) ==
    /\ Changed
    /\ l \in DOMAIN links \/ Cardinality(DOMAIN links) < MaxLinks
    /\ links' = [x \in DOMAIN links \cup {l} |-> IF x = l THEN w ELSE links[x]]
    /\ sync_memory_link_to_graph(l, w)
    /\ stale' = stale \ {l}
    /\ UNCHANGED <<walk, faults>>

\* Erasing a subtree deletes its links.
DeleteLink(l) ==
    /\ Changed
    /\ l \in DOMAIN links
    /\ links' = [x \in DOMAIN links \ {l} |-> links[x]]
    /\ delete_memory_link_from_graph(l)
    /\ stale' = stale \ {l}
    /\ UNCHANGED <<walk, faults>>

\* The graph side fails with a warning; the row is written all the same.
SyncFails(l, w) ==
    /\ Changed
    /\ faults < MaxFaults
    /\ faults' = faults + 1
    /\ \/ /\ l \in DOMAIN links \/ Cardinality(DOMAIN links) < MaxLinks
          /\ links' = [x \in DOMAIN links \cup {l} |-> IF x = l THEN w ELSE links[x]]
       \/ /\ l \in DOMAIN links
          /\ links' = [x \in DOMAIN links \ {l} |-> links[x]]
    /\ stale' = stale \cup {l}
    /\ UNCHANGED <<edges, walk>>

(***************************************************************************)
(* Traversals.                                                             *)
(***************************************************************************)
\* The vertices a link leads to from v.
Ends(l, v, dir) ==
    (IF dir # "in" /\ l.from = v THEN {l.to} ELSE {})
      \cup (IF dir # "out" /\ l.to = v THEN {l.from} ELSE {})

\* MATCH p = (v)-[r*1..depth]-(n): every trail, with the vertex it ends in.
Trails(v, depth, dir) ==
    LET Longer(ts) == UNION {UNION {{[via |-> Append(t.via, e), at |-> n] : n \in Ends(e.link, t.at, dir)}
                                      : e \in edges \ ToSet(t.via)} : t \in ts}
        ofLength[d \in 0..depth] == IF d = 0 THEN {[via |-> <<>>, at |-> v]}
                                    ELSE Longer(ofLength[d - 1])
    IN  UNION {ofLength[d] : d \in 1..depth}

\* Every edge of the path has one of the types asked for.
pathMatchesLinkTypes(t, types) ==
    types = {} \/ \A i \in DOMAIN t.via : t.via[i].link.type \in types

\* The map seen: per memory the shallowest trail, then the first type; a walk
\* out and back over undirected edges does not make the source related.
Seen(q) ==
    LET found == {[id |-> t.at, type |-> t.via[1].link.type, depth |-> Len(t.via)] :
                    t \in {u \in Trails(q.from, q.depth, q.dir) :
                             pathMatchesLinkTypes(u, q.types)}}
        kept == {c \in found : ~(c.id = q.from /\ c.depth > 1 /\ q.dir = "both")}
        Before(c, d) == c.depth < d.depth \/ (c.depth = d.depth /\ c.type < d.type)
    IN  {c \in kept : \A d \in kept : d.id = c.id => c = d \/ Before(c, d)}

\* A page of FindRelated: the ids after the cursor, cut to the limit.
FindRelated(q, cursor) ==
    LET after == {c \in Seen(q) : c.id > cursor}
        all == SetToSortSeq(after, LAMBDA c, d : c.id < d.id)
        more == Len(all) > q.limit
    IN  [entries |-> IF more THEN SubSeq(all, 1, q.limit) ELSE all,
         total |-> Cardinality(Seen(q)),
         next |-> IF more THEN all[q.limit].id ELSE 0]

\* Mutant: any matching path will do.
FindChainAny(from, to, types, depth) ==
    LET ts == {t \in Trails(from, depth, "out") : t.at = to /\ pathMatchesLinkTypes(t, types)}
    IN  {t.via : t \in ts}

\* FindChain: a first matching path in the order of length, if there is one.
FindChain(from, to, types, depth) ==
    LET ts == {t \in Trails(from, depth, "out") : t.at = to /\ pathMatchesLinkTypes(t, types)}
    IN  {t.via : t \in {u \in ts : \A x \in ts : Len(u.via) <= Len(x.via)}}

RelatedIds(q) == {c.id : c \in {d \in Seen(q) : d.id # Other}}

\* A client asks for the first page, and goes on while there is a cursor.
StartWalk(q) ==
    /\ walk = NoWalk
    /\ walk' = [NoWalk EXCEPT !.on = TRUE, !.q = q, !.always = RelatedIds(q)]
    /\ UNCHANGED <<links, edges, stale, changes, faults>>

Page ==
    LET page == FindRelated(walk.q, walk.cursor)
        ids == [i \in DOMAIN page.entries |-> page.entries[i].id]
    IN  /\ walk.on
        /\ walk' = [walk EXCEPT !.on = page.next # 0, !.cursor = page.next,
                      !.got = @ \o ids, !.always = @ \cap RelatedIds(walk.q),
                      !.ever = @ \cup RelatedIds(walk.q)]
        /\ UNCHANGED <<links, edges, stale, changes, faults>>

\* AGE is not available, or the query times out.
PageFails ==
    /\ walk.on
    /\ walk' = NoWalk
    /\ UNCHANGED <<links, edges, stale, changes, faults>>

Next ==
    \/ \E l \in Links, w \in Weights : CreateLink(l, w)
    \/ \E l \in DOMAIN links : DeleteLink(l)
    \/ \E l \in Links, w \in Weights : SyncFails(l, w)
    \/ \E q \in Queries : StartWalk(q)
    \/ Page
    \/ PageFails

Spec == Init /\ [][Next]_vars

(***************************************************************************)
(* Reference definitions: walks over memory_links of the right types.      *)
(***************************************************************************)
Neighbours(V, types, dir) ==
    UNION {UNION {Ends(l, v, dir) : l \in {x \in DOMAIN links : types = {} \/ x.type \in types}}
             : v \in V}

\* Is there a walk of exactly d steps from v to w?
Walk(v, w, d, types, dir) ==
    LET reach[i \in 0..d] == IF i = 0 THEN {v} ELSE Neighbours(reach[i - 1], types, dir)
    IN  w \in reach[d]

Distances(v, w, types, dir) == {d \in 1..MaxDepth : Walk(v, w, d, types, dir)}

(***************************************************************************)
(* Properties.                                                             *)
(***************************************************************************)
TypeOK ==
    /\ DOMAIN links \subseteq Links
    /\ edges \subseteq [link : Links, weight : Weights]
    /\ stale \subseteq Links
    /\ changes \in 0..MaxChanges /\ faults \in 0..MaxFaults

\* FindRelated computes from all trails of the graph what a breadth-first search
\* over memory_links would: exactly the memories within the depth, each once
\* and with its distance; the source only over a cycle (directed) or a
\* self-loop.
RelatedIsReachability ==
    stale = {} => \A q \in Queries :
        LET D(w) == Distances(q.from, w, q.types, q.dir)
            listed == {w \in Vertices : /\ D(w) # {} /\ Min(D(w)) <= q.depth
                                        /\ w = q.from /\ q.dir = "both" => Min(D(w)) = 1}
        IN  /\ {c.id : c \in Seen(q)} = listed
            /\ Cardinality(Seen(q)) = Cardinality(listed)
            /\ \A c \in Seen(q) : c.depth = Min(D(c.id))

\* FindChain finds a path exactly if there is one within the depth; it starts
\* and ends where it should, its hops join, and none is shorter.
ChainIsShortest ==
    stale = {} => \A q \in Queries, to \in Memories :
        LET chains == FindChain(q.from, to, q.types, q.depth)
            ds == {d \in Distances(q.from, to, q.types, "out") : d <= q.depth}
        IN  /\ chains = {} <=> ds = {}
            /\ \A p \in chains :
                  /\ Len(p) = Min(ds)
                  /\ p[1].link.from = q.from /\ p[Len(p)].link.to = to
                  /\ \A i \in 1..(Len(p) - 1) : p[i].link.to = p[i + 1].link.from

\* While links come and go between the pages, a walk lists no memory twice,
\* none that never was related, and every one that was related throughout.
WalkListsRelated ==
    /\ IsInjective(walk.got)
    /\ ToSet(walk.got) \subseteq walk.ever
    /\ walk.got # <<>> /\ ~walk.on => walk.always \subseteq ToSet(walk.got)

\* The graph follows memory_links although its copies are best effort: where the
\* last copy of a link succeeded, the edge is there exactly if the row is; so a
\* repeated write of the link repairs a lost copy.
GraphFollowsLinks ==
    \A l \in Links \ stale : l \in DOMAIN links <=> \E e \in edges : e.link = l

\* Synchronisation and traversal together: what the graph answers is what
\* memory_links says, as long as no copy of a link is lost.
GraphIsExact ==
    GraphFollowsLinks /\ RelatedIsReachability /\ ChainIsShortest /\ WalkListsRelated

\* "total (matching entries before pagination)": a walk over an unchanged graph
\* lists as many entries as every page announces.
TotalIsListed ==
    \A q \in Queries : Cardinality(Seen(q)) = Cardinality(RelatedIds(q))
=============================================================================
