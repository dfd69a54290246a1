------------------------------ MODULE NetworkViews ------------------------------
(* What is read from the network of a case: relation_summary, graph/analytics.py, *)
(* graph/connections.py, graph/projection.py and services/entity_profile.py.      *)
(*                                                                                *)
(* A relation is [id, kind, from, to, directed, evidence, weight, status, at]     *)
(* (weight in hundredths, at = 0 when its time was never established), a sighting *)
(* [node, evidence, written, record, weight], a node [id, type, key, case]. The   *)
(* centrality scores and the clusters come from networkx and are inputs.          *)
EXTENDS Naturals, Sequences, FiniteSets, FiniteSetsExt, SequencesExt, Ordering

Ends(e) == {e.from, e.to}

(* relation_summary: one entry for a kind between a subject and an object. All    *)
(* observations support it, the rejected ones too.                                *)
Ruling(rows) ==
    LET statuses == {e.status : e \in rows}
    IN  IF "human_verified" \in statuses THEN "human_verified"
        ELSE IF "rejected" \in statuses THEN "rejected"
        ELSE "machine_extracted"
Span(times) == IF times = {} THEN <<0, 0>> ELSE <<Min(times), Max(times)>>
Entry(rows) ==
    LET one == CHOOSE e \in rows : TRUE
    IN  [kind |-> one.kind, from |-> one.from, to |-> one.to,
         observations |-> {e.id : e \in rows},
         evidence |-> {e.evidence : e \in rows},
         weight |-> Max({e.weight : e \in rows}),
         status |-> Ruling(rows),
         span |-> Span({e.at : e \in rows} \ {0})]
Summary(relations) ==
    {Entry({e \in relations : <<e.kind, e.from, e.to>> = key}) : key \in {<<e.kind, e.from, e.to>> : e \in relations}}

-------------------------------------------------------------------------------
(* build_graph: the rows a reader's filter leaves, parallel ones collapsed into   *)
(* one edge without direction.                                                    *)
Kept(relations, floor, verified) ==
    {e \in relations : e.status # "rejected" /\ e.weight >= floor /\ (verified => e.status = "human_verified")}

(* Mutant: a parallel row replaces the edge instead of adding to it.              *)
Collapsed_Replaced(rows) ==
    {LET all == {e \in rows : Ends(e) = pair}
         last == CHOOSE e \in all : \A d \in all : d.id <= e.id
     IN  [ends |-> pair, weight |-> last.weight, observations |-> 1, kinds |-> {last.kind}, evidence |-> {last.evidence}]
        : pair \in {Ends(e) : e \in rows}}

Collapsed(rows) ==
    {LET all == {e \in rows : Ends(e) = pair}
     IN  [ends |-> pair, weight |-> Max({e.weight : e \in all}), observations |-> Cardinality(all),
          kinds |-> {e.kind : e \in all}, evidence |-> {e.evidence : e \in all}]
        : pair \in {Ends(e) : e \in rows}}

Network(relations, floor, verified) ==
    LET rows == Kept(relations, floor, verified)
    IN  [nodes |-> UNION {Ends(e) : e \in rows}, edges |-> Collapsed(rows)]

Neighbours(g, n) == (UNION {e.ends : e \in {d \in g.edges : n \in d.ends}}) \ {n}
Evidence(edges) == UNION {e.evidence : e \in edges}
At(g, n) == {e \in g.edges : n \in e.ends}

(* Simple chains between two nodes, and the connected parts.                      *)
Chains(g, n, m) ==
    {c \in UNION {[1..k -> g.nodes] : k \in 1..Cardinality(g.nodes)} :
        /\ c[1] = n /\ c[Len(c)] = m /\ IsInjective(c)
        /\ \A i \in 1..(Len(c) - 1) : \E e \in g.edges : e.ends = {c[i], c[i + 1]}}
Reach(g, n) == {m \in g.nodes : Chains(g, n, m) # {}}
Parts(g) == {Reach(g, n) : n \in g.nodes}
Without(g, n) == [nodes |-> g.nodes \ {n}, edges |-> g.edges \ At(g, n)]
Unlinked(g, e) == [g EXCEPT !.edges = @ \ {e}]

CutNodes(g) == {n \in g.nodes : Cardinality(Parts(Without(g, n))) > Cardinality(Parts(g))}
Bridges(g) == {e \in g.edges : Cardinality(Parts(Unlinked(g, e))) > Cardinality(Parts(g))}

(* important_entities: the best `limit` of the nodes of a type, by score and then *)
(* by label; `cluster` is what community detection said, nothing on a graph       *)
(* without edges.                                                                 *)
Ranked(g, score, cluster, wanted, type, limit) ==
    LET before(n, m) == score[n] > score[m] \/ (score[n] = score[m] /\ n < m)
        order == InOrder({n \in g.nodes : wanted \in {"any", type[n]}}, before)
    IN  [i \in 1..Min({limit, Len(order)}) |->
            LET n == order[i]
            IN  [entity |-> n, rank |-> i,
                 connections |-> Cardinality(Neighbours(g, n)),
                 evidence |-> Evidence(At(g, n)),
                 links |-> Cardinality({cluster[m] : m \in Neighbours(g, n)}),
                 bridge |-> n \in CutNodes(g)]]

(* _explain: which structural claims the sentence makes.                          *)
Claims(g, item, score, metric) ==
    (IF item.links > 1 THEN {"links groups"} ELSE {})
    \cup (IF item.bridge THEN {"removing it splits"} ELSE {})
    \cup (IF metric = "betweenness" /\ score[item.entity] > 0 /\ item.links <= 1 /\ ~item.bridge
          THEN {"on the shortest route"} ELSE {})

(* bridge_relationships and communities.                                          *)
FragileLinks(g) == {[ends |-> e.ends, evidence |-> e.evidence, weight |-> e.weight] : e \in Bridges(g)}
Clusters(g, cluster) ==
    IF g.edges = {} THEN {}
    ELSE {LET members == {n \in g.nodes : cluster[n] = c}
          IN  [members |-> members, evidence |-> UNION {Evidence(At(g, n)) : n \in members}]
             : c \in {cluster[n] : n \in g.nodes}}

(* shortest_path: a confident edge is a short one. An absent path is an answer.   *)
Scale == 6300
Distance(e) == Scale \div Max({e.weight, 1})
EdgeOf(g, n, m) == CHOOSE e \in g.edges : e.ends = {n, m}
Links(g, chain) == [i \in 1..(Len(chain) - 1) |-> EdgeOf(g, chain[i], chain[i + 1])]
Length(g, chain) ==
    LET upto[i \in 0..(Len(chain) - 1)] == IF i = 0 THEN 0 ELSE upto[i - 1] + Distance(Links(g, chain)[i])
    IN  upto[Len(chain) - 1]
ShortestPath(g, n, m) ==
    IF {n, m} \subseteq g.nodes /\ Chains(g, n, m) # {}
    THEN LET best == CHOOSE c \in Chains(g, n, m) : \A d \in Chains(g, n, m) : Length(g, c) <= Length(g, d)
         IN  [found |-> TRUE, nodes |-> best,
              weakest |-> IF Len(best) = 1 THEN 0 ELSE Min({e.weight : e \in ToSet(Links(g, best))})]
    ELSE [found |-> FALSE, nodes |-> <<>>, weakest |-> 0]

(* subgraph: what lies within one to three steps.                                 *)
Subgraph(g, n, hops) ==
    LET radius == Max({1, Min({hops, 3})})
        near == {m \in g.nodes : \E c \in Chains(g, n, m) : Len(c) <= radius + 1}
    IN  IF n \notin g.nodes THEN [nodes |-> {}, edges |-> {}, truncated |-> FALSE]
        ELSE [nodes |-> near, edges |-> {e \in g.edges : e.ends \subseteq near}, truncated |-> near # g.nodes]

Overview(g) ==
    [entities |-> Cardinality(g.nodes), relationships |-> Cardinality(g.edges), bridges |-> Cardinality(Bridges(g)),
     isolated |-> Cardinality({n \in g.nodes : At(g, n) = {}})]

-------------------------------------------------------------------------------
(* connections.py: identifiers seen in more than one file. Distinct files count,  *)
(* four at most; the strength is in hundredths of hundredths of hundredths.       *)
IdentifierWeight(type) ==
    CASE type = "reference" -> 100 [] type = "device" -> 95 [] type = "account" -> 92
      [] type \in {"vehicle", "ifsc", "upi"} -> 90 [] type = "email" -> 88 [] type = "phone" -> 85
      [] type = "organisation" -> 50 [] type = "party" -> 45 [] type = "person" -> 40
      [] type = "location" -> 25 [] OTHER -> 60
Strength(type, files, weight) == IdentifierWeight(type) * (60 + 10 * Min({files, 4})) * Max({weight, 50})
Band(strength) ==
    IF strength >= 850000 THEN "strong" ELSE IF strength >= 600000 THEN "moderate" ELSE "weak"

SharedIdentifiers(nodes, sightings, least) ==
    {b \in {LET seen == {s \in sightings : s.node = n.id}
            IN  [node |-> n.id, evidence |-> {s.evidence : s \in seen}, occurrences |-> Cardinality(seen),
                 strength |-> Strength(n.type, Cardinality({s.evidence : s \in seen}), Max({s.weight : s \in seen} \cup {0}))]
              : n \in nodes} : Cardinality(b.evidence) >= Max({least, 2})}

(* build_connection_graph: files, the identifiers that join them, and the         *)
(* candidate links of correlation, which stay dashed whatever their status.       *)
ConnectionGraph(files, nodes, sightings, candidates, least) ==
    LET shared == SharedIdentifiers(nodes, sightings, least)
        linked == UNION {b.evidence : b \in shared}
    IN  [identifiers |-> {b.node : b \in shared},
         evidence |-> {[id |-> f, connected |-> f \in linked,
                        count |-> Cardinality({b \in shared : f \in b.evidence})] : f \in files},
         solid |-> UNION {{<<b.node, f>> : f \in b.evidence} : b \in shared},
         dashed |-> UNION {{<<c.files[i], c.files[i + 1]>> : i \in 1..(Len(c.files) - 1)} : c \in candidates},
         isolated |-> files \ linked]

(* build_case_graph: every file, node, event and transaction of the case, a file  *)
(* with the events it produced and an event with what it names.                   *)
CaseGraph(files, nodes, events, transactions) ==
    [nodes |-> ({"evidence"} \X files) \cup ({"entity"} \X {n.id : n \in nodes})
               \cup ({"event"} \X {v.id : v \in events}) \cup ({"transaction"} \X {t.id : t \in transactions}),
     edges |-> {<<<<"evidence", v.file>>, <<"event", v.id>>>> : v \in events}
               \cup UNION {{<<<<"event", v.id>>, <<"entity", n>>>> : n \in v.names} : v \in events}
               \cup {<<<<"evidence", t.file>>, <<"transaction", t.id>>>> : t \in transactions}
               \cup {<<<<"event", t.event>>, <<"transaction", t.id>>>> : t \in {u \in transactions : u.event # "none"}}]

-------------------------------------------------------------------------------
(* entity_profile.build: the ways a node was written, where it was seen, what     *)
(* states a relationship, what a source timed, and the same identity in the cases *)
(* its reader may open. A rejected relation is listed with its status.            *)
AllowedCases(cases, viewer) ==
    {c.id : c \in {d \in cases : viewer.admin \/ d.owner = viewer.id \/ viewer.id \in d.members}}
Profile(node, nodes, sightings, relations, recordTime, cases, viewer) ==
    LET own == {s \in sightings : s.node = node.id}
        about == {e \in relations : node.id \in Ends(e)}
    IN  [aliases |-> {s.written : s \in own} \cup {node.label},
         appearances |-> {<<s.evidence, s.record>> : s \in own},
         connections |-> {[relation |-> e.id, outgoing |-> e.from = node.id, status |-> e.status,
                           other |-> IF e.from = node.id THEN e.to ELSE e.from] : e \in about},
         timeline |-> {<<"relation", e.id, e.at>> : e \in {d \in about : d.at # 0}}
                      \cup {<<"record", s.record, recordTime[s.record]>> : s \in {t \in own : recordTime[t.record] # 0}},
         unreviewed |-> Cardinality({e \in about : e.status = "machine_extracted"}),
         elsewhere |-> {n.case : n \in {m \in nodes : m.type = node.type /\ m.key = node.key
                                          /\ m.case \in AllowedCases(cases, viewer) \ {node.case}}}]

-------------------------------------------------------------------------------
(* The network a reader analyses is the one the summary lists: an entry somebody  *)
(* verified, or that nobody rejected, is an edge with at least its weight and all *)
(* its files, and there is no other edge; the lists of fragile links, cut nodes   *)
(* and paths speak of that network.                                               *)
ViewsAgree(relations) ==
    LET g == Network(relations, 0, FALSE)
        entries == Summary(relations)
    IN  /\ \A s \in entries :
            s.status # "rejected" =>
                \E e \in g.edges : 
                    /\ e.ends = Ends(s) /\ s.kind \in e.kinds
                    /\ (\A r \in relations : r.id \in s.observations => r.status # "rejected")
                        => e.weight >= s.weight /\ s.evidence \subseteq e.evidence
        /\ \A e \in g.edges :
            /\ e.evidence \subseteq UNION {s.evidence : s \in {t \in entries : Ends(t) = e.ends}}
            /\ e.observations = Cardinality({r \in relations : Ends(r) = e.ends /\ r.status # "rejected"})
        /\ \A n, m \in g.nodes :
            LET path == ShortestPath(g, n, m)
            IN  /\ path.found = (\E part \in Parts(g) : {n, m} \subseteq part)
                /\ \A e \in Bridges(g) : (path.found /\ ~ShortestPath(Unlinked(g, e), n, m).found)
                                          => \E i \in 1..(Len(path.nodes) - 1) : e.ends = {path.nodes[i], path.nodes[i + 1]}
        /\ \A e \in Bridges(g) : \A n \in e.ends : Cardinality(Neighbours(g, n)) > 1 => n \in CutNodes(g)

===============================================================================
