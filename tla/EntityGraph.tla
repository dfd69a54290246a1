------------------------------ MODULE EntityGraph ------------------------------
(* services/entity_resolution.py, services/relationship_builder.py, the minting  *)
(* half of services/pipeline.py and scripts/merge_split_entities.py: how the     *)
(* identities a case's records observe become nodes, sightings and edges, when   *)
(* several runs walk the same records at once.                                   *)
(*                                                                               *)
(* A run is one transaction of project_case: it observes every mention of every  *)
(* record, asks for the records again, states every edge, then commits; a file   *)
(* committed in between has its edges stated and its mentions not observed. What *)
(* a run has flushed is visible to itself and makes others' INSERTs of the same  *)
(* unique key wait; what it has only queued is not even visible to its own       *)
(* queries, as autoflush is off.                                                 *)
(* Nodes have no unique index. A value is known by the identity it resolves to   *)
(* (canonicalize is in NetworkRules), a sighting by (node, file, field).         *)
EXTENDS Naturals, Sequences, FiniteSets, SequencesExt

CONSTANTS
    Runs,           \* transactions at once
    Files,
    MentionsIn,     \* MentionsIn[f]: sequence of [field, identity] in the file's records
    EdgesIn,        \* EdgesIn[f]: sequence of [kind, directed, from, to] its records state
    Decisions,      \* verdicts a reviewer may give on an edge
    Older,          \* identities with a node from before the resolvers were shared
    MaxNodes        \* bound

VARIABLES
    known,          \* files whose records are committed
    nodes,          \* rows of entities: [id, identity, label]
    sightings,      \* entity_occurrences: [node, file, field]
    relations,      \* entity_relations: [key, subject, object, status]
    run,            \* run[r]: what r is doing, and its own rows
    walked,         \* ghost: files a committed run observed the mentions of
    overlapped      \* ghost: two runs were in work at once

graphVars == <<known, nodes, sightings, relations, run, walked, overlapped>>

(* A record relates what it mentions: the fields edges are read from are among    *)
(* those that are observed, and the names in a sentence among those of its record.*)
(* Edges of one kind are all directed or all symmetric.                           *)
ASSUME GraphAssumption ==
    \A f \in Files :
        /\ MentionsIn[f] \in Seq(ToSet(MentionsIn[f])) /\ EdgesIn[f] \in Seq(ToSet(EdgesIn[f]))
        /\ \A m \in ToSet(MentionsIn[f]) : m = [field |-> m.field, identity |-> m.identity]
        /\ \A e \in ToSet(EdgesIn[f]) : {e.from, e.to} \subseteq {m.identity : m \in ToSet(MentionsIn[f])}
        /\ \A g \in Files : \A e \in ToSet(EdgesIn[f]), d \in ToSet(EdgesIn[g]) : e.kind = d.kind => e.directed = d.directed

Resting == [pc |-> "idle", files |-> {}, todo |-> <<>>, edges |-> <<>>, picked |-> <<>>, seen |-> {},
         nodes |-> {}, queued |-> <<>>, sightings |-> {}, relations |-> {}]
At(r, pc) == run[r].pc = pc
Working == {r \in Runs : run[r] # Resting}

(* The rows a query of run r returns.                                            *)
NodesSeen(r) == nodes \cup run[r].nodes
SightingsSeen(r) == sightings \cup run[r].sightings
RelationsSeen(r) == relations \cup run[r].relations
Found(r, identity) ==
    {n.id : n \in {m \in NodesSeen(r) : m.identity = identity /\ m.label = "canonical"}}

(* A new row takes an id nobody has; an edge keeps the ids it was stored under.  *)
Used == {n.id : n \in UNION {NodesSeen(r) : r \in Runs}} \cup UNION {{e.key[2], e.key[3]} : e \in relations}

(* A unique key somebody else has flushed and not committed makes an INSERT      *)
(* wait; one that is committed, or given twice, makes it fail.                   *)
Waits(r, keys) ==
    \E q \in Runs \ {r} : keys \cap (run[q].sightings \cup {e.key : e \in run[q].relations}) # {}
Taken == sightings \cup {e.key : e \in relations}
Clashes(queue) == ToSet(queue) \cap Taken # {} \/ ~IsInjective(queue)

Abort(r) == run' = [run EXCEPT ![r] = Resting]
Unread == UNCHANGED <<known, nodes, sightings, relations, walked, overlapped>>

-------------------------------------------------------------------------------
GraphInit ==
    /\ known = {}
    /\ \E numbering \in [Older -> 1..Cardinality(Older)] :
        /\ IsInjective(numbering)
        /\ nodes = {[id |-> numbering[i], identity |-> i, label |-> "older"] : i \in Older}
    /\ sightings = {}
    /\ relations = {}
    /\ run = [r \in Runs |-> Resting]
    /\ walked = {}
    /\ overlapped = FALSE

(* Another file's records are committed.                                         *)
StoreRecords(f) ==
    /\ f \notin known
    /\ known' = known \cup {f}
    /\ UNCHANGED <<nodes, sightings, relations, run, walked, overlapped>>

Begin(r, work) ==
    /\ run[r] = Resting
    /\ run' = [run EXCEPT ![r] = work]
    /\ overlapped' = (overlapped \/ Working # {})
    /\ UNCHANGED <<known, nodes, sightings, relations, walked>>

(* The committed records in the order they were created.                         *)
OfFile(seq, f) == [i \in 1..Len(seq[f]) |-> [file |-> f, what |-> seq[f][i]]]
OfCase(seq) ==
    LET order == SetToSeq(known) IN FlattenSeq([i \in 1..Len(order) |-> OfFile(seq, order[i])])

(* resolve_case.                                                                 *)
StartRun(r) ==
    /\ known # {}
    /\ Begin(r, [Resting EXCEPT !.pc = "resolving", !.files = known, !.todo = OfCase(MentionsIn)])

(* The deterministic extractor's _entity_for, in the transaction of its file.    *)
StartExtract(r, f) ==
    /\ f \notin known
    /\ Begin(r, [Resting EXCEPT !.pc = "extracting", !.todo = OfFile(MentionsIn, f)])

AtHand(r) == Head(run[r].todo)

(* _entity_for without a row: the new one is flushed, and with it what was       *)
(* queued.                                                                       *)
Mint(r) ==
    /\ At(r, "minting")
    /\ ~Waits(r, ToSet(run[r].queued))
    /\ IF Clashes(run[r].queued) THEN Abort(r)
       ELSE \E id \in 1..MaxNodes :
            /\ id \notin Used /\ \A lower \in 1..(id - 1) : lower \in Used
            /\ LET own == run[r]
               IN  run' = [run EXCEPT ![r] =
                    [own EXCEPT !.pc = IF own.files = {} THEN "extracting" ELSE "resolving",
                                !.nodes = own.nodes \cup
                                    {[id |-> id, identity |-> AtHand(r).what.identity, label |-> "canonical"]},
                                !.sightings = own.sightings \cup ToSet(own.queued),
                                !.queued = <<>>]]
    /\ Unread

NeedsNode(r) ==
    /\ At(r, "resolving") \/ At(r, "extracting")
    /\ run[r].todo # <<>>
    /\ Found(r, AtHand(r).what.identity) = {}
    /\ run' = [run EXCEPT ![r].pc = "minting"]
    /\ Unread

(* An indicator whose node is there is only linked to its event.                 *)
Link(r) ==
    /\ At(r, "extracting")
    /\ run[r].todo # <<>>
    /\ Found(r, AtHand(r).what.identity) # {}
    /\ run' = [run EXCEPT ![r].todo = Tail(@)]
    /\ Unread

(* Mutant: the query alone decides; what is queued is not remembered.            *)
Observe_QueryOnly(r) ==
    /\ At(r, "resolving")
    /\ run[r].todo # <<>>
    /\ \E node \in Found(r, AtHand(r).what.identity) :
        LET sighting == <<node, AtHand(r).file, AtHand(r).what.field>>
            own == run[r]
        IN  run' = [run EXCEPT ![r] =
                [own EXCEPT !.todo = Tail(own.todo), !.seen = own.seen \cup {sighting},
                            !.queued = IF sighting \in SightingsSeen(r) THEN own.queued ELSE Append(own.queued, sighting)]]
    /\ Unread

(* resolve_record for one mention whose node is there: a sighting that is not    *)
(* stored and not queued is queued.                                              *)
Observe(r) ==
    /\ At(r, "resolving")
    /\ run[r].todo # <<>>
    /\ \E node \in Found(r, AtHand(r).what.identity) :
        LET sighting == <<node, AtHand(r).file, AtHand(r).what.field>>
            own == run[r]
        IN  run' = [run EXCEPT ![r] =
                [own EXCEPT !.todo = Tail(own.todo), !.seen = own.seen \cup {sighting},
                            !.queued = IF sighting \in own.seen \cup SightingsSeen(r) THEN own.queued ELSE Append(own.queued, sighting)]]
    /\ Unread

-------------------------------------------------------------------------------
(* build_relations_for_case asks for the records again.                          *)
ReadAgain(r) ==
    /\ At(r, "resolving")
    /\ run[r].todo = <<>>
    /\ run' = [run EXCEPT ![r] = [run[r] EXCEPT !.pc = "relating", !.edges = OfCase(EdgesIn)]]
    /\ Unread

(* _add: the ends of a symmetric edge are put in the order of their ids; an edge *)
(* from a node to itself is refused.                                             *)
EdgeKey(edge, f, left, right) ==
    IF edge.directed \/ left < right THEN <<edge.kind, left, right, f>> ELSE <<edge.kind, right, left, f>>

(* Both ends are looked up and the key is asked for.                             *)
PickEdge(r) ==
    /\ At(r, "relating")
    /\ run[r].edges # <<>>
    /\ LET edge == Head(run[r].edges).what
           f == Head(run[r].edges).file
       IN  \/ /\ Found(r, edge.from) = {} \/ Found(r, edge.to) = {}
              /\ run' = [run EXCEPT ![r].edges = Tail(@)]
           \/ \E left \in Found(r, edge.from), right \in Found(r, edge.to) :
                LET key == EdgeKey(edge, f, left, right)
                IN  run' = IF left = right \/ key \in {e.key : e \in RelationsSeen(r)}
                           THEN [run EXCEPT ![r].edges = Tail(@)]
                           ELSE [run EXCEPT ![r] = [run[r] EXCEPT !.pc = "stating", !.picked = key]]
    /\ Unread

(* The INSERT, flushed with what is queued.                                      *)
AddEdge(r) ==
    LET own == run[r]
    IN  /\ At(r, "stating")
        /\ ~Waits(r, ToSet(own.queued) \cup {own.picked})
        /\ IF Clashes(Append(own.queued, own.picked)) THEN Abort(r)
           ELSE run' = [run EXCEPT ![r] =
                   [own EXCEPT !.pc = "relating", !.edges = Tail(own.edges), !.picked = <<>>,
                               !.sightings = own.sightings \cup ToSet(own.queued), !.queued = <<>>,
                               !.relations = own.relations \cup
                                    {[key |-> own.picked, subject |-> own.picked[2], object |-> own.picked[3],
                                      status |-> "machine_extracted"]}]]
        /\ Unread

(* The commit of the projection, or of the extraction, flushes the rest.         *)
CommitRun(r) ==
    /\ At(r, "relating") \/ At(r, "extracting")
    /\ run[r].todo = <<>> /\ run[r].edges = <<>>
    /\ ~Waits(r, ToSet(run[r].queued))
    /\ IF Clashes(run[r].queued) THEN UNCHANGED <<nodes, sightings, relations, walked>>
       ELSE /\ nodes' = nodes \cup run[r].nodes
            /\ sightings' = sightings \cup run[r].sightings \cup ToSet(run[r].queued)
            /\ relations' = relations \cup run[r].relations
            /\ walked' = walked \cup run[r].files
    /\ Abort(r)
    /\ UNCHANGED <<known, overlapped>>

(* Anything else that ends the transaction: it leaves nothing.                   *)
Fail(r) ==
    /\ run[r] # Resting
    /\ Abort(r)
    /\ Unread

(* review_entity_relation.                                                       *)
ReviewEdge(e, status) ==
    /\ e.status # status
    /\ relations' = (relations \ {e}) \cup {[e EXCEPT !.status = status]}
    /\ UNCHANGED <<known, nodes, sightings, run, walked, overlapped>>

-------------------------------------------------------------------------------
(* merge_split_entities, run by hand with --apply and nothing in work.           *)
NodeIdentities == {n.identity : n \in nodes}
Of(identity) == {n \in nodes : n.identity = identity}

(* _survivor: one of the rows that carry the resolved key, or of all. Which one  *)
(* is decided by the links it has, event links among them.                       *)
Pool(identity) ==
    LET canonical == {n \in Of(identity) : n.label = "canonical"}
    IN  IF canonical # {} THEN canonical ELSE Of(identity)
IdentityOf(id) == (CHOOSE n \in nodes : n.id = id).identity

(* Mutant: the losers' sightings are left to go with their rows.                 *)
Merge_CascadingSightings(kept) ==
    /\ Working = {}
    /\ \A i \in NodeIdentities : kept[i] \in {n.id : n \in Pool(i)}
    /\ nodes' = {[id |-> kept[i], identity |-> i, label |-> "canonical"] : i \in NodeIdentities}
    /\ sightings' = {s \in sightings : s[1] = kept[IdentityOf(s[1])]}
    /\ relations' = {e \in {[e EXCEPT !.subject = kept[IdentityOf(@)], !.object = kept[IdentityOf(@)]] : e \in relations} :
                        e.subject # e.object}
    /\ UNCHANGED <<known, run, walked, overlapped>>

(* Everything that names a loser is pointed at the survivor; a sighting the      *)
(* survivor has already, and an edge of the two, are dropped. The key an edge    *)
(* was stored under stays.                                                       *)
Merge(kept) ==
    /\ Working = {}
    /\ \A i \in NodeIdentities : kept[i] \in {n.id : n \in Pool(i)}
    /\ nodes' = {[id |-> kept[i], identity |-> i, label |-> "canonical"] : i \in NodeIdentities}
    /\ sightings' = {<<kept[IdentityOf(s[1])], s[2], s[3]>> : s \in sightings}
    /\ relations' = {e \in {[e EXCEPT !.subject = kept[IdentityOf(@)], !.object = kept[IdentityOf(@)]] : e \in relations} :
                        e.subject # e.object}
    /\ UNCHANGED <<known, run, walked, overlapped>>

Keepers == [NodeIdentities -> {n.id : n \in nodes}]

GraphNext ==
    \/ \E f \in Files : StoreRecords(f)
    \/ \E r \in Runs :
        \/ StartRun(r) \/ \E f \in Files : StartExtract(r, f)
        \/ Mint(r) \/ NeedsNode(r) \/ Link(r) \/ Observe(r) \/ ReadAgain(r) \/ PickEdge(r) \/ AddEdge(r)
        \/ CommitRun(r) \/ Fail(r)
    \/ \E e \in relations, status \in Decisions : ReviewEdge(e, status)
    \/ \E kept \in Keepers : Merge(kept)

GraphSpec == GraphInit /\ [][GraphNext]_graphVars

-------------------------------------------------------------------------------
(* What the stored rows say, whichever nodes they say it through.                *)
SightingFacts == {<<IdentityOf(s[1]), s[2], s[3]>> : s \in sightings}
EdgeFact(e) ==
    [kind |-> e.key[1], file |-> e.key[4], subject |-> IdentityOf(e.subject), object |-> IdentityOf(e.object)]
Rulings == {<<EdgeFact(e), e.status>> : e \in relations}

Tells(e, d) ==
    LET ends == <<IdentityOf(e.subject), IdentityOf(e.object)>>
    IN  e.key[1] = d.kind /\ (ends = <<d.from, d.to>> \/ (~d.directed /\ ends = <<d.to, d.from>>))
EdgesOver(f) == {e \in relations : e.key[4] = f}

(* However runs overlap, and whatever failed before: a sighting is of a field    *)
(* that mentions the identity, an edge one the file it is stored for states; and *)
(* once a run that observed a file's mentions has committed, each of them has    *)
(* its sighting and each edge between two identities is stored.                  *)
NetworkIsTold ==
    /\ \A s \in sightings : [field |-> s[3], identity |-> IdentityOf(s[1])] \in ToSet(MentionsIn[s[2]])
    /\ \A e \in relations : \E d \in ToSet(EdgesIn[e.key[4]]) : Tells(e, d)
    /\ \A f \in walked :
        /\ \A m \in ToSet(MentionsIn[f]) : <<m.identity, f, m.field>> \in SightingFacts
        /\ \A d \in ToSet(EdgesIn[f]) : d.from # d.to => \E e \in EdgesOver(f) : Tells(e, d)

(* When runs come one at a time an identity has one node the resolver finds, a   *)
(* statement is stored once, and the nodes it is stored between were seen in its *)
(* file, unless the file's records came while the run was at work: then the      *)
(* edges are there before the sightings, which are a later run's.                *)
SerialNetworkIsExact ==
    ~overlapped /\ Working = {} =>
        /\ \A n, m \in nodes : n.identity = m.identity /\ n.label = m.label => n = m
        /\ \A f \in Files : \A d \in ToSet(EdgesIn[f]) : \A e, g \in EdgesOver(f) : Tells(e, d) /\ Tells(g, d) => e = g
        /\ \A f \in walked : \A e \in EdgesOver(f) : {e.subject, e.object} \subseteq {s[1] : s \in {t \in sightings : t[2] = f}}

(* However runs overlap, a run never fails on its own doing: only a row somebody *)
(* else committed in between can be in the way of its rows.                      *)
NoRunClashesWithItself == \A r \in Runs : IsInjective(run[r].queued)

NetworkIsExact == NetworkIsTold /\ SerialNetworkIsExact /\ NoRunClashesWithItself

(* Merging brings together what belongs together and loses nothing: one node for *)
(* an identity, every sighting, every edge but those of a node with itself, and  *)
(* every ruling on an edge.                                                      *)
MergeIsFaithful ==
    (\E kept \in Keepers : Merge(kept)) =>
        /\ \A n, m \in nodes' : n.identity = m.identity => n = m
        /\ SightingFacts' = SightingFacts
        /\ Rulings' = {f \in Rulings : f[1].subject # f[1].object}
MergeKeepsFacts == [][MergeIsFaithful]_graphVars

===============================================================================
