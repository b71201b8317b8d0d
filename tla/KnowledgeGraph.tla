--------------------------- MODULE KnowledgeGraph ---------------------------
(***************************************************************************)
(* knowledge/service.py: the catalogs that a release ships are written     *)
(* over the rows of the release before; a question's words are linked to   *)
(* entities and the relations around them are its facts.                   *)
(*                                                                         *)
(* A relation is its key <<subject, predicate, object>>.  A catalog is a   *)
(* record [source, entities, external, relations].  The rows are a record  *)
(* [source, entity, relation]: for each key written so far, whether it is  *)
(* active and whose catalog it is; aliases follow their entity.            *)
(***************************************************************************)
EXTENDS Ordering, SequencesExt

CONSTANTS
    TypeOf,        \* the type of each entity
    IdPlace,       \* the place of its id among all ids
    JobTaxonomy,   \* the entity "taxonomy:jobs"
    MaxRelations,  \* relations a search of two hops selects at most
    Retired        \* sources switched off after every synchronisation

Entities == DOMAIN TypeOf
Ends(relation) == {relation[1], relation[3]}

-----------------------------------------------------------------------------
(* Synchronisation.                                                        *)

NoRows == [source |-> <<>>, entity |-> <<>>, relation |-> <<>>]

IsActive(rows, key) == key \in DOMAIN rows /\ rows[key].active

\* Mutant: what a catalog no longer lists stays.
UpsertedOnly(rows, listed, src) ==
    [key \in DOMAIN rows \cup listed |->
        IF key \in listed THEN [active |-> TRUE, src |-> src] ELSE rows[key]]

\* What the catalog lists is active and becomes its own, what was its own
\* and is no longer listed is switched off.
Upserted(rows, listed, src) ==
    [key \in DOMAIN rows \cup listed |->
        CASE key \in listed -> [active |-> TRUE, src |-> src]
          [] key \notin listed /\ rows[key].src = src ->
                [active |-> FALSE, src |-> src]
          [] OTHER -> rows[key]]

\* sync_knowledge_catalog; a missing external entity raises.
SyncCatalog(s, c) ==
    IF s.failed \/ \E e \in c.external : ~IsActive(s.rows.entity, e)
    THEN [s EXCEPT !.failed = TRUE]
    ELSE [s EXCEPT
            !.rows.source = Upserted(@, {c.source}, c.source),
            !.rows.entity = Upserted(@, c.entities, c.source),
            !.rows.relation = Upserted(@, c.relations, c.source)]

\* sync_builtin_knowledge, one transaction: all catalogs or none.
SyncBuiltin(rows, catalogs) ==
    LET s == FoldLeft(SyncCatalog, [failed |-> FALSE, rows |-> rows], catalogs)
        switched == [key \in DOMAIN s.rows.source |->
            [s.rows.source[key] EXCEPT !.active = @ /\ key \notin Retired]]
    IN  IF s.failed
        THEN [failed |-> TRUE, rows |-> rows]
        ELSE [failed |-> FALSE, rows |-> [s.rows EXCEPT !.source = switched]]

-----------------------------------------------------------------------------
(* Linking.  A match is a record [entity, first, last].                    *)

Overlaps(a, b) == a.first <= b.last /\ b.first <= a.last
SameSpan(a, b) == a.first = b.first /\ a.last = b.last

\* Longest first, then the leftmost, then the smaller id.
GoesFirst(a, b) ==
    LET length(m) == m.last - m.first
    IN  \/ length(a) > length(b)
        \/ /\ length(a) = length(b)
           /\ \/ a.first < b.first
              \/ a.first = b.first /\ IdPlace[a.entity] < IdPlace[b.entity]

\* A span may keep several entities.
LongestMatches(candidates) ==
    LET step(kept, m) ==
            LET over == {k \in kept : Overlaps(k, m)}
            IN  IF \A k \in over : SameSpan(k, m) /\ k.entity # m.entity
                THEN kept \cup {m}
                ELSE kept
    IN  FoldLeft(step, {}, InOrder(candidates,
            {p \in candidates \X candidates : GoesFirst(p[1], p[2])}))

Specificity(m) ==
    CASE TypeOf[m.entity] = "job" -> 3
      [] TypeOf[m.entity] = "job_family" -> 2
      [] TypeOf[m.entity] = "taxonomy" -> 1
      [] OTHER -> 0

\* select_entity_matches: a named job silences its family and the word "job",
\* and a taxonomy counts only when nothing else is named.
SelectEntityMatches(candidates) ==
    LET kept == LongestMatches(candidates)
        jobs == {m \in kept : Specificity(m) \in {2, 3} \/ m.entity = JobTaxonomy}
        highest == Max({Specificity(m) : m \in jobs})
        specific == IF jobs = {}
                    THEN kept
                    ELSE {m \in kept : Specificity(m) \in {0, highest}}
        named == {m \in specific : TypeOf[m.entity] # "taxonomy"}
    IN  IF named = {} THEN specific ELSE named

-----------------------------------------------------------------------------
(* Traversal.  relations is the set of active relations.                   *)

\* What the type of a matched entity asks for.
Around(e, relations) ==
    LET touching == {r \in relations : e \in Ends(r)}
        subjects(predicate) ==
            {r[1] : r \in {q \in touching : q[3] = e /\ q[2] = predicate}}
        objects(predicate) ==
            {r[3] : r \in {q \in touching : q[1] = e /\ q[2] = predicate}}
    IN  CASE TypeOf[e] = "job" -> {r \in touching : r[1] = e /\ r[2] = "is_a"}
          [] TypeOf[e] = "job_family" ->
                {r \in touching : \/ r[3] = e /\ r[2] = "is_a"
                                  \/ r[1] = e /\ r[2] = "part_of"}
          [] TypeOf[e] = "taxonomy" ->
                {r \in relations :
                    \/ r[3] = e /\ r[2] = "part_of"
                    \/ /\ r[3] \in subjects("part_of")
                       /\ r[2] \in {"is_a", "abbreviation_of", "variant_of"}}
          [] TypeOf[e] = "abbreviation" ->
                touching \cup {r \in relations :
                    r[1] \in objects("abbreviation_of") /\ r[2] = "has_effect"}
          [] TypeOf[e] = "boss" ->
                touching \cup {r \in relations :
                    r[1] \in subjects("variant_of") /\ r[2] = "has_difficulty"}
          [] OTHER -> touching

\* The first n of the relations in the order of their ids, the hashes of
\* what they say; place[r] is the place of r's.
Foremost(S, n, place) ==
    {r \in S : Cardinality({q \in S : place[q] <= place[r]}) <= n}

\* _expanded_relation_ids for two hops: breadth first, until MaxRelations
\* are selected.
Expanded(seeds, relations, place) ==
    LET touching(frontier) == {r \in relations : Ends(r) \cap frontier # {}}
        more(selected, frontier) ==
            selected \cup Foremost(touching(frontier) \ selected,
                                   MaxRelations - Cardinality(selected), place)
        once == more({}, seeds)
    IN  more(once, (UNION {Ends(r) : r \in once}) \ seeds)

\* The relations whose ends and source are active too: what the last
\* statement of retrieve joins.
Joined(rows, relations) ==
    {r \in relations :
        /\ \A e \in Ends(r) : IsActive(rows.entity, e)
        /\ IsActive(rows.source, rows.relation[r].src)}

\* DatabaseKnowledgeRetriever.retrieve: candidates are the places in the
\* question where the alias of an entity occurs.
Retrieve(rows, candidates, hops, place) ==
    LET known == {m \in candidates :
            /\ IsActive(rows.entity, m.entity)
            /\ IsActive(rows.source, rows.entity[m.entity].src)}
        seeds == {m.entity : m \in SelectEntityMatches(known)}
        relations == {r \in DOMAIN rows.relation : rows.relation[r].active}
        direct == UNION {Around(e, relations) : e \in seeds}
        expanded == IF hops > 1 THEN Expanded(seeds, relations, place) ELSE {}
    IN  Joined(rows, direct \cup expanded)

=============================================================================
