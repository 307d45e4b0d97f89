------------------------------ MODULE Ranking ------------------------------
(***************************************************************************)
(* The order of the home page: _weighted_rrf, _interleave_unique and       *)
(* _merge_ranked_candidates of server/server/catalog.py, and home_cached   *)
(* of repositories/catalog.py, which reads the order back from the rows.   *)
(*                                                                         *)
(* Scores are whole numbers: every term is multiplied by a number that all *)
(* its denominators divide.  The rounding to twelve digits is left out.    *)
(***************************************************************************)
EXTENDS Naturals, SequencesExt, FiniteSetsExt

CONSTANTS
    Items,      \* [id, quality, popularity]: what a list may have of a title
    Length,     \* bound: of a list
    Weights,    \* _BANGUMI_RANKING_WEIGHTS or _TMDB_RANKING_WEIGHTS, in percent
    Limit       \* of a page

VARIABLES
    lists,      \* what the provider has answered, list by list
    mixed,      \* the titles of all lists, in turns
    order,      \* the result of the refresh
    scores,     \* ranking_score and popularity of each row
    page        \* the page that is shown, and which of its titles are fresh

vars == <<lists, mixed, order, scores, page>>

Unranked == [fresh |-> {}, shown |-> <<>>]

Init ==
    /\ lists \in [DOMAIN Weights -> BoundedSeq(Items, Length)]
    /\ mixed = <<>> /\ order = <<>> /\ scores = <<>> /\ page = Unranked

-----------------------------------------------------------------------------
K == 60                     \* _RRF_K
Scale == ProductSet({K + n : n \in 1..Length})

\* Where a list has a title first; 0: nowhere.
RankIn(list, id) == SelectInSeq(list, LAMBDA item : item.id = id)

Has(id) == {k \in DOMAIN lists : RankIn(lists[k], id) # 0}
Ids == {id \in {item.id : item \in Items} : Has(id) # {}}

\* Mutant: a list that has a title twice counts twice.
MutantScore(id) ==
    MapThenSumSet(
        LAMBDA k : MapThenSumSet(
            LAMBDA n : IF lists[k][n].id = id THEN Weights[k] * (Scale \div (K + n)) ELSE 0,
            DOMAIN lists[k]),
        DOMAIN lists)

Score(id) ==
    MapThenSumSet(LAMBDA k : Weights[k] * (Scale \div (K + RankIn(lists[k], id))), Has(id))

\* The first of the best descriptions, _catalog_item_quality.
Kept(id) ==
    LET item(k) == lists[k][RankIn(lists[k], id)]
        best == CHOOSE k \in Has(id) : \A j \in Has(id) :
                    \/ item(k).quality > item(j).quality
                    \/ item(k).quality = item(j).quality /\ k <= j
    IN  item(best)

\* Between 0 and 1; all the same if nothing tells them apart.
Normalized(id) ==
    LET all == {Score(i) : i \in Ids} IN
    IF Max(all) = Min(all) THEN 1 ELSE Score(id) - Min(all)

\* By score, by popularity, by name.
Before(score, popularity, a, b) ==
    \/ score[a] > score[b]
    \/ score[a] = score[b] /\ popularity[a] > popularity[b]
    \/ score[a] = score[b] /\ popularity[a] = popularity[b] /\ a < b

WeightedRrf ==
    LET score == [id \in Ids |-> Score(id)]
        popularity == [id \in Ids |-> Kept(id).popularity]
    IN  SetToSortSeq(Ids, LAMBDA a, b : Before(score, popularity, a, b))

\* The first of each list, then the second of each, and so on.
InterleaveUnique ==
    LET turn(id) == Min({RankIn(lists[k], id) * Len(lists) + k : k \in Has(id)})
    IN  SetToSortSeq(Ids, LAMBDA a, b : turn(a) < turn(b))

\* home_cached, of the titles whose rank is new enough.
HomeCached(ids) ==
    SetToSortSeq(ids, LAMBDA a, b :
        Before([id \in ids |-> scores[id].score],
               [id \in ids |-> scores[id].popularity], a, b))

\* The titles of the groups in their order, each once.
MergeRanked(groups) ==
    LET add(result, id) ==
            IF Contains(result, id) \/ Len(result) >= Limit THEN result ELSE Append(result, id)
    IN  FoldLeft(add, <<>>, FlattenSeq(groups))

-----------------------------------------------------------------------------
\* A refresh computes the order and stores it.
RankLists ==
    /\ order = <<>> /\ Ids # {}
    /\ mixed' = InterleaveUnique
    /\ order' = WeightedRrf
    /\ scores' = [id \in Ids |-> [score |-> Normalized(id), popularity |-> Kept(id).popularity]]
    /\ UNCHANGED <<lists, page>>

\* home: the titles that are fresh, then all that are not too old.
Show ==
    /\ order # <<>> /\ page = Unranked
    /\ \E fresh \in SUBSET Ids :
          page' = [fresh |-> fresh,
                   shown |-> MergeRanked(<<HomeCached(fresh), HomeCached(Ids)>>)]
    /\ UNCHANGED <<lists, mixed, order, scores>>

Next == RankLists \/ Show

-----------------------------------------------------------------------------
At(list, id) == SelectInSeq(list, LAMBDA x : x = id)

\* Wherever b is listed, a is listed before it.
Ahead(a, b) ==
    \A k \in Has(b) : k \in Has(a) /\ RankIn(lists[k], a) < RankIn(lists[k], b)

Lists(seq, ids) == Len(seq) = Cardinality(ids) /\ ToSet(seq) = ids

\* Every title has one place, no title is put behind one that all lists put
\* behind it, the rows give the same order as the refresh that wrote them, and
\* fresh titles come first ("Mix provider lists so one ranking does not crowd
\* out every other one").
RankingIsFair ==
    order # <<>> =>
        /\ Lists(order, Ids) /\ Lists(mixed, Ids)
        /\ \A a, b \in Ids : a # b /\ Ahead(a, b) => At(order, a) < At(order, b)
        /\ HomeCached(Ids) = order
        /\ \A k \in DOMAIN lists : \A id \in Ids :
              k \in Has(id) => At(mixed, id) <= Len(lists) * RankIn(lists[k], id)
        /\ page # Unranked =>
              /\ Len(page.shown) = Min({Limit, Cardinality(Ids)})
              /\ Len(page.shown) = Cardinality(ToSet(page.shown))
              /\ \A i, j \in DOMAIN page.shown :
                    page.shown[j] \in page.fresh /\ i < j => page.shown[i] \in page.fresh
=============================================================================
