--------------------------- MODULE MCVectorIndex ---------------------------
(* Four records, of which two are equally far from a query; metadata that  *)
(* differs in kind only; a batch that repeats an id, and batches whose last *)
(* vector is too short or not finite.                                      *)
EXTENDS SqliteVectorIndex
CONSTANTS north, east, nan, short

MCDim == [v \in {north, east, nan, short} |-> IF v = short THEN 1 ELSE 2]
MCDistance == [q \in {north, nan, short} |->
                 [v \in {north, east, short} |-> IF v = q THEN 0 ELSE 1]]

One  == [kind |-> "number", value |-> 1]
True == [kind |-> "boolean", value |-> 1]
Text == [kind |-> "string", value |-> 1]

Tagged(s) == [k \in {"tag"} |-> s]
Both(s)   == [k \in {"tag", "lang"} |-> s]
Rec(i, v, m, keys) == [id |-> i, vector |-> v, metadata |-> m, lookupKeys |-> keys]

MCBatches == {
    <<Rec(2, east, Tagged(One), <<"x", "y", "x">>)>>,
    <<Rec(1, east, Both(True), <<"y">>), Rec(2, north, Tagged(True), <<"x">>)>>,
    <<Rec(3, north, Both(Text), <<"y">>), Rec(3, east, Both(One), <<"y", "x">>)>>,
    <<Rec(1, north, Tagged(One), <<>>), Rec(4, nan, Tagged(One), <<"x">>)>>,
    <<Rec(1, short, Tagged(One), <<"x">>)>> }

MCFilters == {[k \in {} |-> One], Tagged(One), Tagged(True),
              [k \in {"tag", "lang"} |-> IF k = "tag" THEN One ELSE True], Both(One)}
MCIdLists == {<<2, 1, 2>>, <<5, 6, 3, 7, 8, 9, 10, 11, 12, 1, 2, 3>>}
MCDeleteLists == {<<2, 3, 2>>, <<1>>}
MCLookups == {<<"x", "y">>, <<"y", "x", "y">>, <<"y">>}
============================================================================
