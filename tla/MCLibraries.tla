---- MODULE MCLibraries ----
EXTENDS MixtureLibraries

MCKeys == {"c1", "c2", "c3", "Aa", "AA", "Bb", "BB", "Dd", "DD", "Ff", "FF"}
MCUpper == [k \in MCKeys |-> CASE k = "Aa" -> "AA" [] k = "Bb" -> "BB" [] k = "Dd" -> "DD" [] k = "Ff" -> "FF" [] OTHER -> k]

Entry(cas, name, aliases, pure, good, id) == [cas |-> cas, name |-> name, aliases |-> aliases, pure |-> pure, good |-> good, id |-> id]

A == Entry("c1", "Aa", <<"Bb">>, TRUE, TRUE, 1)
D == Entry("c2", "Dd", <<>>, TRUE, TRUE, 2)
Another == [A EXCEPT !.id = 3]                            \* A again
Overlap == Entry("c1", "Ff", <<"Dd">>, TRUE, TRUE, 4)     \* A by its number, D by an alias
Alias == Entry("c3", "Ff", <<"BB">>, TRUE, TRUE, 5)       \* A by the upper case of its alias
Faulty == Entry("c3", "Ff", <<>>, TRUE, FALSE, 6)
Solution == Entry("c3", "Dd", <<"Ff">>, FALSE, TRUE, 7)   \* D by its name, of the other kind
New == Entry("c3", "FF", <<"AA">>, FALSE, TRUE, 8)        \* new but for an alias

MCEntries == {A, D, Another, Overlap, Alias, Faulty, Solution, New}
MCBaseline == <<A, D>>
MCListings == {<<>>} \cup {<<e>> : e \in MCEntries \ {A, D}} \cup {<<New, Another>>, <<Alias, Faulty>>, <<Faulty, New>>}

Pair(i, j, beta, F, function) == [pair |-> <<i, j>>, beta |-> beta, F |-> F, function |-> function]

MCDefaultPairs == <<Pair(2, 1, 1, 0, None), Pair(1, 3, 2, 1, "f")>>
MCDefaultFunctions == <<[name |-> "f", id |-> 1], [name |-> "g", id |-> 2]>>
MCDefaultKij == <<[pair |-> <<2, 1>>, kij |-> 1]>>

\* A pair that is there, two of which the second is, one of an unknown function.
MCPairListings == {<<Pair(1, 2, 3, 0, None)>>, <<Pair(3, 2, 4, 1, "g"), Pair(3, 1, 5, 0, None)>>, <<Pair(2, 3, 6, 1, "h")>>}
MCFunctionListings == {<<[name |-> "h", id |-> 3]>>, <<[name |-> "g", id |-> 4], [name |-> "h", id |-> 5]>>}
====
