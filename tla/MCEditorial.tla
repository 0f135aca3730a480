---- MODULE MCEditorial ----
EXTENDS Editorial
MCNames == [a |-> "x", b |-> "y", c |-> "x"]
MCMedia == [first |-> [frames |-> 24, rate |-> 30, sound |-> TRUE],
            second |-> [frames |-> 19, rate |-> 25, sound |-> FALSE]]
Both(p, q, range) ==
    {[id |-> "one", path |-> p, range |-> range], [id |-> "two", path |-> q, range |-> range]}
MCShots == {Both("a", "b", [start |-> 13, end |-> 55]), Both("c", "b", [start |-> 41, end |-> 79])}
MCFirst == {[a |-> "first", b |-> "second", c |-> "first"]}
MCSilences == {0..2, {0, 1, 2, 5, 6, 7}, 2..4, {0, 1, 3, 4, 6, 7}, 0..7, {3, 4}}
MCOffsets == {-15, 22}
MCRecordings == {[frames |-> 19, rate |-> 25], [frames |-> 24, rate |-> 30]}
MCFinal == {Item(<<"talk", 1>>, 1, 0, 20, 3, TRUE), Item(<<"card", 1>>, 3, 4, 8, 0, FALSE)}
OnTop(start, end, at) == [start |-> start, end |-> end, at |-> at, track |-> 3]
MCWishes == {<<OnTop(0, 4, 8)>>, <<OnTop(2, 6, 9), OnTop(1, 4, 14)>>, <<OnTop(0, 3, 2)>>,
             <<OnTop(4, 7, 12)>>, <<OnTop(0, 4, 8), OnTop(0, 4, 13)>>}
MCAssets == {[frames |-> 7, rate |-> 25], [frames |-> 10, rate |-> 30]}
MCRuns == {{}, {"captions"}}
====
