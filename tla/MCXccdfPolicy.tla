--------------------------- MODULE MCXccdfPolicy ---------------------------
\* benchmark: group g1 (rule r1, group g2 (rule r2, rule r4, group g3 (rule r5))), rule r3;
\* g3 and r3 have weight 0.
EXTENDS XccdfPolicy

MCGroups == {"g1", "g2", "g3"}
MCRules == {"r1", "r2", "r3", "r4", "r5"}
MCContent == [benchmark |-> <<"g1", "r3">>, g1 |-> <<"r1", "g2">>,
              g2 |-> <<"r2", "r4", "g3">>, g3 |-> <<"r5">>]
MCSelected == [g1 |-> TRUE, g2 |-> FALSE, g3 |-> TRUE, r1 |-> TRUE, r2 |-> TRUE, r3 |-> TRUE, r4 |-> TRUE, r5 |-> FALSE]
MCClusters == [c |-> {"g2", "r2", "r5"}]
MCApplicable == [benchmark |-> TRUE, g1 |-> TRUE, g2 |-> TRUE, g3 |-> TRUE, r1 |-> TRUE, r2 |-> TRUE, r3 |-> TRUE, r4 |-> FALSE, r5 |-> TRUE]
MCRuleRole == [r1 |-> "full", r2 |-> "full", r3 |-> "unchecked", r4 |-> "full", r5 |-> "full"]
MCWeight == [g1 |-> 2, g2 |-> 1, g3 |-> 0, r1 |-> 3, r2 |-> 1, r3 |-> 0, r4 |-> 1, r5 |-> 1]

Leaf(refs, negate) == [kind |-> "simple", refs |-> refs, negate |-> negate, bound |-> TRUE]
MultiCheck(n) == [kind |-> "multi", definitions |-> n, negate |-> FALSE, bound |-> TRUE]
MCCheck ==
    [top  |-> [kind |-> "complex", oper |-> "AND", negate |-> TRUE, children |-> <<"a", "or">>],
     or   |-> [kind |-> "complex", oper |-> "OR", negate |-> FALSE, children |-> <<"b", "c">>],
     a    |-> Leaf(<<"a">>, FALSE),
     b    |-> Leaf(<<"b">>, TRUE),
     c    |-> Leaf(<<"c">>, FALSE),
     two  |-> MultiCheck(2),
     zero |-> MultiCheck(0),
     de   |-> Leaf(<<"d", "e">>, TRUE),
     nil  |-> Leaf(<<>>, FALSE),
     free |-> [kind |-> "simple", refs |-> <<"d">>, negate |-> FALSE, bound |-> FALSE]]
Candidate(selector, registered, check) == [selector |-> selector, registered |-> registered, check |-> check]
MCChecks ==
    [r1 |-> <<Candidate(Unset, TRUE, "top")>>,
     r2 |-> <<Candidate(Unset, TRUE, "two"), Candidate("alt", TRUE, "zero")>>,
     r3 |-> <<Candidate(Unset, TRUE, "de"), Candidate(Unset, FALSE, "nil"), Candidate("alt", TRUE, "free")>>,
     r4 |-> <<>>,
     r5 |-> <<Candidate(Unset, TRUE, "a")>>]

Sel(i, v) == [item |-> i, value |-> v]
Ref(i, role, selector) == [item |-> i, role |-> role, selector |-> selector]
MCProfiles == { [selects |-> <<>>, refines |-> <<>>],
                [selects |-> <<Sel("c", "yes")>>, refines |-> <<Ref("r3", "unscored", Unset)>>],
                [selects |-> <<Sel("g2", "yes"), Sel("g1", "no")>>,
                 refines |-> <<Ref("r3", "full", Unset), Ref("r3", Unset, "alt"), Ref("r2", Unset, "alt")>>] }
MCSelectors == {Sel("g1", "yes"), Sel("g1", "no"), Sel("r2", "no"), Sel("c", "yes"), Sel("c", "no"), Sel("nosuch", "yes")}
MCAnswers == {-1, 1, 2, 3, 4, 6}
=============================================================================
