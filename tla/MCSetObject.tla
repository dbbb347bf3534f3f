---------------------------- MODULE MCSetObject ----------------------------
\* Two simple objects ("files" is collected for every value of two variables,
\* "dirs" may report a list of three blocks), one with a variable without a
\* value, one of another probe, and sets: "top" nests the three operations,
\* "narrow" names a filter twice, "loop" is nested too deeply and refers to
\* another probe's object and to itself.
EXTENDS SetObject

MCItems == 1 .. 9
MCStatus == <<"EXISTS", "EXISTS", "EXISTS", "NOT_COLLECTED", "DOES_NOT_EXIST",
              "EXISTS", "EXISTS", "EXISTS", "EXISTS">>
MCReports == [files |-> {<<1>>, <<2>>, <<3, 2>>}, dirs |-> {<<>>, <<4>>, <<2, 5>>, <<9, 1, 8, 6, 2, 7, 3>>}]
MCObjects == {"files", "dirs", "skipped", "remote", "top", "narrow", "loop"}

Ref(o) == [type |-> "ref", obj |-> o]
Sub(op, members, filters) ==
    [type |-> "set", set |-> [op |-> op, members |-> members, filters |-> filters]]
Exclude(s) == [action |-> "exclude", state |-> s]
Include(s) == [action |-> "include", state |-> s]

MCDef ==
    [files   |-> [kind |-> "simple", values |-> <<2, 2>>],
     dirs    |-> [kind |-> "simple", values |-> <<>>],
     skipped |-> [kind |-> "skip"],
     remote  |-> [kind |-> "foreign"],
     top     |-> [kind |-> "set",
                  set |-> [op |-> "UNION", filters |-> <<>>,
                           members |-> <<Sub("COMPLEMENT", <<Ref("files"), Ref("dirs")>>, <<>>),
                                         Sub("INTERSECTION", <<Ref("files"), Ref("skipped")>>, <<Exclude("s")>>)>>]],
     narrow  |-> [kind |-> "set",
                  set |-> [op |-> "UNION", members |-> <<Ref("dirs")>>,
                           filters |-> <<Include("s"), Exclude("s")>>]],
     loop    |-> [kind |-> "set",
                  set |-> [op |-> "UNION", filters |-> <<>>,
                           members |-> <<Sub("UNION", <<Sub("UNION", <<Ref("remote")>>, <<>>),
                                                        Sub("UNION", <<Sub("UNION", <<Ref("dirs")>>, <<>>)>>, <<>>)>>, <<>>),
                                         Sub("UNION", <<Ref("top"), Ref("loop")>>, <<>>)>>]]]

\* The sets of the definitions, to the third level of nesting.
Within(nodes) == nodes \cup {m.set : m \in UNION {{n.members[i] : i \in {j \in DOMAIN n.members : n.members[j].type = "set"}} : n \in nodes}}
MCSets == Within(Within(Within({MCDef[o].set : o \in {"top", "narrow", "loop"}})))

MCStateResult == [s |-> <<"TRUE", "FALSE", "FALSE", "ERROR", "FALSE", "FALSE", "TRUE", "FALSE", "FALSE">>]
=============================================================================
