-------------------------- MODULE MCProbeProtocol --------------------------
\* Set s refers to simple objects x and v and is filtered; sets t and u refer
\* to each other and to x and, in another probe, y; v cannot be evaluated.
EXTENDS ProbeProtocol

MCObjects == {"s", "t", "u", "v", "x", "y"}
MCProbes == {"A", "B"}
MCProbeOf == [s |-> "A", t |-> "A", u |-> "A", v |-> "A", x |-> "A", y |-> "B"]
MCNeeds == [s |-> <<"x", "v", "filter">>, t |-> <<"u", "y">>, u |-> <<"t", "x">>,
            v |-> <<>>, x |-> <<"state">>, y |-> <<>>]
MCSkipped == {"v"}
=============================================================================
