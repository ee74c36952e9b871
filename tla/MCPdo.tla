------------------------------- MODULE MCPdo --------------------------------
(* Values of the constants of Pdo for the model checker. *)
EXTENDS Pdo

CONSTANTS t1, t2, r1, r2, a, b, c

NoCb == [kind |-> "none", pdo |-> "none", generation |-> 0]

OneTpdo == <<t1>>
TwoTpdos == <<t1, t2>>
OneRpdo == <<r1>>
TwoRpdos == <<r1, r2>>

\* r1 and t1 map the same pair of entries, the others an entry apart.
Mapping(p) == IF p \in {t1, r1} THEN <<a, b>> ELSE <<c>>
SingleMapping(p) == <<a>>

Pairs == {<<v, v>> : v \in Values}
Singles == {<<v>> : v \in Values}
RefusedByA == {<<a, v>> : v \in Values \ {Initial}}
Nothing == {}

CobIdOrMapping == {<<r1, "cobid">>, <<t1, "mapping">>}
OwnEntries == {<<t1, "cobid">>, <<t1, "timer">>, <<r1, "cobid">>, <<r1, "timer">>, <<r1, "type">>}

NoPeriod == {0}
MixedPeriods == {0, 1, 2}
=============================================================================
