------------------------------- MODULE MCLineage -------------------------------
(* Instances of Lineage for TLC: a generator whose idea is built twice over *)
(* (i, b, p, s), with a circle, a short cut, two links between one pair and *)
(* an observation behind a site.                                            *)
EXTENDS Lineage, TLC

SixNodes == {"g", "i", "b", "p", "s", "o"}
NineLinks ==
  << <<"g", "GENERATED", "i">>, <<"i", "BUILT_BY", "b">>, <<"b", "PRODUCED", "p">>,
    <<"p", "EXPOSES", "s">>, <<"s", "OBSERVED_BY", "o">>, <<"g", "GENERATED", "s">>,
    <<"i", "PRODUCED", "g">>, <<"i", "PRODUCED", "b">>, <<"b", "OBSERVED_BY", "o">> >>
EdgesOf == {NineLinks[i] : i \in DOMAIN NineLinks}
Made(E) == LET In(e) == e \in E IN SelectSeq(NineLinks, In)
AllGraphs == {Made(E) : E \in SUBSET EdgesOf}
Calls == [o \in {"o"} |-> 3]
=============================================================================
