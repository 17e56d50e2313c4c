---------------------------- MODULE MCLocalClient ----------------------------
EXTENDS LocalClient

Item(v, x) == [version |-> v, value |-> x]
Entry(k, v, x) == [NoData EXCEPT ![k] = Item(v, x)]
MCContents ==
    << {Missing, Entry("flag", 1, "red"), Entry("flag", 2, "blue")},
       {Bad, Entry("flag", 1, "red"), Entry("segment", 1, "red")} >>
MCVariation3 == <<"red", "blue", "green">>
=============================================================================
