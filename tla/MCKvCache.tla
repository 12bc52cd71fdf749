------------------------------ MODULE MCKvCache ------------------------------
EXTENDS KvCache
MCRanges == {<<-1, -1>>, <<0, 1>>, <<1, -1>>}
MCDeltas == {-1}
=============================================================================
