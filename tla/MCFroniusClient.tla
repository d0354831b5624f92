--------------------------- MODULE MCFroniusClient ----------------------------
(* FroniusClient with tables that move, swap two models or lack one. *)
EXTENDS FroniusClient

MCModelIds == {"1", "101", "103", "160"}
MCAcModels == <<"103", "101">>

MovingTables == {<<>>, <<"1", "103", "160">>, <<"1", "160", "103">>, <<"1">>,
                 <<"1", "160", "101", "103">>}
TwoTables == {<<"1", "103", "160">>, <<"1", "160", "103">>}

================================================================================
