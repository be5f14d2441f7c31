-------------------------- MODULE MCDeliveryOutbox --------------------------
(* Two events, of one task or of two.                                       *)
EXTENDS DeliveryOutbox, TLC

SameTask  == <<"a", "a">>
TwoTasks  == <<"a", "b">>
OneTwo    == <<1, 2>>
OneEach   == <<1, 1>>
TheTasks  == {"a", "b"}
TheTask   == {"a"}
Interchangeable == Permutations(Drains)
=============================================================================
