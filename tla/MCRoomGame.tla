---------------------------- MODULE MCRoomGame ----------------------------
(* RoomGame on four people and tables of three. *)
EXTENDS RoomGame

MCTables == {table \in SUBSET Players : Cardinality(table) = Capacity}
====
