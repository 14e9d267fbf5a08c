---------------------------- MODULE MCGamePhases ----------------------------
(* GamePhases for one table of three. *)
EXTENDS GamePhases

CONSTANTS p1, p2, p3

MCTables == {{p1, p2, p3}}
====
