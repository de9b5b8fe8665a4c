------------------------------ MODULE MCRooms ------------------------------
(***************************************************************************)
(* Small instances of Rooms.  Requests are interchangeable; users are too. *)
(***************************************************************************)
EXTENDS Rooms, TLC

Public   == {[private |-> FALSE, allowGuest |-> TRUE]}
AllKinds == Public \union {[private |-> TRUE, allowGuest |-> TRUE],
                           [private |-> FALSE, allowGuest |-> FALSE]}

Alike == Permutations(Requests) \union Permutations(Users)
=============================================================================
