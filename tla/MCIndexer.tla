------------------------------ MODULE MCIndexer ------------------------------
(***************************************************************************)
(* Small instances of Indexer for TLC.                                     *)
(***************************************************************************)
EXTENDS Indexer

CONSTANTS alice, bob, s1, d1, d2

C(r, a, d) == [recipient |-> r, schema |-> s1, attester |-> a, data |-> d]

(* Two claims of alice about bob. *)
OneWay == {C(bob, alice, d1), C(bob, alice, d2)}

(* ... and one of bob about alice: each address has both roles. *)
BothWays == OneWay \cup {C(alice, bob, d1)}

R(u, e, vf) == [uid |-> u, expiration_time |-> e, valid_from |-> vf]

(* The first claim may expire and be renewed, pruned and issued again; the *)
(* second becomes valid later.                                             *)
SomeRequests ==
    {R(C(bob, alice, d1), 0, 0), R(C(bob, alice, d1), 2, 0),
     R(C(bob, alice, d2), 0, 2), R(C(alice, bob, d1), 0, 0)}

Lasting == {C(bob, alice, d2), C(alice, bob, d1)}

SomeMarks == {C(bob, alice, d1)}
==============================================================================
