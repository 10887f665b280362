---------------------------- MODULE MCDelegation ----------------------------
(***************************************************************************)
(* Small instances of SASDelegation for TLC: alice attests about bob, both *)
(* hold the key of their account; k1 and k2 are keys to register, kg is a  *)
(* FROST group's.                                                          *)
(***************************************************************************)
EXTENDS SASDelegation

CONSTANTS alice, bob, s1, d1, d2, ka, kb, k1, k2, kg, z1

C(d) == [schema |-> s1, recipient |-> bob, attester |-> alice, data |-> d]

OneClaim == {C(d1)}
TwoClaims == {C(d1), C(d2)}

MCAccountKey == [x \in Addrs |-> IF x = alice THEN ka ELSE kb]

OpenViews == {[live |-> TRUE, quarantined |-> FALSE, max_ttl |-> 0,
               policy |-> "Permissive", authorized |-> {alice}, acl |-> {}]}

OnlyZero == {0}
SomeRevInputs == {0, 1}
NoLimits == {}

NoScopes == {}
SomeScopes == {Unrestricted,
               [issue |-> TRUE, valid_until |-> 1, schema |-> s1],
               [issue |-> FALSE, valid_until |-> 0, schema |-> AnySchema]}
=============================================================================
