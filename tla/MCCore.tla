------------------------------- MODULE MCCore -------------------------------
(***************************************************************************)
(* Small instances of SASCore for TLC.  Each set of claims, registry views *)
(* and inputs below is what one run's configuration file selects.          *)
(***************************************************************************)
EXTENDS SASCore, TLC

CONSTANTS alice, bob, carol, s1, d1, d2

MCAddrs == {alice, bob}
ThreeAddrs == {alice, bob, carol}

C(s, r, a, d) == [schema |-> s, recipient |-> r, attester |-> a, data |-> d]

(* One claim of alice about bob. *)
OneClaim == {C(s1, bob, alice, d1)}

(* Two claims of alice about bob under one schema. *)
TwoClaims == {C(s1, bob, alice, d1), C(s1, bob, alice, d2)}

(* Three claims of alice, two of them the same payload for two recipients. *)
ThreeClaims == {C(s1, bob, alice, d1), C(s1, carol, alice, d1), C(s1, bob, alice, d2)}

View(live, quarantined, max_ttl, policy) ==
    [live |-> live, quarantined |-> quarantined, max_ttl |-> max_ttl,
     policy |-> policy, authorized |-> {alice}, acl |-> {}]

OpenViews == {View(TRUE, FALSE, 0, "Permissive")}

ChangingViews ==
    {View(TRUE, FALSE, 0, "Permissive"), View(TRUE, TRUE, 0, "Permissive"),
     View(FALSE, FALSE, 0, "Permissive"), View(TRUE, FALSE, 2, "RevocableOnly"),
     View(FALSE, FALSE, 2, "RevocableOnly")}

IrrevocableViews == {View(TRUE, FALSE, 0, "IrrevocableOnly")}

OnlyZero == {0}
SomeExpirations == {0, 2, 4}
SomeValidFroms == {0, 2}
DataSymmetry == Permutations({d1, d2})
SomeRevInputs == {0, 1}
NoLimits == {}
SomeLimits == {[max_issuances |-> m, window |-> 2] : m \in 1..2}
=============================================================================
