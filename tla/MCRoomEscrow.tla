---------------------------- MODULE MCRoomEscrow ----------------------------
(* RoomEscrow for TLC: accounts and assets as model values, small amounts. *)
EXTENDS RoomEscrow, TLC

CONSTANTS eth, token, alice, bob, vault, safe

JustEth == {eth}
JustToken == {token}
BothAssets == {eth, token}
Nobody == {}
Alice == {alice}
People == {alice, bob}
Vault == {vault}
PeopleAndVault == {alice, bob, vault}
One == {1}
UpTo2 == {1, 2}
OneAndThree == {1, 3}

\* The two people are interchangeable.
Swap == Permutations(People)
=============================================================================
