--------------------------- MODULE MCTitaniumLink ---------------------------
(***************************************************************************)
(* Bounded instances of TitaniumLink: a package without payload, one whose *)
(* payload repeats how the first's frame begins and whose uuid begins like *)
(* the first's, one for each reserved value, and one that does not fit.    *)
(***************************************************************************)
EXTENDS TitaniumLink, TLC

Package(uuid, address, payload) ==
    [uuid |-> uuid, area |-> 7, address |-> address, payload |-> payload]

first == Package(<<9, 1, 0, 0>>, 4117, <<>>)
second == Package(<<9, 1, 0, 8>>, 4117, <<2, 9, 1, 0, 0, 0, 0>>)

MCPackages == {first, second,
               Package(<<255, 255, 255, 255>>, 4117, <<5>>),
               Package(<<9, 9, 9, 9>>, 65535, <<5>>),
               Package(<<6, 6, 6, 6>>, 4117, <<5, 5, 5, 5, 5, 5, 5, 5, 5>>)}

MCTwoPackages == {first, second}

MCNoise == {<<>>, <<0>>, <<2>>}

MCWrong == {2}
=============================================================================
