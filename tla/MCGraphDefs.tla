---------------------------- MODULE MCGraphDefs ----------------------------
(***************************************************************************)
(* GraphDefs for TLC: files with a definition with a variant, with one     *)
(* named like the variant, and with two, of which one is the first without *)
(* its variant.                                                            *)
(***************************************************************************)
EXTENDS GraphDefs, TLC

WithVariant == [name |-> "a", variants |-> <<"a.x">>]
Plain == [name |-> "a", variants |-> <<>>]
LikeVariant == [name |-> "a.x", variants |-> <<>>]
Other == [name |-> "b", variants |-> <<>>]

MCDefFile == {<<WithVariant>>, <<LikeVariant>>, <<Plain, Other>>}

Synths == Permutations(Synth)
=============================================================================
