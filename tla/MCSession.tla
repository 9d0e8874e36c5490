------------------------------- MODULE MCSession -------------------------------
(* Sessions with small sets of model values. *)
EXTENDS Session, TLC

\* The entry a client can put on the white list: the address that is not privileged.
MCSubnets == {Addresses \ {ServerIP}}

\* The first start, and one on a database in use, whose clients hold all the tokens
\* (those that do not, ask for less).
MCInit ==
    /\ Init
    /\ tokens = IF white = NoRow THEN {} ELSE Names
    /\ white # NoRow => white.enabled

MCSpec == MCInit /\ [][Next]_vars

\* Workers are interchangeable.
Symmetry == Permutations(Workers)
================================================================================
