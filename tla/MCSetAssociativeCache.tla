----------------------- MODULE MCSetAssociativeCache ------------------------
(***************************************************************************)
(* SetAssociativeCache for TLC.                                            *)
(***************************************************************************)
EXTENDS SetAssociativeCache

\* Three lines compete for the two ways of one set.
MCLine == {1, 3, 5}

\* Four lines for the three ways of set 0; line 1 has set 1 to itself.
LruLine == {0, 1, 2, 4, 6}
=============================================================================
