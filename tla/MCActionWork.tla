----------------------------- MODULE MCActionWork ----------------------------
(* Instances of ActionWork for TLC.                                        *)
EXTENDS ActionWork, TLC

\* Admins are interchangeable, and so are the other users.
Interchangeable == Permutations(Admins) \cup Permutations(Users \ Admins)
=============================================================================
