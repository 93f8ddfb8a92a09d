----------------------------- MODULE MCRandRead -----------------------------
(* Instances of RandRead. *)
EXTENDS RandRead, TLC

\* No file, one file, equal files, a shorter and a longer last file, and a last
\* file that is not longer than one read.
SomeLists == {<<>>, <<4>>, <<4, 4>>, <<2, 4>>, <<3, 4>>, <<4, 3>>, <<4, 2>>}
AioLists == {<<4>>, <<4, 4>>}
AllModes == {"serial", "conc", "aio", "other"}
AioMode == {"aio"}
=============================================================================
