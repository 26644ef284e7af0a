------------------------------ MODULE MCSegments ------------------------------
(***************************************************************************)
(* Instance of Segments for TLC: five rows in chunks of three, the last    *)
(* one short; rows the API rejects in both, one absent, one that may not   *)
(* marshal.                                                                *)
(***************************************************************************)
EXTENDS Segments

MCBad == {1, 3}
MCSpoilt == {4}
MCPresent == {1, 2, 4}

\* No id, and an id.
MCSegmentIDs == {0, 1}

\* With seconds of 4 in 6 bits: absent, 8, and 36, 64 and 72, which wrap to -28,
\* to 0 and to 8.
MCHeaders == {0, 2, 9, 16, 18}
===============================================================================
