---------------------------- MODULE MCChannelQueue ----------------------------
(***************************************************************************)
(* Instance of ChannelQueue for TLC: more callers than the buffer has room *)
(* for, two closers that may overlap, one consumer of each kind.  The sets *)
(* of calls are model values given in the .cfg files.                      *)
(***************************************************************************)
EXTENDS ChannelQueue
===============================================================================
