----------------------------- MODULE MCSPSCQueue -----------------------------
(***************************************************************************)
(* Instances of SPSCQueue for TLC.  The buffer wraps several times.        *)
(***************************************************************************)
EXTENDS SPSCQueue, Bitwise

(* The mask trick of lines 35, 45 and 66: for a power of two, x & (c - 1) is
   x % c. *)
ASSUME MaskIsModulo ==
    \A c \in {1, 2, 4, 8, 16} : \A x \in 0 .. 40 : (x & (c - 1)) = x % c
==============================================================================
