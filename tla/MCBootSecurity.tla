---------------------------- MODULE MCBootSecurity ----------------------------
(***************************************************************************)
(* A board with three key slots, two rows per key, and two signing keys.     *)
(* Image a is signed with key A, b with key B; x is not signed.  aBad is   *)
(* signed with A but does not start.                                       *)
(***************************************************************************)
EXTENDS BootSecurity, TLC

CONSTANTS A, B, a, b, x, aBad, y1, y2, s0, s1, s2, glitch, debug

\* Key A uses both rows; the first word of key B is zero.
MCWord == (A :> (0 :> 5 @@ 1 :> 6)) @@ (B :> (0 :> 0 @@ 1 :> 7))
MCKeyOf == [i \in Images |-> CASE i = b -> B [] i = x -> NoKey [] OTHER -> A]
MCWordRows == {0, 1}
MCFlagCopies == 1..3
MCCritCopies == 1..4
MCLockBits == {"secure", "bootsel"}

\* Key slots, the bytes of a lock row and hardening bits are interchangeable.
BoardSymmetry == Permutations(Slots) \cup Permutations(LockBytes) \cup Permutations(HardBits)
=============================================================================
