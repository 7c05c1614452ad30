---------------------------- MODULE Subsequences ----------------------------
(***************************************************************************)
(* The loops that go through a queue and keep some of its elements.  The   *)
(* elements to keep are given by their positions.  This is what SelectSeq  *)
(* computes, written as a recursive function of the position so that it    *)
(* can be reasoned about.                                                  *)
(***************************************************************************)
EXTENDS Integers, Sequences

\* What has been kept of s when its first i elements have been looked at.
KeptOf(s, I) ==
  LET kept[i \in 0 .. Len(s)] ==
        IF i = 0 THEN <<>>
        ELSE IF i \in I THEN Append(kept[i - 1], s[i]) ELSE kept[i - 1]
  IN  kept

\* The elements of s at the positions in I, in the order of s.
Selected(s, I) == KeptOf(s, I)[Len(s)]

=============================================================================
