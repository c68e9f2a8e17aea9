---------------------------- MODULE Subsequences ----------------------------
(* What is left of a queue when some of its entries are taken out.          *)
EXTENDS Naturals, Sequences

\* The entries of s at the indices in I, in their order in s, by the length of
\* the prefix of s they are taken from.
Upto(s, I) ==
    LET upto[n \in 0 .. Len(s)] ==
          IF n = 0 THEN <<>>
          ELSE IF n \in I THEN Append(upto[n - 1], s[n])
          ELSE upto[n - 1]
    IN  upto

Entries(s, I) == Upto(s, I)[Len(s)]
=============================================================================
