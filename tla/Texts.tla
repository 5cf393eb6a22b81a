-------------------------------- MODULE Texts ---------------------------------
(***************************************************************************)
(* Texts as sequences of characters or tokens, of which "sp" is a blank.   *)
(***************************************************************************)
EXTENDS Integers, Sequences

Blank(str) == \A i \in 1 .. Len(str) : str[i] = "sp"

\* trim of util.h; a text of blanks becomes empty.
Trim(str) ==
  LET solid == {i \in 1 .. Len(str) : str[i] # "sp"}
  IN  IF solid = {} THEN <<>>
      ELSE SubSeq(str, CHOOSE i \in solid : \A k \in solid : i <= k,
                       CHOOSE i \in solid : \A k \in solid : k <= i)

\* What is left of a text when every c is taken out.
Without(str, c) ==
  LET kept[n \in 0 .. Len(str)] ==
        IF n = 0 THEN <<>>
        ELSE IF str[n] = c THEN kept[n - 1] ELSE Append(kept[n - 1], str[n])
  IN  kept[Len(str)]

\* The texts one behind the other.
Concat(seqs) ==
  LET all[n \in 0 .. Len(seqs)] == IF n = 0 THEN <<>> ELSE all[n - 1] \o seqs[n]
  IN  all[Len(seqs)]
===============================================================================
