------------------------------ MODULE WildMatch ------------------------------
(***************************************************************************)
(* fast_wild_match: a string against a pattern in which an asterisk stands *)
(* for any bytes and a question mark for one byte.  One pass over both,    *)
(* that goes back no further than to the last asterisk.                    *)
(***************************************************************************)
EXTENDS Integers, Sequences, SequencesExt

CONSTANTS
  Asterisk, QuestionMark,  \* as code points and as bytes
  End,                     \* behind the last byte
  Bytes                    \* Bytes[c]: the bytes of code point c

Utf8(s) == FlattenSeq([n \in DOMAIN s |-> Bytes[s[n]]])

\* Positions are counted from 0, as in the code.
At(s, n) == IF n < Len(s) THEN s[n + 1] ELSE End

\* Past the asterisks at n.
RECURSIVE PastStars(_, _)
PastStars(wild, n) == IF At(wild, n) = Asterisk THEN PastStars(wild, n + 1) ELSE n

\* Mutant: only the byte at hand may continue the match.
ResumeHere(tame, wild, n, star) ==
  IF n < Len(tame) /\ At(wild, star) \in {QuestionMark, At(tame, n)} THEN n ELSE End

\* From an asterisk on: the next byte that continues the match, or none.
Resume(tame, wild, n, star) ==
  LET fits == {m \in n..(Len(tame) - 1) : At(wild, star) \in {QuestionMark, At(tame, m)}}
  IN IF fits = {} THEN End ELSE CHOOSE m \in fits : \A k \in fits : m <= k

\* i_tame, i_wild, i_last and i_star of the loop; no asterisk yet is star 0.
RECURSIVE Scan(_, _, _, _, _, _)
Scan(tame, wild, t, w, last, star) ==
  LET Continue(n, s) ==
        LET m == Resume(tame, wild, n, s)
        IN m # End /\ Scan(tame, wild, m + 1, s + 1, m, s)
  IN CASE t >= Len(tame)              -> PastStars(wild, w) >= Len(wild)
       [] At(wild, w) = QuestionMark  -> Scan(tame, wild, t + 1, w + 1, last, star)
       [] At(wild, w) = Asterisk      ->
            PastStars(wild, w) >= Len(wild) \/ Continue(t, PastStars(wild, w))
       [] At(wild, w) = At(tame, t)   -> Scan(tame, wild, t + 1, w + 1, last, star)
       [] OTHER                       -> star # 0 /\ Continue(last + 1, star)

FastWildMatch(tame, wild) == Scan(Utf8(tame), Utf8(wild), 0, 0, 0, 0)

-----------------------------------------------------------------------------
\* What a pattern means, on code points.
RECURSIVE WildMeans(_, _)
WildMeans(s, pattern) ==
  IF pattern = <<>> THEN s = <<>>
  ELSE IF Head(pattern) = Asterisk
  THEN \E n \in 0..Len(s) : WildMeans(SubSeq(s, n + 1, Len(s)), Tail(pattern))
  ELSE /\ s # <<>> /\ Head(pattern) \in {QuestionMark, Head(s)}
       /\ WildMeans(Tail(s), Tail(pattern))
=============================================================================
