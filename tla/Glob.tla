-------------------------------- MODULE Glob --------------------------------
(***************************************************************************)
(* The pattern matcher of KEYS and SCAN (generic_cmds.cpp): glob_match() as*)
(* the loop that it is, and a reference that says what matches.  Patterns  *)
(* and names are sequences of ASCII codes.                                 *)
(***************************************************************************)
EXTENDS Integers, Sequences

Star   == 42    \* *
Dash   == 45    \* -
AnyOne == 63    \* ?
Open   == 91    \* [
Escape == 92    \* \
Shut   == 93    \* ]
Not    == {33, 94}   \* ! and ^

\* The loop over the members of a class from q on: where it ends, and whether
\* ch is among them.
ClassFrom(pat, first, ch) ==
    LET members[q \in 1 .. Len(pat) + 1, matched \in BOOLEAN] ==
          IF q > Len(pat) \/ pat[q] = Shut THEN [end |-> q, matched |-> matched]
          ELSE IF q + 2 <= Len(pat) /\ pat[q + 1] = Dash /\ pat[q + 2] # Shut
          THEN members[q + 3, matched \/ (pat[q] <= ch /\ ch <= pat[q + 2])]
          ELSE members[q + 1, matched \/ pat[q] = ch]
    IN  members[first, FALSE]

\* A class at p: whether ch is one of its characters, and what comes next.
ClassAt(pat, p, ch) ==
    LET negate == p + 1 <= Len(pat) /\ pat[p + 1] \in Not
        class  == ClassFrom(pat, p + (IF negate THEN 2 ELSE 1), ch)
    IN  [matched |-> class.matched # negate,
         next    |-> IF class.end <= Len(pat) THEN class.end + 1 ELSE class.end]

\* Mutant: the pattern has to be used up, trailing stars too.
NothingLeft(pat, p) == p > Len(pat)

\* The end of the name: whatever is left of the pattern is stars.
OnlyStarsLeft(pat, p) == \A q \in p .. Len(pat) : pat[q] = Star

\* glob_match(): after a mismatch the loop goes on behind the last star, at
\* starP, which then covers one character more; starP is 0 without a star.
GlobMatch(pat, str) ==
    LET loop[p \in 1 .. Len(pat) + 1, s \in 1 .. Len(str) + 1,
             starP \in 0 .. Len(pat), starS \in 0 .. Len(str) + 1] ==
          LET here  == p <= Len(pat)
              class == ClassAt(pat, p, str[s])
              back  == starP # 0 /\ loop[starP + 1, starS + 1, starP, starS + 1]
          IN  IF s > Len(str) THEN OnlyStarsLeft(pat, p)
              ELSE IF here /\ pat[p] \in {AnyOne, str[s]} THEN loop[p + 1, s + 1, starP, starS]
              ELSE IF here /\ pat[p] = Star THEN loop[p + 1, s, p, s]
              ELSE IF here /\ pat[p] = Open
              THEN IF class.matched THEN loop[class.next, s + 1, starP, starS] ELSE back
              ELSE IF p < Len(pat) /\ pat[p] = Escape /\ pat[p + 1] = str[s]
              THEN loop[p + 2, s + 1, starP, starS]
              ELSE back
    IN  loop[1, 1, 0, 0]

\* Reference: what "supports *, ?, [..] classes and \ escaping" means, for the
\* pattern from p on and the name from s on.
Matches(pat, str) ==
    LET rest[p \in 1 .. Len(pat) + 1, s \in 1 .. Len(str) + 1] ==
          LET class == ClassAt(pat, p, str[s])
          IN  IF p > Len(pat) THEN s > Len(str)
              ELSE IF pat[p] = Star THEN \E n \in s .. Len(str) + 1 : rest[p + 1, n]
              ELSE IF s > Len(str) THEN FALSE
              ELSE IF pat[p] = AnyOne THEN rest[p + 1, s + 1]
              ELSE IF pat[p] = Open THEN class.matched /\ rest[class.next, s + 1]
              ELSE IF pat[p] = Escape /\ p < Len(pat)
              THEN pat[p + 1] = str[s] /\ rest[p + 2, s + 1]
              ELSE pat[p] = str[s] /\ rest[p + 1, s + 1]
    IN  rest[1, 1]
=============================================================================
