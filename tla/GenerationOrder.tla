--------------------------- MODULE GenerationOrder ---------------------------
(***************************************************************************)
(* The comparison inside the Lua script APPLY_GENERATION.  Generations     *)
(* reach Redis as decimal strings (bigint.toString()), and a Lua number    *)
(* would lose the low digits of a large one, so the script compares the    *)
(* lengths first and then the strings.  CommentCache uses g > h; this      *)
(* module defines what the script computes.                                *)
(***************************************************************************)
EXTENDS Integers, Sequences

\* bigint.toString(): decimal digits, no leading zeros.
Decimal(g) ==
    LET digits[n \in 0..g] ==
            IF n < 10 THEN <<n>> ELSE Append(digits[n \div 10], n % 10)
    IN  digits[g]

\* Lua's > on two strings: the first difference decides, then the length.
StringAfter(s, t) ==
    \E i \in 1..Len(s) :
        /\ i <= Len(t) => s[i] > t[i]
        /\ \A j \in 1..(i - 1) : j <= Len(t) => s[j] = t[j]

\* Mutant: the strings are compared without their lengths.
ReplacesByString(s, t) == t = << >> \/ StringAfter(s, t)

\* The condition of the script; t is << >> when the key is absent.
Replaces(s, t) ==
    \/ t = << >>
    \/ Len(s) > Len(t)
    \/ Len(s) = Len(t) /\ StringAfter(s, t)
=============================================================================
