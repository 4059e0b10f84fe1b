---------------------------- MODULE MCFat32Entry ----------------------------
(* Names for Fat32Entry as code-point sequences.                          *)
EXTENDS Fat32Entry

a == 97
b == 98
x == 120

(* "a", "Ab.c", "abcdefgh.TXT" (the longest 8.3 name), "x.MD".            *)
MCShortNames ==
    { <<a>>, <<65, b, Dot, 99>>,
      <<a, b, 99, 100, 101, 102, 103, 104, Dot, 84, 88, 84>>,
      <<x, Dot, 77, 68>> }

MCDotNames == { <<Dot>>, <<Dot, Dot>> }

(* "ab", "hé中" (2- and 3-byte UTF-8), thirteen units that fill *)
(* the entry, and "naïveÿ" with a unit whose low byte is 0xFF. *)
MCLongNames ==
    { <<a, b>>, <<104, 233, 20013>>, [k \in 1..13 |-> IF k = 7 THEN 20013 ELSE x],
      <<110, a, 239, 118, 101, 255>> }

(* "hé中" decodes; "naïveÿ" is the one with 0xFF.     *)
MCLongNamesFF == { <<104, 233, 20013>>, <<110, a, 239, 118, 101, 255>> }

MCClusters == {2, 180097588}
(* TLC's integers stop at 2^31 - 1, the largest length checked. *)
MCLengths == {0, 1, 2147483647}
====
