--------------------------- MODULE MCMethodCache ----------------------------
(***************************************************************************)
(* Two domains, two GETPUBMET instructions and three classes.  The methods *)
(* have other places in other classes, and a place in the largest table is *)
(* beyond the end of the smallest.                                         *)
(***************************************************************************)
EXTENDS MethodCache

MCTags ==
  [c \in Class |-> CASE c = "one" -> <<6>>
                     [] c = "three" -> <<-1, 4, 6>>
                     [] c = "five" -> <<-3, -1, 2, 4, 6>>]

MCFit == [c \in Class |-> fit_size[Len(MCTags[c])]]
MCSiteTag == [s \in Site |-> IF s = "last" THEN 6 ELSE 4]
=============================================================================
