----------------------------- MODULE MCColumnRle -----------------------------
(* Chunks for ColumnRle: sections of three blocks, two columns, the second  *)
(* one upside down, and every content of two sections over three materials. *)
EXTENDS ColumnRle

CONSTANTS c1, c2

MCColumns == {c1, c2}

Block(space, base, parts) == [space |-> space, base |-> base, parts |-> parts]
Entry(base, material) == [space |-> "minecraft", base |-> base, material |-> material]
MCRegistrations ==
  <<Entry("air", Air), Entry("stone", "stone"), Entry("granite", "granite"), Entry("polished_granite", "granite"),
    Entry("barrier", Air), Entry("birch_log", "birch"), Entry("glass", "glass")>>

air == Block("minecraft", "air", {"air"})
stone == Block("minecraft", "stone", {})
granite == Block("", "granite", {})
polished == Block("minecraft", "polished_granite", {})
grass == Block("mod", "grass_block", {"grass"})
barrier == Block("minecraft", "barrier", {})
logs == Block("minecraft", "birch_log", {"log"})
sandstone == Block("minecraft", "glazed_sandstone_stairs", {"sand", "air"})
stairs == Block("minecraft", "granite_stairs", {"air"})

Mixed(y, content) ==
  [y |-> y, is_empty_air |-> FALSE, palette |-> <<air, stone, grass>>,
   block |-> [c \in MCColumns |-> [rel \in Heights |->
                IF c = c1 THEN content[rel] ELSE content[SecHeight - 1 - rel]]]]
Plain(y, palette, idx) ==
  [y |-> y, is_empty_air |-> palette = <<air>>, palette |-> palette,
   block |-> [c \in MCColumns |-> [rel \in Heights |-> idx]]]

Contents == [Heights -> 0 .. 2]
Extra(y) == {Plain(y, <<stone>>, 0), Plain(y, <<air>>, 0), Plain(y, <<>>, 0), Plain(y, <<grass, stone>>, 5),
             Plain(y, <<stairs>>, 0), Plain(y, <<barrier>>, 0)}

(* Two sections in either order, next to each other or with a gap. *)
Pairs == {<<Mixed(a[1], p), Mixed(a[2], q)>> :
            a \in {<<0, 1>>, <<1, 0>>, <<-1, 1>>}, p \in Contents, q \in Contents}
Specials == {<<Mixed(0, p), x, Mixed(-1, p)>> : p \in Contents, x \in Extra(1)} \cup
            {<<x, Mixed(1, p)>> : p \in Contents, x \in Extra(0)} \cup {<<Plain(0, <<air>>, 0)>>, <<>>} \cup
            {<<Mixed(y, p)>> : y \in {-3, 3}, p \in Contents}   \* below and above the starting values

(* Names of one material, names between two guesses. *)
Renamed(y, content) == [Mixed(y, content) EXCEPT !.palette = <<granite, polished, stairs>>]
Guessed(y, content) == [Mixed(y, content) EXCEPT !.palette = <<logs, barrier, sandstone>>]
Others == {<<Renamed(0, p), Guessed(1, p)>> : p \in Contents}

MCChunks == Pairs \cup Specials \cup Others
MCStairs == {<<Renamed(0, p)>> : p \in Contents}

(* 320 and -64, in the small: a cfg has no negative numbers. *)
MCMaxStart == -4
==============================================================================
