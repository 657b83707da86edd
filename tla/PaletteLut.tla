------------------------------ MODULE PaletteLut ------------------------------
(***************************************************************************)
(* GlobalPaletteLut: the material of a block by its name, from a table     *)
(* built once and, for names that are not in it, from fragments of the     *)
(* name.                                                                   *)
(*                                                                         *)
(* A name is [space, base, parts]: the namespace, "" if there is none, the *)
(* rest, and those of the fragments below that occur in it.  A material is *)
(* what runs are compared by, colour and flags, written as a word.         *)
(***************************************************************************)
EXTENDS Integers, Sequences, FiniteSetsExt, SequencesExt

CONSTANT Registrations  \* the table: the names of a namespace with their materials

Air == "air"

(* name.strip_prefix("minecraft:") *)
CleanSpace(name) == IF name.space = "minecraft" THEN "" ELSE name.space

(* register: an entry is found by its name and by its stripped name; a     *)
(* later entry of the same name replaces an earlier one.                   *)
Register(name_to_id, entry) ==
  [key \in {<<entry.space, entry.base>>, <<CleanSpace(entry), entry.base>>} |-> entry.material] @@ name_to_id
Lut == FoldLeft(Register, <<>>, Registrations)

(* A name is looked up as it stands, then stripped. *)
KeyOfName(name) ==
  IF <<name.space, name.base>> \in DOMAIN Lut THEN <<name.space, name.base>> ELSE <<CleanSpace(name), name.base>>
InTable(name) == KeyOfName(name) \in DOMAIN Lut

(* The guesses for an unknown or modded block; the first that fits is made.*)
Guesses == <<
  [parts |-> {"leaves"}, material |-> "leaves"],
  [parts |-> {"wood", "log", "plank", "stem"}, material |-> "wood"],
  [parts |-> {"water"}, material |-> "water"],
  [parts |-> {"lava", "fire"}, material |-> "lava"],
  [parts |-> {"sand"}, material |-> "sand"],
  [parts |-> {"grass", "dirt", "soil"}, material |-> "soil"],
  [parts |-> {"glass", "air", "void"}, material |-> Air]>>

Guess(name) ==
  LET fits == {n \in DOMAIN Guesses : Guesses[n].parts \cap name.parts # {}}
  IN  IF fits = {} THEN "stone" ELSE Guesses[Min(fits)].material

get_material_by_name(name) == IF InTable(name) THEN Lut[KeyOfName(name)] ELSE Guess(name)
==============================================================================
