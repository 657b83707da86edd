---------------------------- MODULE MCSqliteStore ----------------------------
(* Batches for SqliteStore: two sections and two chunk hashes, and a batch  *)
(* in which a section comes twice, as two files of one region give it; and  *)
(* a statement of every kind of the schema script.                          *)
EXTENDS SqliteStore

CONSTANTS s1, s2, h1, h2

MCKeys == {s1, s2, h1, h2}
MCBatches == {<<s1, s2, h1, h2>>, <<s2, s2, h1>>}

Statement(creates, with, needs, claims) == [creates |-> creates, with |-> with, needs |-> needs, claims |-> claims]
FullDataColumns == {"ApplyToParent", "ApplyToChildren", "NorthAdjData"}

MCScript == <<
  Statement("FullData", FullDataColumns, {}, {}),
  Statement("FullDataApplyToChildrenIndex", {}, {"ApplyToChildren"}, {}),
  Statement("ChunkHash", {}, {}, {}),
  Statement("0080", {}, {}, {"ApplyToChildren"}),
  Statement("0090", {}, {}, {"NorthAdjData"})>>

MCRowColumns == {"FullData", "ApplyToParent", "ApplyToChildren", "ChunkHash"}

(* No file, the file of a complete run, and files of Distant Horizons from  *)
(* before 0080 and from before 0090.                                        *)
Complete == UNION {{MCScript[n].creates} \cup MCScript[n].with : n \in DOMAIN MCScript}
MCCatalogs == {{}, Complete, {"FullData", "ApplyToParent", "ChunkHash"},
               {"FullData", "ApplyToParent", "ApplyToChildren", "ChunkHash", "0080"}}
==============================================================================
