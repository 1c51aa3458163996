--------------------------- MODULE MigrationSamples ---------------------------
(* What the loader is checked with: two directories and an embedded file      *)
(* system, with file sets that agree, repeat a name, clash or use odd widths. *)
EXTENDS MigrationFiles

File(name, digits, ver, dir, sum) ==
  [name |-> name, digits |-> digits, ver |-> ver, dir |-> dir, sum |-> sum]

Up1   == File("00000001_a.up.sql", 8, 1, "up", "s1")
Down1 == File("00000001_a.down.sql", 8, 1, "down", "s1d")
Up2   == File("00000002_b.up.sql", 8, 2, "up", "s2")
Up2x  == File("00000002_b.up.sql", 8, 2, "up", "s2x")   \* same name, other content
Up2y  == File("00000000000002_c.up.sql", 14, 2, "up", "s2y") \* same key, other name
Up3   == File("0000000003_d.up.sql", 10, 3, "up", "s3")
Short == File("004_e.up.sql", 3, 4, "up", "s4")         \* not a migration

Listing(d1, d2, e1) == [s \in {"d1", "d2", "e1"} |->
  CASE s = "d1" -> d1 [] s = "d2" -> d2 [] s = "e1" -> e1]

McListings == {
  Listing(<<Down1, Up1>>, <<Up2>>, <<Up3>>),
  Listing(<<Up3, Short>>, <<Down1, Up1>>, <<Up2>>),
  Listing(<<Down1, Up1, Up2>>, <<Up2x>>, <<>>),
  Listing(<<Up2>>, <<Down1, Up1>>, <<Up2y>>)}

(* Blank, repeated and distinct directories, with or without an embedded one. *)
McOptions == [
  dir : {NoDir, "d1"},
  dirs : {<<>>, <<"d1">>, <<"d2">>, <<NoDir, "d2">>, <<"d2", "d1">>, <<"d2", "d2">>},
  embedded : {<<>>, <<"e1">>}]

(* The one source whose directory may be missing from the disk. *)
McUnreadable == {"d2"}
=============================================================================
