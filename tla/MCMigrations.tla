----------------------------- MODULE MCMigrations -----------------------------
(* Small instances of Migrations for TLC.                                  *)
EXTENDS Migrations, TLC

CONSTANTS good, edited, bad

F(v, c) == [version |-> v, checksum |-> c]

MCVersions  == 1..3
MCChecksums == {good, edited, bad}
MCBroken    == {bad}

(* The current release, an older one, one that lacks a version in between, *)
(* one with an edited file, one whose last file fails, one with two files  *)
(* of one version.                                                         *)
Current   == {F(1, good), F(2, good), F(3, good)}
Older     == {F(1, good), F(2, good)}
Branch    == {F(1, good), F(3, good)}
Edited    == {F(1, good), F(2, edited)}
Failing   == {F(1, good), F(2, bad)}
Duplicate == {F(1, good), F(1, edited)}

ManyBuilds == {Current, Older, Branch, Edited, Failing, Duplicate}
TwoBuilds  == {Older, Failing}

Symmetry == Permutations(Instances)
===============================================================================
