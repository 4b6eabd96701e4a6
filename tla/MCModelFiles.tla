---------------------------- MODULE MCModelFiles ----------------------------
(***************************************************************************)
(* Small instances of ModelFiles for TLC: two source files, and the name   *)
(* of a file that is not one.                                              *)
(***************************************************************************)
EXTENDS ModelFiles

Sources == {"config", "weights"}
MCNames == Sources \cup {"stray"}

AllAs(names, bytes) == [n \in names |-> bytes]

\* Nothing recorded; all of the revision; other bytes; a file this build does not fetch.
EmptyOrFull == {<<>>, AllAs(Sources, "pinned"), AllAs(Sources, "other"), AllAs(MCNames, "pinned")}

\* Written for a build that fetched one file less.
OneHash == {AllAs({"config"}, "pinned")}
=============================================================================
