------------------------------ MODULE FileActions ------------------------------
(* connectors/file: entries of a directory or of an S3 bucket.  A put is    *)
(* written aside and renamed, or handed to S3 as one object.                *)
EXTENDS ActionRow

List == Read("entry", {})
Stat == Read("entry", {"key"})
Get  == Read("entry", {"key"})
GetToFile == [Read("entry", {"key", "out"}) EXCEPT !.saves = TRUE]
Put == [Replace("entry", {"key"}) EXCEPT !.oneOf = {"src", "content"},
    !.set = {"src", "content"}, !.always = {"content_type"}, !.refills = {"content_type"}]
\* Removing what is not there is no error.
DeleteEntry == Delete("entry", {"key"})
Search      == Read("entry", {"pattern"})
Presign     == Read("entry", {"key"})

Rows == {List, Stat, Get, GetToFile, Put, DeleteEntry, Search, Presign}
================================================================================
