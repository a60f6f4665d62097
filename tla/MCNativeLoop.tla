---------------------------- MODULE MCNativeLoop ----------------------------
(***************************************************************************)
(* NativeLoop for TLC: a few calls that hit every branch of dispatch.      *)
(***************************************************************************)
EXTENDS NativeLoop

Call(tool, form, path) == [tool |-> tool, form |-> form, path |-> path]

Unknown == Call("open_file", "object", <<>>)
Broken  == Call("write_file", "unparseable", <<>>)
Write   == Call("write_file", "object", <<"out", "rows.txt">>)

\* A directory of the fixture, written to as if it were a file.
WriteOver == Call("write_file", "object", <<"data">>)

MCCalls == {Unknown, Broken, Write, WriteOver}

BothModes     == {"full", "compact"}
MCDirectories == {<<"data">>}
=============================================================================
