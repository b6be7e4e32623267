----------------------------- MODULE MCZipUpdateMt -----------------------------
(* The lists of items on which ZipUpdateMt is checked.                      *)
EXTENDS ZipUpdateMt

\* Two and three files, with what the main thread writes or skips between them.
MCItemLists ==
  {<<"file", "file", "file">>, <<"direct", "file", "absent", "file">>}

\* Two files: enough for the error of a restriction to be dropped.
MCShortList == {<<"file", "file">>}
===============================================================================
