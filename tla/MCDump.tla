-------------------------------- MODULE MCDump --------------------------------
(* Model-checking module for Dump: the values that a cfg cannot write. *)
EXTENDS Dump

\* Every kind of source, three cursors and more in the heap; and no source.
MixedSelections ==
    {<<>>, <<"kmsg", "journal">>, <<"file", "file", "dmesg", "journal">>}

\* In order, out of order, refused in the middle, a time JSON cannot hold.
MixedContents == {<<>>, <<2, 1, 2>>, <<3, Bad>>, <<0, Far>>}

\* No bounds, and bounds that leave out the earliest and the latest lines.
NoneOrBoth == {<<0, 0>>, <<1, 2>>}
=============================================================================
