--------------------------- MODULE MCControlStreams ---------------------------
(* Instances of ControlStreams for TLC. *)
EXTENDS ControlStreams

\* A job with two files of one base name, one with a gap, and one without a file.
MCJobs == {<< <<"d", "a">>, <<"e", "a">> >>, << <<"b">>, <<>>, <<"a">> >>, <<>>}
MCWanted == {<<"a">>, <<"b">>}
MCUploads == {<<1>>, <<2, 1>>, <<1, 0, 2>>}

\* Up to two rows, good and bad ones in either order.
MCTables == {<<>>, <<"orphan">>, <<"good", "bad">>, <<"bad", "good">>}
=============================================================================
