--------------------------- MODULE MCRecordStream ---------------------------
(***************************************************************************)
(* Chunks of two bytes, tags of two, two chunk indices, a store that       *)
(* serves at most a full chunk and a short one.  The records: no segment,  *)
(* an empty one, exactly one chunk, a chunk and a part, two full chunks    *)
(* (over the store's ceiling), one byte more than can be sealed, two       *)
(* segments, and two segments that together pass the reassembly ceiling.   *)
(***************************************************************************)
EXTENDS RecordStream

MCLengths == {<<>>, <<0>>, <<2>>, <<3>>, <<4>>, <<5>>, <<2, 1>>, <<3, 2>>}

MCRoutes == {<<"http", "file">>, <<"dir", "discard">>}
=============================================================================
