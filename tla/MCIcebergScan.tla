---------------------------- MODULE MCIcebergScan ----------------------------
(* Files of two rows with different keys in two partitions and that of null.   *)
EXTENDS IcebergScan

MCContents == {<<1, 2>>}
MCPartitions == {"a", "b", "null"}
MCWheres == {MCPartitions, {"a"}}
=============================================================================
