----------------------------- MODULE MCFsStages -----------------------------
(* Constants for checking FsStages: a container of two volumes and one of   *)
(* one, two goroutines of a pool, every stage.                              *)
EXTENDS FsStages

CONSTANTS v1, v2, v3, w1, w2

MCKinds == {"ntfs", "exfat", "fat", "ext", "apfs", "hfsplus", "btrfs"}
MCNtfs == {"ntfs"}
MCApfs == {"apfs"}
MCContainers == {{v1, v2}, {v3}}
MCFast == {v1}
MCWorkers == {w1, w2}
=============================================================================
