--------------------------- MODULE MCVolumeReaders ---------------------------
(* Inputs of all the readers of VolumeReaders.                              *)
EXTENDS VolumeReaders, MCVolumeInputs, MCCarveSize, MCMftScan, MCEncryptedVolume, MCFileSources
=============================================================================
