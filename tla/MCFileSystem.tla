---------------------------- MODULE MCFileSystem ----------------------------
(* FileSystem for TLC: the constants have their values in the .cfg files.  *)
EXTENDS FileSystem
=============================================================================
