------------------------- MODULE MCDirectoryPublish -------------------------
(* Small instances of the directory publication for TLC. *)
EXTENDS DirectoryPublish

\* the third attempt asks for a file the first two did not have
MCNewFile == {pair \in Attempt \X Attempt : pair[1] = 3 => pair[2] = 3}
=============================================================================
