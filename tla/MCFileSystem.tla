---------------------------- MODULE MCFileSystem ----------------------------
(***************************************************************************)
(* FileSystem with a handful of inodes and blocks of four units.           *)
(***************************************************************************)
EXTENDS FileSystem

CONSTANTS u, v

MCBegins == {<<"ab", "a">>}
MCSubDirs == <<>>
MCHelloText == <<u>>
MCTexts == {<<v, u, v>>}

\* States that differ only in what no command reads again (inodes and blocks
\* that no name leads to, and the units of a block behind its inode's size,
\* which are written before the size grows over them) are one state for TLC.
InUse == IF disk.magic THEN {FATHER} \union Below(ROOT) ELSE {}
View == <<up, cwd, list, path, disk.magic, disk.inodeBits, disk.blockBits,
          [x \in InUse |-> <<GetInode(disk, x), GetInodeData(disk, x)>>]>>
============================================================================
