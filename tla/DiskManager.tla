----------------------------- MODULE DiskManager -----------------------------
(***************************************************************************)
(* DiskManager (src/manager/disk_manager.cpp): one file holding page       *)
(* images back to back.  `extent` is the set of pages the file reaches,    *)
(* `page[p]` the image at offset p * PAGE_SIZE.  A write past the end      *)
(* leaves a hole that reads as zero bytes; a read past the end (or of a    *)
(* file that does not exist) delivers nothing and leaves the caller's      *)
(* buffer with whatever it held.                                           *)
(***************************************************************************)
EXTENDS Integers

CONSTANTS
    MaxPages,   \* bound: page ids are 0 .. MaxPages - 1
    Zero        \* the image of PAGE_SIZE zero bytes

PageId == 0 .. MaxPages - 1

EmptyFile == [extent |-> {}, page |-> [p \in PageId |-> Zero]]

WritePage(file, p, data) ==
    [extent |-> file.extent \cup 0 .. p,
     page   |-> [file.page EXCEPT ![p] = data]]

\* Mutant: the last page of the file counts as past its end.
ReadPageShortOfEnd(file, p, buf) ==
    IF p + 1 \in file.extent THEN file.page[p] ELSE buf

\* What a buffer that held `buf` holds after ReadPage(p, buf).
ReadPage(file, p, buf) == IF p \in file.extent THEN file.page[p] ELSE buf
==============================================================================
