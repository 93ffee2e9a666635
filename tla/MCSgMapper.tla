----------------------------- MODULE MCSgMapper -----------------------------
(* Pages of 4 bytes; buffers at every alignment in two pages, of up to     *)
(* MaxCount bytes: none, one, two and up to five pages.                    *)
EXTENDS SgMapper

CONSTANT MaxCount

MCStarts == 0..2 * PAGE_SIZE - 1
MCCounts == 0..MaxCount
============================================================================
