--------------------------- MODULE MCH2cTransfer ---------------------------
(* Pages of 4 bytes; buffers at every alignment in two pages, of up to     *)
(* MaxCount bytes: none, one, two and up to five pages.  The file position *)
(* is 0 or close to where an address outgrows a word.                      *)
EXTENDS H2cTransfer

CONSTANT MaxCount

MCStarts == 0..2 * PAGE_SIZE - 1
MCCounts == 0..MaxCount
MCDescBuses == {0, FETCH_PAGE}
MCEpAddrs == {0, WORD - 3}
============================================================================
