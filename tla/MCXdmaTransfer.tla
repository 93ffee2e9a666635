--------------------------- MODULE MCXdmaTransfer ---------------------------
(***************************************************************************)
(* Scatterlists for XdmaTransfer: pages of PAGE_SIZE bytes, each either    *)
(* next to the previous one in bus memory or apart from it, any offset in  *)
(* the first page and any end in the last.                                 *)
(***************************************************************************)
EXTENDS XdmaTransfer

CONSTANT MaxMerge   \* pages the IOMMU may merge into one entry

(* Bytes of entry e of n: a partial first and last page, whole pages       *)
(* between; the second entry may be several merged pages.                  *)
LenOf(n, e, offset, tail, merged) ==
  IF n = 1 THEN tail
  ELSE IF e = 0 THEN PAGE_SIZE - offset
  ELSE IF e = n - 1 THEN tail
  ELSE IF e = 1 THEN merged * PAGE_SIZE
  ELSE PAGE_SIZE

(* The list: gap[e] says whether entry e is apart from entry e - 1.        *)
List(n, offset, tail, merged, gap) ==
  LET len(e) == LenOf(n, e, offset, tail, merged)
      at[e \in 0..n - 1] ==
        IF e = 0 THEN [addr |-> offset, pos |-> 0]
        ELSE [addr |-> at[e - 1].addr + len(e - 1) +
                       (IF gap[e] THEN PAGE_SIZE ELSE 0),
              pos  |-> at[e - 1].pos + len(e - 1)]
  IN  [e \in 0..n - 1 |-> [addr |-> at[e].addr, len |-> len(e),
                           pos |-> at[e].pos]]

MCSGLs ==
  UNION {{List(n, offset, tail, merged, gap) :
            offset \in 0..PAGE_SIZE - 1, tail \in 1..PAGE_SIZE,
            merged \in 1..MaxMerge, gap \in [1..n - 1 -> BOOLEAN]} :
         n \in 1..MaxEntries}

MCDescBuses == {0, FETCH_PAGE}
MCEpAddrs == {0, WORD - 3}
============================================================================
