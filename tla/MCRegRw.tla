------------------------------ MODULE MCRegRw ------------------------------
(***************************************************************************)
(* A bus of ULONG = 32 addresses and pages of 4 bytes.  BARs as PCI allows *)
(* them, at a multiple of their size: absent, smaller than a page, smaller *)
(* than MAP_SIZE, of MAP_SIZE and twice as long, up to the last address.   *)
(* The targets lie inside, across the end, behind the end and across the   *)
(* start of what reg_rw maps (30 is -2).                                   *)
(***************************************************************************)
EXTENDS RegRw

MCBytes == 0..2
MCContents == [a \in Addresses |-> a % 3]
MCBars ==
  {[start |-> 0, end |-> 0], [start |-> 2, end |-> 3], [start |-> 4, end |-> 7],
   [start |-> 8, end |-> 15], [start |-> 16, end |-> 31]}

Data == [k \in 0..3 |-> IF k = 3 THEN 0 ELSE 2 - k]
Call(argc, target, type) ==
  [argc |-> argc, target |-> target, type |-> type, data |-> Data]

MCCalls ==
  {Call(2, 0, "w")}
    \cup {Call(3, target, "b") : target \in {0, 4}}
    \cup {Call(argc, target, type) : argc \in {4, 5}, target \in {0, 4, 6, 8, 30},
                                     type \in {"b", "h", "w", "x"}}

MCElsewhere == {[k \in 0..3 |-> 0], [k \in 0..3 |-> (k + 1) % 3]}

MCRequests == {[pgoff |-> g, size |-> s] : g \in {0, 1, 3, 4}, s \in {1, 8, 16}}
============================================================================
