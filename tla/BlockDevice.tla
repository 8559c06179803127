----------------------------- MODULE BlockDevice -----------------------------
(***************************************************************************)
(* What a block device promises the kernel, whatever it is made of: a      *)
(* request is served at one instant between its issue and its end, a write *)
(* puts its sectors on the disk, a read gets the sectors as they are at    *)
(* that instant, and at most Depth requests are served but not ended.      *)
(***************************************************************************)
EXTENDS Integers, FiniteSets

CONSTANTS Reqs, Sectors, Blank, MAX_REQUEST_SECTOR_NUM, Depth

VARIABLES disk,   \* contents of each sector
          stage,  \* "new", "pending", "served" or "ended"
          attr,   \* what each request asks for
          page    \* data of each request, by sector offset

vars == <<disk, stage, attr, page>>

Offsets == 0 .. MAX_REQUEST_SECTOR_NUM - 1

Init == /\ disk = [s \in Sectors |-> Blank]
        /\ stage = [r \in Reqs |-> "new"]
        /\ page = [r \in Reqs |-> [k \in Offsets |-> IF attr[r].rw = 1 THEN r ELSE Blank]]

Issue(r) == /\ stage[r] = "new"
            /\ stage' = [stage EXCEPT ![r] = "pending"]
            /\ UNCHANGED <<disk, attr, page>>

Write(r) ==
  /\ disk' = [s \in Sectors |-> IF s - attr[r].sector \in 0 .. attr[r].count - 1
                                  THEN page[r][s - attr[r].sector] ELSE disk[s]]
  /\ UNCHANGED page

Read(r) ==
  /\ page' = [page EXCEPT ![r] =
               [k \in Offsets |-> IF k < attr[r].count THEN disk[attr[r].sector + k]
                                  ELSE page[r][k]]]
  /\ UNCHANGED disk

Serve(r) == /\ stage[r] = "pending"
            /\ Cardinality({q \in Reqs : stage[q] = "served"}) < Depth
            /\ IF attr[r].rw = 1 THEN Write(r) ELSE Read(r)
            /\ stage' = [stage EXCEPT ![r] = "served"]
            /\ UNCHANGED attr

End(r) == /\ stage[r] = "served"
          /\ stage' = [stage EXCEPT ![r] = "ended"]
          /\ UNCHANGED <<disk, attr, page>>

Next == \E r \in Reqs : Issue(r) \/ Serve(r) \/ End(r)

Spec == Init /\ [][Next]_vars
==============================================================================
