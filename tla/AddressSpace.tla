---------------------------- MODULE AddressSpace ----------------------------
(***************************************************************************)
(* What an address space promises: a partial map from pages to frames.    *)
(* Mapping an unmapped page to a frame, pointing a mapped page at another  *)
(* frame, and unmapping a mapped page are the only changes; every failing  *)
(* call (already mapped, not mapped, out of frames) and every flag update  *)
(* leaves the map as it was.                                               *)
(***************************************************************************)
CONSTANTS Pages, Frames, NoFrame

VARIABLE mapping  \* mapping[p]: the frame page p translates to, or NoFrame

Map(p, f) ==
  /\ mapping[p] = NoFrame
  /\ mapping' = [mapping EXCEPT ![p] = f]

Retarget(p, f) ==
  /\ mapping[p] # NoFrame
  /\ mapping' = [mapping EXCEPT ![p] = f]

Unmap(p) ==
  /\ mapping[p] # NoFrame
  /\ mapping' = [mapping EXCEPT ![p] = NoFrame]

Init == mapping = [p \in Pages |-> NoFrame]

Next ==
  \E p \in Pages : Unmap(p) \/ \E f \in Frames : Map(p, f) \/ Retarget(p, f)

Spec == Init /\ [][Next]_mapping
=============================================================================
