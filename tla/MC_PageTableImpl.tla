-------------------------- MODULE MC_PageTableImpl --------------------------
(* The pages and frames of MC_Sv39Mapper, with the hardware walking and    *)
(* caching the active table.                                               *)
EXTENDS PageTableImpl

MCPages == {<<0, 0, 0>>, <<0, 0, 1>>, <<0, 1, 0>>, <<1, 0, 0>>}
MCJunk == [i \in Idx |-> [ppn |-> 10, flags |-> {"V", "R", "W", "A", "D"}]]
MCMapFlags == {{"V", "R", "W"}}
MCUpdateFlags == {{"V", "R"}}

\* set_present: VALID and READABLE together
MCEntryBits == {{"V", "R"}}
=============================================================================
