--------------------------- MODULE MC_Sv39Mapper ---------------------------
(* Two indices per level; four pages that share a middle table, share a    *)
(* leaf table, and use a root entry of their own; three frames for the     *)
(* five tables a full tree of them needs, so that allocation fails.        *)
EXTENDS Sv39Mapper

MCPages == {<<0, 0, 0>>, <<0, 0, 1>>, <<0, 1, 0>>, <<1, 0, 0>>}

\* a recycled frame: every entry still a valid read-write mapping
MCJunk == [i \in Idx |-> [ppn |-> 10, flags |-> {"V", "R", "W", "A", "D"}]]

MCMapFlags == {{"V", "R", "W"}}
\* read-only, and read-only without VALID (what set_present(false) leaves)
MCUpdateFlags == {{"V", "R"}, {"R"}}
=============================================================================
