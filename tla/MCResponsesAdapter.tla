------------------------- MODULE MCResponsesAdapter -------------------------
(* Small streams for ResponsesAdapter.                                       *)
EXTENDS ResponsesAdapter
=============================================================================
