----------------------------- MODULE Agreements -----------------------------
(***************************************************************************)
(* The plans of a project or an event next to what its members propose one *)
(* by one: the same people, members and workers, and no shared state.      *)
(***************************************************************************)
EXTENDS Plans

CONSTANTS Scheme, Fields, Texts, Labels, MaxRequests, MaxRows   \* of Proposals

VARIABLES text, requests, proposal, values, weights, editJob

Edits == INSTANCE Proposals WITH Owner <- Kind, job <- editJob

(* One request at a time, an edit that passes replaces the text its        *)
(* proposer was shown (projects/phases/edit_requests.py:65-84).            *)
EditsNeverUndo == [][Edits!EditsNeverUndo]_(Edits!vars)
=============================================================================
