------------------------ MODULE MCTimelineWorkflows ------------------------
(* A small instance of TimelineWorkflows for TLC. *)
EXTENDS TimelineWorkflows
=============================================================================
