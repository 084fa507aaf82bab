---------------------------- MODULE MCBootMarkers -----------------------------
(* Two segments, three page tables, two CR3 values, every build and scenario. *)
EXTENDS BootMarkers

CONSTANTS c1, c2

MCBuilds == {"release", "exit", "handoff", "table_failure", "cpu_failure"}
MCCr3Values == {c1, c2}
=============================================================================
