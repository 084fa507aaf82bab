---------------------------- MODULE MCBootPipeline ----------------------------
(* Two segments, three page tables, two CR3 values, every build of the loader *)
(* and up to two map changes after the first capture.                         *)
EXTENDS BootPipeline

CONSTANTS c1, c2

MCBuilds == {"release", "exit", "handoff", "table_failure", "cpu_failure"}
MCCr3Values == {c1, c2}
=============================================================================
