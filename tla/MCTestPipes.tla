----------------------------- MODULE MCTestPipes -----------------------------
(***************************************************************************)
(* Two tests, whose inputs together fit into a pipe or not.                *)
(***************************************************************************)
EXTENDS TestPipes

Course(kind, n, talks) == [kind |-> kind, talks |-> talks, size |-> [t \in Tests |-> n]]

MCCourses == {Course("stdin", 1, FALSE), Course("script", 2, FALSE),
              Course("fragments", 2, FALSE), Course("fragments", 1, TRUE)}
=============================================================================
