------------------------ MODULE MCCourseGeneration ------------------------
(* Two slots, two workers, two chapters of which the second depends on the  *)
(* first, and a teacher who approves both for an old course or the first     *)
(* alone for a new one.                                                      *)
EXTENDS CourseGeneration, TLC
CONSTANTS t1, t2, w1, w2
MCOutlines == {(0 :> {}) @@ (1 :> {0})}
MCRequests == {[chapters |-> {0, 1}, course |-> 0], [chapters |-> {0}, course |-> NoCourse]}
MCSymmetry == Permutations(Task) \cup Permutations(Worker)
=============================================================================
