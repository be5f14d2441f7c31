----------------------------- MODULE MCTaskHub -----------------------------
(* TaskHub in the environments its runs check it in.                        *)
EXTENDS TaskHub

CONSTANT k1

OneKey  == {k1}
NoKeys  == {}

(* A parent that resumes a task only when nothing of it is left running.    *)
PatientEvents == AllEvents \ {"resume_early"}

(* A parent that may resume from inside the delivery of the result, with    *)
(* nothing else out of the ordinary.                                        *)
EagerEvents == {"resume_early"}
=============================================================================
