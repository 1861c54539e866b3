--------------------------- MODULE MCLessonPages ---------------------------
(* A tab with two handlers at once, two classes and three sessions at most. *)
EXTENDS LessonPages

MCFlows == {"startup", "form"}
============================================================================
