----------------------------- MODULE MCParental -----------------------------
(* Instances of Parental for TLC, and the bugs its properties catch. *)
EXTENDS Parental

\* A card without the file, and one on which somebody failed twice already.
FileSet ==
  {Absent, [code |-> [i \in 1 .. CodeLen |-> "cup"], failures |-> 2,
            sched |-> [Absent.sched EXCEPT !.hours = TRUE]]}

=============================================================================
