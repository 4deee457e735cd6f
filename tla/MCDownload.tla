----------------------------- MODULE MCDownload -----------------------------
(* Instances of Download for TLC. *)
EXTENDS Download

\* One download of a file, and another of the same after it.
First == [id |-> 1, key |-> "g/f", dest |-> "path", content |-> "f"]
Again == [First EXCEPT !.id = 2]

\* A download of another file to the same destination.
Sideways == [id |-> 3, key |-> "g/h", dest |-> "path", content |-> "h"]

OneJob == {First}
TwoJobs == {First, Again}
SameDestination == {First, Sideways}

=============================================================================
