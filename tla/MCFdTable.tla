------------------------------ MODULE MCFdTable ------------------------------
(* Model-checking instance of FdTable.  The ghost "last" only records the  *)
(* call a step made and no action reads it, so states that differ only in *)
(* it behave alike: the view leaves it out, and so does the ghost taken,  *)
(* which only the pipe-read property reads.  Every property reads last'    *)
(* of the step being checked, never the stored last.                       *)
EXTENDS FdTable

(* The contents of testbin/text.txt, cut to the MaxData bound.           *)
MCMountText == <<1>>

StateView == <<fdArray, inodes, bufs, dentry, cwd, opening, reading, panicked>>

(* The pipe-read run's property reads the ghost taken, so its view keeps  *)
(* it (it is bounded by MaxData).                                         *)
FifoView == <<fdArray, inodes, bufs, dentry, cwd, opening, reading, panicked, taken>>
=============================================================================
