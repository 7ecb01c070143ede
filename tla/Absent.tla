-------------------------------- MODULE Absent --------------------------------
(* The value of what is not there, shared by the modules that are composed. *)
CONSTANT None
=============================================================================
