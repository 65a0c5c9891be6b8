--------------------------- MODULE MCSampleStream ---------------------------
(***************************************************************************)
(* Instances of SdrSetup, and so of SampleStream, for TLC.  A chunk is     *)
(* longer than the overlap and no multiple of the reads that fill it; the  *)
(* reads of a file are both shorter and longer than the overlap.           *)
(***************************************************************************)
EXTENDS SdrSetup

AllDevices == {"rtl_tcp", "ifile", "SC16Q11M"}
RtlTcpOnly == {"rtl_tcp"}

MCReadSizes == [d \in Devices |-> IF d = "rtl_tcp" THEN {1, 3, 8} ELSE {2, 4, 8}]

=============================================================================
