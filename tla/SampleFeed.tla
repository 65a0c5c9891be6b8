----------------------------- MODULE SampleFeed -----------------------------
(***************************************************************************)
(* What the demodulator is promised of the sample stream, with no device,  *)
(* buffers or tasks: each buffer it gets is a contiguous stretch of the    *)
(* stream, made of the last OverlapBytes it has already seen and at least  *)
(* one new byte.  The first buffer may begin later in the stream.  A byte  *)
(* is represented by its position in the stream; the filler ahead of the   *)
(* first one has the positions up to 0.                                    *)
(***************************************************************************)
EXTENDS Integers, Sequences

CONSTANT OverlapBytes

VARIABLES consumed, window

Init == consumed = 0 /\ window = <<>>

Deliver ==
  /\ consumed' > consumed
  /\ window' = [i \in 1 .. (OverlapBytes + consumed' - consumed) |->
                  consumed - OverlapBytes + i]

Skip ==
  /\ window = <<>>
  /\ consumed' > consumed
  /\ UNCHANGED window

Spec == Init /\ [][Deliver \/ Skip]_<<consumed, window>>

=============================================================================
