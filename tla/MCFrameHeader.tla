--------------------------- MODULE MCFrameHeader ---------------------------
EXTENDS FrameHeader

MCLinks == Impls \X Impls

(* Every size of up to two bytes' worth of carries, the sizes around each  *)
(* power of 256, those whose upper bytes have their top bit set, the last  *)
(* one that fits the native buffer and the next, and the last Java takes.  *)
MCBodySizes ==
  1..300 \union {32767, 32768, 65279, 65280, 65535, 65536, 99995, 99996, 8388607, 10485759}
=============================================================================
