--------------------------- MODULE MessageChannel ---------------------------
(***************************************************************************)
(* What one direction of an audio socket promises to the code that writes   *)
(* and handles messages: the messages written come out whole, once and in   *)
(* the order they went in, until the byte stream is torn.                   *)
(***************************************************************************)
EXTENDS Integers, Sequences

CONSTANT Messages

VARIABLES
  accepted,   \* messages wholly written, oldest first
  delivered,  \* messages handed to the callbacks, oldest first
  torn        \* the stream is no longer a sequence of whole messages

vars == <<accepted, delivered, torn>>

Init == accepted = << >> /\ delivered = << >> /\ torn = FALSE

Accept(m) ==
  /\ accepted' = Append(accepted, m)
  /\ UNCHANGED <<delivered, torn>>

Deliver ==
  /\ Len(delivered) < Len(accepted)
  /\ delivered' = Append(delivered, accepted[Len(delivered) + 1])
  /\ UNCHANGED <<accepted, torn>>

(* The stream is torn by a write, whole or not, and promises nothing more. *)
Tear ==
  /\ torn' = TRUE
  /\ accepted' = accepted \/ \E m \in Messages : accepted' = Append(accepted, m)
  /\ UNCHANGED delivered

DeliverAnything ==
  /\ torn
  /\ \E m \in Messages \union {0} : delivered' = Append(delivered, m)
  /\ UNCHANGED <<accepted, torn>>

Next == (\E m \in Messages : Accept(m)) \/ Deliver \/ Tear \/ DeliverAnything

Spec == Init /\ [][Next]_vars

(* What comes out is what went in, so far.                                 *)
Prefix == /\ Len(delivered) <= Len(accepted)
          /\ \A i \in 1..Len(delivered) : delivered[i] = accepted[i]
FifoUntilTorn == ~torn => Prefix
=============================================================================
