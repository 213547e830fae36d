--------------------------- MODULE MCBookingFlow -----------------------------
(* Instances of BookingFlow for TLC. *)
EXTENDS BookingFlow

MCSlots1 == {1}
MCSlots2 == {1, 2}

=============================================================================
