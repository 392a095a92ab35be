\* Both threads, with discarded transactions and refused rows.
SPECIFICATION Spec
CONSTANTS
    EventCount = 2
    Capacity = 4
    MaxDiscards = 2
INVARIANT SlotsConserved
