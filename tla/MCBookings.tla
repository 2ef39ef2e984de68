----------------------------- MODULE MCBookings -----------------------------
(* Two reservations, one of which may be rescheduled, on slots that follow  *)
(* each other with just the turnaround between them.                        *)
EXTENDS Bookings

\* One customer of each kind, and one who pays through the bank.
MCCustomers == ({"SANDBOX"} \X Wallets) \cup {<<"BOG_IPAY", "DISCOUNT">>}

=============================================================================
