--------------------------- MODULE MCSoloTestnet ----------------------------
(* Constants for model checking SoloTestnet and PaymentDemo.  Address 0 is *)
(* the default address, 1 a client, 2 the faucet, and 3 and 4 are the      *)
(* demo's wallets.                                                         *)
EXTENDS PaymentDemo

Funded == [a \in Address |-> CASE a = 1 -> 2 [] a = 2 -> 6 [] OTHER -> 0]

\* It takes all of the client's balance and, for the fee, a drip.
Payments == {Transfer(1, 1, 2, 0, 1)}

GrpcPayment == {Transfer(1, 2, 1, 0, 1)}

OneDrip == {[recipient |-> 1, amount |-> 1]}
=============================================================================
