------------------------------ MODULE MCTxPool ------------------------------
(***************************************************************************)
(* TLC instance of TxPool: eight acceptable transactions, among which     *)
(* three share a key image (one of them spends it twice, which add_tx does *)
(* not see), two share a hash and four tie on the fee; and four that the   *)
(* checks must refuse (ring too small on the second input only, no inputs, *)
(* no outputs, no proofs).                                                 *)
(***************************************************************************)
EXTENDS TxPool

Input(image) == [k_image |-> image, ring |-> 16]

Tx(hash, fee, vin) ==
  [hash |-> hash, fee |-> fee, vin |-> vin, vout |-> 2, proofs |-> TRUE]

Accepted ==
  {Tx("a", 1, <<Input("k1")>>),
   Tx("b", 2, <<Input("k1"), Input("k2")>>),
   Tx("c", 2, <<Input("k3")>>),
   Tx("d", 2, <<Input("k4")>>),
   Tx("e", 3, <<Input("k5")>>),
   Tx("e", 3, <<Input("k6")>>),
   Tx("j", 1, <<Input("k10")>>),
   Tx("t", 2, <<Input("k1"), Input("k1")>>)}

Refused ==
  {Tx("f", 9, <<Input("k7"), [k_image |-> "k8", ring |-> 15]>>),
   Tx("g", 9, << >>),
   [Tx("h", 9, <<Input("k9")>>) EXCEPT !.vout = 0],
   [Tx("i", 9, <<Input("k9")>>) EXCEPT !.proofs = FALSE]}

MCTransactions == Accepted \union Refused
=============================================================================
