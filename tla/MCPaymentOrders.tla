--------------------------- MODULE MCPaymentOrders ---------------------------
(* Two orders that renew one subscription; a request worker, and the        *)
(* maintenance tasks of its panel instance and of another.                  *)
EXTENDS PaymentOrders

CONSTANTS o1, o2, w, m, n, i1, i2

OneRow == [o \in Orders |-> "subscription"]

TwoInstances == [x \in Workers |-> IF x = n THEN i2 ELSE i1]
=============================================================================
