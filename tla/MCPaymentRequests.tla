------------------------- MODULE MCPaymentRequests --------------------------
(* PaymentRequests with interchangeable requests and handlers. *)
EXTENDS PaymentRequests, TLC

Interchangeable == Permutations(Requests) \union Permutations(Handlers)

=============================================================================
