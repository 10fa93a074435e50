--------------------------- MODULE MCMemoryAnalyst ---------------------------
(* A bounded instance of MemoryAnalyst for TLC.  The texts of the seeds    *)
(* have the lengths of the program's own.                                  *)
EXTENDS MemoryAnalyst, TLC

CONSTANTS
  a1, a2, rca,           (* two memory analysts and another agent           *)
  p1,                    (* a request to index the report                   *)
  order, payment,        (* two of the five seeds                           *)
  orderSvc, paymentSvc,  (* the services they are about                     *)
  searchSvc,             (* a service no seed is about                      *)
  pm                     (* the report, which is about that service         *)

MCSeeds == <<order, payment>>
MCReportOf == [p \in Poster |-> pm]
MCServiceOf ==
  (order :> orderSvc) @@ (payment :> paymentSvc) @@ (pm :> searchSvc)
MCLengthOf == (order :> 1193) @@ (payment :> 1052) @@ (pm :> 2600)
MCProviders == DefaultChain({"openai"})
=============================================================================
