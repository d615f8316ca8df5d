------------------------------- MODULE MCIngest -------------------------------
(* What is posted in the instance of Ingest that TLC checks. *)
EXTENDS Ingest

Entry(id, stamp) == [id |-> id, stamp |-> stamp]

\* The zone of this sender is one tick behind the server's.
Behind == [instant |-> 1, text |-> 0]

Fresh == Entry(Missing, Missing)

CONSTANTS s1, s2

MCLoads ==
  {s1 :> [form |-> "batch", entries |-> <<Entry("a", Behind), Fresh>>] @@
     s2 :> [form |-> "single", entries |-> <<Fresh>>],
   s1 :> [form |-> "batch", entries |-> <<Entry("a", Behind)>>] @@
     s2 :> [form |-> "batch", entries |-> <<Entry("a", Missing)>>],
   s1 :> [form |-> "raw", entries |-> <<Fresh>>] @@
     s2 :> CommandLine(1)}
=============================================================================
