---------------------------- MODULE RowPartition ----------------------------
(***************************************************************************)
(* How a parallel dispatch cuts n rows into c chunks: chunk w covers the    *)
(* rows from n*w/c up to, not including, n*(w+1)/c. RowWorkerPool uses the   *)
(* cuts.                                                                    *)
(***************************************************************************)
EXTENDS Integers

\* Defect: rows that do not divide evenly are cut off.
CutTruncated(n, c, w) == (n \div c) * w

Cut(n, c, w) == (n * w) \div c

RowsOf(n, c, w) == Cut(n, c, w) .. Cut(n, c, w + 1) - 1

=============================================================================
