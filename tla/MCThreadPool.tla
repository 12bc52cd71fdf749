---------------------------- MODULE MCThreadPool ----------------------------
(* The thread pool on two and three threads. *)
EXTENDS ThreadPool

MulMat(k) == [op |-> "mul_mat", nchunk |-> k]
Rows == [op |-> "rows", nchunk |-> 0]
None == [op |-> "none", nchunk |-> 0]

\* Two products back to back, an operation by rows between empty ones; for all
\* the threads, for more than there are and for one.
MCPlans == {[cgraph |-> <<MulMat(4), MulMat(1)>>, n_threads |-> 2],
            [cgraph |-> <<Rows, None, MulMat(6)>>, n_threads |-> 5],
            [cgraph |-> <<MulMat(2)>>, n_threads |-> 1]}
=============================================================================
