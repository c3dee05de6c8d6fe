------------------------------ MODULE LinearLog ------------------------------
(***************************************************************************)
(* Address arithmetic of __monolog_linear_base (logstore/include/          *)
(* monolog.h): a log kept in buckets of a fixed BLOCK_SIZE, each allocated *)
(* with BUFFER_SIZE extra cells.  A run of cells written at an offset lies *)
(* wholly in the bucket of its first cell: one that starts near the end of *)
(* a bucket continues into that bucket's extra cells, never into the next  *)
(* bucket.  A physical address is therefore a pair <<bucket, cell>>.       *)
(***************************************************************************)
EXTENDS Integers

\* `bucket_idx' of ptr(), read(), write(), get() and set().
BucketIdx(offset, block_size) == offset \div block_size

\* Mutant: the offset itself is used as the cell of the bucket.
BucketOffAbsolute(offset, block_size) == offset

\* `bucket_off' of the same functions.
BucketOff(offset, block_size) == offset % block_size

\* Where the j-th cell of a run that starts at `offset' is kept.
Addr(offset, j, block_size) ==
  <<BucketIdx(offset, block_size), BucketOff(offset, block_size) + j>>

\* The cells memcpy(ptr(offset), ..., len) touches.
Run(offset, len, block_size) ==
  {Addr(offset, j, block_size) : j \in 0..(len - 1)}

\* The buckets ensure_alloc(idx1, idx2) makes sure of: both ends included.
Buckets(idx1, idx2, block_size) ==
  BucketIdx(idx1, block_size)..BucketIdx(idx2, block_size)

=============================================================================
