---------------------------- MODULE MCSparseLayer ----------------------------
(* One kind of layer: with an indexer, so that its buffer is in use.        *)
EXTENDS SparseLayer

IndexedLayer == {[ratio |-> 2, overlap |-> 1, chunk |-> 2]}
==============================================================================
