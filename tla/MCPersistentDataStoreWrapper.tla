-------------------- MODULE MCPersistentDataStoreWrapper --------------------
(* Instances of PersistentDataStoreWrapper for TLC. *)
EXTENDS PersistentDataStoreWrapper, TLC

\* Goroutines that evaluate flags are interchangeable.
ReaderSymmetry == Permutations(Readers)
=============================================================================
