-------------------------- MODULE MCStoreLifecycle --------------------------
\* StoreLifecycle with two goroutines, which may cancel their contexts.
EXTENDS StoreLifecycle
=============================================================================
