------------------------------ MODULE MCCupsTls ------------------------------
(* Small instances of CupsTls. *)
EXTENDS CupsTls

OnlyWatcher == {"watcher"}
WatcherAndSetup == {"watcher", "setup"}

AnyCovers == SUBSET Addresses
CoversNone == {{}}
KeyOrNone == {0, 1}
WithKey == {1}
=============================================================================
