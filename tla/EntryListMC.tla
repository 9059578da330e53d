---------------------------- MODULE EntryListMC ----------------------------
(* Model values for the entry lists: see EntryList.cfg. *)
EXTENDS EntryList
=============================================================================
