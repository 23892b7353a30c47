----------------------------- MODULE MC_Startup -----------------------------
(* Instances of Startup for TLC *)
EXTENDS Startup

TwoBuckets == <<"vms", "vm_migrations">>
=============================================================================
