---------------------------- MODULE MCProvisioning ----------------------------
(* Two runs of migrate.py in one release; two migrations name action types. *)
EXTENDS Provisioning

Migrations == <<{}, {"a"}, {"a", "b"}>>
OneItem == <<"item">>

MCSpec ==
  /\ ProvInit /\ script = "migrate" /\ shipped = Len(Files)
  /\ [][ProvNext /\ (run'[2] # NotRun => run'[1] # NotRun)]_provars
=============================================================================
