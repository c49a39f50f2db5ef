---------------------------- MODULE MCAdmThread ----------------------------
(* The handlers the runs of AdmThread use. *)
EXTENDS AdmThread

OneHandler   == {<<"f", "p">>}
MaybeHandler == {<<"f", "p">>, <<NULL, NULL>>}
Some == <<"f", "p">>
=============================================================================
