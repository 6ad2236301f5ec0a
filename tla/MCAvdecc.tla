------------------------------ MODULE MCAvdecc ------------------------------
(* Small networks: at most two listener entities, two inputs, two remote    *)
(* talkers and two controllers.                                             *)
EXTENDS Avdecc
=============================================================================
