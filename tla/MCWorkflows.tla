---------------------------- MODULE MCWorkflows -----------------------------
(* A form of two inputs. *)
EXTENDS Workflows

MCKey == {"CTRL", "SHIFT", "ENTER", "A", "L", "S", "V"}
MCFields == <<"first", "second">>
=============================================================================
