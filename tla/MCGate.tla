-------------------------------- MODULE MCGate --------------------------------
(***************************************************************************)
(* The roster and the fills for the runs of GateAuthority.                 *)
(***************************************************************************)
EXTENDS GateAuthority

MCRoster == <<1>>
MCFills == {[decides |-> {0}, breaks |-> {}], [decides |-> {1}, breaks |-> {}],
            [decides |-> {}, breaks |-> {0}]}

===============================================================================
