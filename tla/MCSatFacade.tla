---------------------------- MODULE MCSatFacade ----------------------------
(* An instance of SatFacade for TLC.                                       *)
EXTENDS SatFacade

(* One assumption false, or all together a contradiction.                  *)
ThreeClauses == {{-1}, {1, 2}, {1, -2}}
NoneOrTwo == {{}, {1, 2}}
SmallBudgets == {0, 1}
=============================================================================
