---------------------------- MODULE MCEntityTable ----------------------------
(* Three entities on pages of one or two rows.  Every table can be open;   *)
(* the three that differ most are given one step more.                     *)
EXTENDS EntityTable

AllTables == DOMAIN TableOf
StepsOf == [t \in AllTables |->
    IF t \in {"usersOfAll", "userServices", "serviceInbounds"} THEN 3 ELSE 2]
=============================================================================
