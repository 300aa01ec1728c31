---------------------------- MODULE MCDashboards ----------------------------
(* Instance of Dashboards for TLC, and the abstraction it implements.      *)
EXTENDS Dashboards
=============================================================================
