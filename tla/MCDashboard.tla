---------------------------- MODULE MCDashboard ----------------------------
EXTENDS Dashboard
=============================================================================
