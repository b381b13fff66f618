---- MODULE MCFastMarching ----
EXTENDS FastMarchingProperties
====
