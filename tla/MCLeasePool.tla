---------------------------- MODULE MCLeasePool ----------------------------
EXTENDS LeasePool

OneDelay == <<1>>

\* One kind of fault per behaviour.
SingleFaults == {{"crash"}, {"rewrite"}}
NoFaults == {{}}
=============================================================================
