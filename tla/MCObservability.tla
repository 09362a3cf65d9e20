-------------------------- MODULE MCObservability --------------------------
EXTENDS Observability

\* Records of the same instant, in the pager's order.
MCOld == <<9, 8>>
=============================================================================
