---------------------------- MODULE MCDcgmClient ----------------------------
\* Two engines, two faults, as many connections as they can cost, and violations with and without a condition.
EXTENDS DcgmClient
MCFeatures == {"policy", "health", "fields"}
MCFindings == {<<"Xid", 79>>, <<"NvidiaPowerError", 0>>}
=============================================================================
