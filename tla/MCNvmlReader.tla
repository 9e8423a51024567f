---------------------------- MODULE MCNvmlReader ----------------------------
\* Two registered checks; the bounds are chosen in the configuration.
EXTENDS NvmlReader
MCChecks == <<"health", "devices">>
=============================================================================
