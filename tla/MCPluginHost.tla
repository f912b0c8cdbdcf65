----------------------------- MODULE MCPluginHost -----------------------------
EXTENDS PluginHost
=============================================================================
