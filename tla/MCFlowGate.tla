----------------------------- MODULE MCFlowGate -----------------------------
EXTENDS FlowGate
CONSTANTS iq, detect, chain, p1
=============================================================================
