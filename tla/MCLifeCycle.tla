---------------------------- MODULE MCLifeCycle -----------------------------
EXTENDS LifeCycle

CONSTANTS port, arp

MCDetectors == <<port, arp>>
=============================================================================
