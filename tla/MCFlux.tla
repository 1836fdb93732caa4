------------------------------- MODULE MCFlux -------------------------------
EXTENDS Flux
=============================================================================
