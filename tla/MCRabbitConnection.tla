------------------------- MODULE MCRabbitConnection -------------------------
EXTENDS RabbitConnectionInv
=============================================================================
