------------------------------ MODULE MCUart ------------------------------
EXTENDS Uart
=============================================================================
