---------------------------- MODULE MCWarehouseGate ----------------------------
\* The instance of WarehouseGate for TLC: its constants are model values, given in
\* WarehouseGate.cfg.
EXTENDS WarehouseGate
=============================================================================
