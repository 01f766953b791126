--------------------------- MODULE MCWifiControl ---------------------------
EXTENDS WifiControl, TLC

=============================================================================
