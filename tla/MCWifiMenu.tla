---------------------------- MODULE MCWifiMenu ----------------------------
EXTENDS WifiMenu
=============================================================================
