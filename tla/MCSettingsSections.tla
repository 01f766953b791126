------------------------- MODULE MCSettingsSections -------------------------
EXTENDS SettingsSections
=============================================================================
