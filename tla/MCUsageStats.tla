---------------------------- MODULE MCUsageStats ----------------------------
EXTENDS UsageStats, TLC

HourOfSix == <<1, 6, 12>>
KeepLong == <<15, 30, 0>>
=============================================================================
