------------------------------- MODULE MCAlarm -------------------------------
\* A small instance of the alarm context for TLC.
EXTENDS Alarm
==============================================================================
