---------------------------- MODULE MCArduinoLink ----------------------------
EXTENDS ArduinoLink

\* What analogRead() can answer
MCReadings == {<<"0", "5", "1", "2">>}
=============================================================================
