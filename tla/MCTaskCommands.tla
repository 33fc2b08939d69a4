---- MODULE MCTaskCommands ----
EXTENDS TaskCommandsProperties
CONSTANTS w1, w2
====
