------------------------------ MODULE MCMassStorage ------------------------------
EXTENDS MassStorage

AllModes == [block : BOOLEAN, cache : BOOLEAN, inband : BOOLEAN]
CachingModes == [block : {FALSE}, cache : {TRUE}, inband : {FALSE}]
================================================================================
