-------------------------------- MODULE MCFs --------------------------------
EXTENDS Fs

CONSTANTS file1, file2, zero, val1, val2, none, junk, hole

MCNames == {file1, file2}
MCVal == {zero, val1, val2}
MCWrites(n) == IF n = file1 THEN {val1} ELSE {val2}
MCIndex(n) == IF n = file1 THEN {2} ELSE {0}
MCReads(n) == IF n = file1 THEN {2} ELSE {0}
MCSizes(n) == IF n = file1 THEN {0, 3} ELSE {0, 2}
=============================================================================
