\* FirstNow is 2^29 - 64 * 32: 32 milliseconds apart, the clock has just over a
\* second of ticks to go before its numbers are 64 apart.
SPECIFICATION Spec
CONSTANT FirstNow = 536868864
PROPERTY DeathIsTemporary
CHECK_DEADLOCK FALSE
